--------------------------- MODULE DeskLifeProofs ---------------------------
(***************************************************************************)
(* The life of a desk, for any number of processes and files and any bound *)
(* on the edits: at most one desk holds the guard and the document beside   *)
(* it is that desk's, the shell says a desk has stopped only of one that    *)
(* has, a clean show is on the disk, and the last autosave is beside it.    *)
(* Nothing is assumed of where the copies are but that a file is not its    *)
(* own: two files with one stem share theirs.                               *)
(***************************************************************************)
EXTENDS DeskLife, TLAPS

-----------------------------------------------------------------------------
(* Type correctness                                                        *)

LEMMA Constants ==
    /\ NoDesk \notin Desks
    /\ First \in Openable /\ Openable \subseteq Files
    /\ \A p \in Openable : Copy[p] \in Files /\ Copy[p] # p
    /\ Missing \notin Shows /\ Damaged \notin Shows /\ Never \notin Shows
    /\ 0 \in Shows /\ Shows \subseteq Int
    /\ Missing # Damaged
    /\ 0 \in 0 .. Interval
<1>1. Shows \subseteq Nat /\ 0 \in Shows
  BY DeskAssumption DEF Shows
<1>2. /\ NoDesk \notin Desks
      /\ First \in Openable /\ Openable \subseteq Files
      /\ \A p \in Openable : Copy[p] \in Files /\ Copy[p] # p
  BY DeskAssumption DEF Files
<1> QED BY <1>1, <1>2, DeskAssumption DEF Missing, Damaged, Never

Memories == [show : Shows, dirty : BOOLEAN, store : Openable,
             since : {Never} \cup 0 .. Interval, home : Openable,
             safe : {Never} \cup Shows]
Writes == [step : {"idle", "opened", "committed", "removed", "made"}, at : Files]

LocksTyped ==
    /\ guard \in {NoDesk} \cup Desks /\ shared \in BOOLEAN
    /\ document \in [pid : {NoDesk} \cup Desks, websocket : BOOLEAN]
    /\ pc \in [Desks -> {"unborn", "asking", "guarded", "starting", "open",
                         "running", "leaving", "withdrawn", "dead"}]
    /\ shell \in [at : {"start", "waiting", "watching", "stood down", "unreachable"},
                  desk : {NoDesk} \cup Desks]

FilesTyped ==
    /\ disk \in [Files -> Shows \cup {Missing, Damaged}]
    /\ edits \in Shows /\ remembered \in Openable
    /\ mem \in [Desks -> Memories]
    /\ busy \in [Desks -> Writes]

\* TypeOK alone is not inductive: SaveDone adopts the file of the write it ends.
\* A save is of a file somebody named, and only a running desk writes.
SavesAreNamed ==
    \A d \in Desks :
        /\ busy[d].step \in {"opened", "committed"} => busy[d].at \in Openable
        /\ busy[d].step # "idle" => pc[d] = "running"

TypeInv == LocksTyped /\ FilesTyped /\ SavesAreNamed

LEMMA TypeParts == TypeOK <=> LocksTyped /\ FilesTyped
  BY DEF TypeOK, LocksTyped, FilesTyped, Memories, Writes

LEMMA Fresh == NewMemory \in Memories /\ Nothing \in Writes /\ Nothing.step = "idle"
  BY Constants DEF NewMemory, Nothing, Memories, Writes

LEMMA Typed ==
    ASSUME FilesTyped, NEW d \in Desks
    PROVE  /\ mem[d] \in Memories /\ busy[d] \in Writes
           /\ mem[d].store \in Openable /\ mem[d].home \in Openable
           /\ mem[d].show \in Shows /\ mem[d].dirty \in BOOLEAN
           /\ mem[d].since \in {Never} \cup 0 .. Interval
           /\ mem[d].store \in Files /\ mem[d].home \in Files
           /\ Copy[mem[d].store] \in Files /\ busy[d].at \in Files
           /\ \A p \in Files : disk[p] \in Shows \cup {Missing, Damaged}
<1>1. mem[d] \in Memories /\ busy[d] \in Writes
  BY DEF FilesTyped
<1> QED BY <1>1, Constants DEF FilesTyped, Memories, Writes

LEMMA TypeInit == Init => TypeInv
<1> SUFFICES ASSUME Init PROVE TypeInv
  OBVIOUS
<1>1. disk \in [Files -> Shows \cup {Missing, Damaged}]
  BY Constants DEF Init
<1>2. FilesTyped
  BY <1>1, Constants, Fresh DEF Init, FilesTyped
<1> QED BY <1>2, Fresh DEF Init, TypeInv, LocksTyped, SavesAreNamed, NoDocument

-----------------------------------------------------------------------------
(* What one desk does, it does to its own memory and its own writes        *)

LEMMA OpenedAtStart ==
    ASSUME TypeInv, NEW d \in Desks, OpenAtStart(d), pc'[d] # "leaving"
    PROVE  \E path \in Openable :
               /\ mem' = [mem EXCEPT ![d] = [NewMemory EXCEPT
                             !.show = disk'[path], !.store = path, !.home = path]]
               /\ mem'[d] \in Memories
               /\ mem'[d].show = disk'[path] /\ mem'[d].store = path
               /\ mem'[d].home = path /\ ~mem'[d].dirty /\ mem'[d].safe = Never
               /\ disk' \in [Files -> Shows \cup {Missing, Damaged}]
               /\ disk'[path] \in Shows
               /\ remembered' = path
<1> DEFINE path == IF disk[remembered] # Missing THEN remembered ELSE First
<1>1. path \in Openable /\ path \in Files
  BY Constants DEF TypeInv, FilesTyped
<1>2. disk[path] # Damaged
  BY DEF OpenAtStart, Go, TypeInv, LocksTyped
<1>3. /\ disk' = [disk EXCEPT ![path] = IF @ = Missing THEN 0 ELSE @]
      /\ mem' = [mem EXCEPT ![d] = [NewMemory EXCEPT
                     !.show = disk'[path], !.store = path, !.home = path]]
      /\ remembered' = path
  BY <1>2 DEF OpenAtStart
<1> HIDE DEF path
<1>4. disk' \in [Files -> Shows \cup {Missing, Damaged}] /\ disk'[path] \in Shows
  BY <1>1, <1>2, <1>3, Constants DEF TypeInv, FilesTyped
<1> DEFINE m == [NewMemory EXCEPT !.show = disk'[path], !.store = path, !.home = path]
<1>5. m \in Memories /\ m.show = disk'[path] /\ m.store = path /\ m.home = path
      /\ ~m.dirty /\ m.safe = Never
  BY <1>1, <1>4, Fresh DEF Memories, NewMemory
<1>6. mem'[d] = m
  BY <1>3 DEF TypeInv, FilesTyped
<1> HIDE DEF m
<1> QED BY <1>1, <1>3, <1>4, <1>5, <1>6 DEF m

LEMMA TypeLife ==
    ASSUME TypeInv, NEW d \in Desks, Life(d)
    PROVE  TypeInv'
<1> USE Fresh DEF TypeInv, LocksTyped, SavesAreNamed
<1>1. CASE Acquire(d)
  BY <1>1 DEF Acquire, Go, fileVars, FilesTyped
<1>2. CASE Announce(d)
  BY <1>2 DEF Announce, Go, fileVars, FilesTyped
<1>3. CASE OpenAtStart(d)
  <2>1. UNCHANGED <<guard, shared, document, edits, busy, shell>>
        /\ pc[d] = "starting" /\ (Go(d, "leaving") \/ Go(d, "open"))
    BY <1>3 DEF OpenAtStart
  <2>2. CASE pc'[d] # "leaving"
    <3>1. FilesTyped'
      BY <1>3, <2>1, <2>2, OpenedAtStart DEF FilesTyped
    <3> QED BY <2>1, <3>1 DEF Go
  <2>3. CASE pc'[d] = "leaving"
    <3>1. UNCHANGED <<disk, remembered, mem>>
      BY <1>3, <2>3 DEF OpenAtStart, Go
    <3> QED BY <2>1, <3>1 DEF Go, FilesTyped
  <2> QED BY <2>2, <2>3
<1>4. CASE Publish(d)
  BY <1>4 DEF Publish, Go, fileVars, FilesTyped
<1>5. CASE Stop(d)
  BY <1>5 DEF Stop, Go, fileVars, FilesTyped
<1>6. CASE Withdraw(d)
  BY <1>6 DEF Withdraw, Go, fileVars, NoDocument, FilesTyped
<1>7. CASE Unlock(d)
  <2>1. FilesTyped'
    BY <1>7 DEF Unlock, FilesTyped
  <2> QED BY <1>7, <2>1 DEF Unlock, Go
<1>8. CASE Crash(d)
  <2>1. FilesTyped'
    BY <1>8 DEF Crash, FilesTyped
  <2>2. \A e \in Desks : busy'[e] = IF e = d THEN Nothing ELSE busy[e]
    BY <1>8 DEF Crash, FilesTyped
  <2> QED BY <1>8, <2>1, <2>2 DEF Crash, Go
<1> QED BY <1>1, <1>2, <1>3, <1>4, <1>5, <1>6, <1>7, <1>8 DEF Life

LEMMA KeepingFrame ==
    ASSUME TypeInv, NEW d \in Desks, Keeping(d)
    PROVE  /\ pc[d] = "running"
           /\ UNCHANGED <<lockVars, shell>>
           /\ \A e \in Desks \ {d} : mem'[e] = mem[e] /\ busy'[e] = busy[e]
<1> USE DEF TypeInv, FilesTyped, SavesAreNamed, Free, Running, Busy, Done
<1>1. CASE Edit(d)
  BY <1>1 DEF Edit
<1>2. CASE SaveCommit(d)
  BY <1>2 DEF SaveCommit
<1>3. CASE SaveFails(d)
  BY <1>3 DEF SaveFails
<1>4. CASE SaveDone(d)
  BY <1>4 DEF SaveDone
<1>5. CASE Poll(d)
  BY <1>5 DEF Poll
<1>6. CASE CopyOpen(d)
  BY <1>6 DEF CopyOpen
<1>7. CASE CopyCommit(d)
  BY <1>7 DEF CopyCommit
<1>8. CASE CopyFails(d)
  BY <1>8 DEF CopyFails
<1>9. CASE \E p \in Openable : SaveShowAs(d, p) \/ OpenShow(d, p) \/ NewShow(d, p)
  BY <1>9 DEF SaveShowAs, OpenShow, NewShow, Adopt
<1> QED BY <1>1, <1>2, <1>3, <1>4, <1>5, <1>6, <1>7, <1>8, <1>9 DEF Keeping

\* What each write does to this desk's memory, to its write and to the disk.
LEMMA SaveDoneDoes ==
    ASSUME TypeInv, NEW d \in Desks, SaveDone(d)
    PROVE  LET at == busy[d].at IN
           /\ at \in Openable /\ at \in Files /\ Copy[at] \in Files
           /\ mem'[d] = [mem[d] EXCEPT !.dirty = FALSE, !.store = at, !.home = at,
                                       !.safe = Never]
           /\ mem'[d] \in Memories /\ mem' \in [Desks -> Memories]
           /\ busy'[d] = Nothing
           /\ disk' \in [Files -> Shows \cup {Missing, Damaged}]
           /\ \A f \in Files : f # Copy[at] => disk'[f] = disk[f]
<1> DEFINE at == busy[d].at
<1>1. at \in Openable /\ at \in Files /\ Copy[at] \in Files
  BY Constants DEF SaveDone, TypeInv, SavesAreNamed
<1>2. mem' = [mem EXCEPT ![d].dirty = FALSE, ![d].store = at, ![d].home = at,
                         ![d].safe = Never]
      /\ \E left \in {Missing, disk[Copy[at]]} : disk' = [disk EXCEPT ![Copy[at]] = left]
      /\ busy' = [busy EXCEPT ![d] = Nothing]
  BY DEF SaveDone, Write, Done
<1>3. mem[d] \in Memories
  BY Typed DEF TypeInv
<1> HIDE DEF at
<1>4. /\ mem'[d] = [mem[d] EXCEPT !.dirty = FALSE, !.store = at, !.home = at,
                                  !.safe = Never]
      /\ mem' = [mem EXCEPT ![d] = mem'[d]]
  BY <1>2 DEF TypeInv, FilesTyped
<1>5. mem'[d] \in Memories
  BY <1>1, <1>3, <1>4 DEF Memories
<1>6. /\ disk' \in [Files -> Shows \cup {Missing, Damaged}]
      /\ \A f \in Files : f # Copy[at] => disk'[f] = disk[f]
  BY <1>1, <1>2 DEF TypeInv, FilesTyped
<1> QED BY <1>1, <1>2, <1>4, <1>5, <1>6 DEF at, TypeInv, FilesTyped

LEMMA PollDoes ==
    ASSUME TypeInv, NEW d \in Desks, Poll(d)
    PROVE  /\ mem' \in [Desks -> Memories]
           /\ \E n \in {Never} \cup 0 .. Interval : mem'[d] = [mem[d] EXCEPT !.since = n]
           /\ \/ UNCHANGED <<disk, busy>>
              \/ /\ mem[d].dirty
                 /\ disk' = [disk EXCEPT ![Copy[mem[d].store]] = Missing]
                 /\ busy' = [busy EXCEPT ![d] = [step |-> "removed",
                                                 at |-> Copy[mem[d].store]]]
<1>1. PICK n : /\ mem' = [mem EXCEPT ![d].since = n]
               /\ n \in {Never} \cup 0 .. Interval
  BY Typed, DeskAssumption DEF Poll, TypeInv, Never
<1>2. mem'[d] = [mem[d] EXCEPT !.since = n] /\ mem' = [mem EXCEPT ![d] = mem'[d]]
  BY <1>1 DEF TypeInv, FilesTyped
<1>3. mem'[d] \in Memories
  BY <1>1, <1>2, Typed DEF Memories, TypeInv
<1>4. mem' \in [Desks -> Memories]
  BY <1>2, <1>3 DEF TypeInv, FilesTyped
<1> QED BY <1>1, <1>2, <1>4 DEF Poll, Write, Busy

LEMMA AdoptDoes ==
    ASSUME TypeInv, NEW d \in Desks, NEW p \in Openable,
           NEW s \in Shows \cup {Damaged}, Adopt(d, p, s)
    PROVE  /\ mem' \in [Desks -> Memories] /\ remembered' \in Openable
           /\ IF s = Damaged
              THEN mem'[d] = [mem[d] EXCEPT !.store = p]
              ELSE mem'[d] = [NewMemory EXCEPT !.show = s, !.store = p, !.home = p,
                                               !.since = mem[d].since]
<1>1. CASE s = Damaged
  <2>1. mem' = [mem EXCEPT ![d].store = p] /\ remembered' = remembered
    BY <1>1 DEF Adopt
  <2>2. mem'[d] = [mem[d] EXCEPT !.store = p] /\ mem' = [mem EXCEPT ![d] = mem'[d]]
    BY <2>1 DEF TypeInv, FilesTyped
  <2>3. mem'[d] \in Memories
    BY <2>2, Typed DEF Memories, TypeInv
  <2> QED BY <1>1, <2>1, <2>2, <2>3 DEF TypeInv, FilesTyped
<1>2. CASE s # Damaged
  <2> DEFINE m == [NewMemory EXCEPT !.show = s, !.store = p, !.home = p,
                                    !.since = mem[d].since]
  <2>1. m \in Memories
    BY <1>2, Fresh, Typed DEF Memories, TypeInv
  <2>2. mem' = [mem EXCEPT ![d] = m] /\ remembered' = p
    BY <1>2 DEF Adopt
  <2> HIDE DEF m
  <2>3. mem'[d] = m /\ mem' \in [Desks -> Memories]
    BY <2>1, <2>2 DEF TypeInv, FilesTyped
  <2> QED BY <1>2, <2>2, <2>3 DEF m
<1> QED BY <1>1, <1>2

LEMMA TypeKeeping ==
    ASSUME TypeInv, NEW d \in Desks, Keeping(d)
    PROVE  TypeInv'
<1> DEFINE FilesAfter ==
        /\ disk' \in [Files -> Shows \cup {Missing, Damaged}]
        /\ edits' \in Shows /\ remembered' \in Openable
        /\ mem' \in [Desks -> Memories]
        /\ busy' \in [Desks -> Writes]
        /\ busy'[d].step \in {"opened", "committed"} => busy'[d].at \in Openable
<1>1. LocksTyped' /\ pc' = pc /\ pc[d] = "running"
  BY KeepingFrame DEF lockVars, TypeInv, LocksTyped
<1>2. ASSUME FilesAfter PROVE TypeInv'
  BY <1>1, <1>2, KeepingFrame DEF TypeInv, FilesTyped, SavesAreNamed
<1> USE Typed, Fresh DEF TypeInv, FilesTyped
<1>3. CASE Edit(d)
  <2>1. edits' \in Shows /\ UNCHANGED <<disk, remembered, busy>>
    BY <1>3, DeskAssumption DEF Edit, Shows
  <2>2. mem' = [mem EXCEPT ![d].show = edits', ![d].dirty = TRUE]
    BY <1>3 DEF Edit
  <2>3. mem' \in [Desks -> Memories]
    BY <2>1, <2>2 DEF Memories
  <2> QED BY <1>2, <2>1, <2>3 DEF SavesAreNamed
<1>4. CASE SaveCommit(d)
  <2>1. PICK at \in Openable :
            /\ disk' = [disk EXCEPT ![at] = mem[d].show]
            /\ busy' = [busy EXCEPT ![d] = [step |-> "committed", at |-> at]]
    BY <1>4 DEF SaveCommit, Busy, Write, SavesAreNamed
  <2>2. at \in Files /\ [step |-> "committed", at |-> at] \in Writes
    BY Constants DEF Writes
  <2>3. UNCHANGED <<edits, remembered, mem>>
    BY <1>4 DEF SaveCommit
  <2> QED BY <1>2, <2>1, <2>2, <2>3
<1>5. CASE SaveFails(d)
  BY <1>2, <1>5 DEF SaveFails, Done
<1>6. CASE SaveDone(d)
  <2>1. edits' = edits /\ remembered' = busy[d].at /\ busy' = [busy EXCEPT ![d] = Nothing]
    BY <1>6 DEF SaveDone, Done
  <2> QED BY <1>2, <1>6, <2>1, SaveDoneDoes
<1>7. CASE Poll(d)
  <2>1. [step |-> "removed", at |-> Copy[mem[d].store]] \in Writes
    BY DEF Writes
  <2>2. UNCHANGED <<edits, remembered>>
    BY <1>7 DEF Poll
  <2> QED BY <1>2, <1>7, <2>1, <2>2, PollDoes DEF SavesAreNamed
<1>8. CASE CopyOpen(d)
  <2>1. [step |-> "made", at |-> busy[d].at] \in Writes
    BY DEF Writes
  <2> QED BY <1>2, <1>8, <2>1, Constants DEF CopyOpen, Write, Busy
<1>9. CASE CopyCommit(d)
  <2>1. mem' \in [Desks -> Memories]
    BY <1>9 DEF CopyCommit, Memories
  <2> QED BY <1>2, <1>9, <2>1 DEF CopyCommit, Write, Done
<1>10. CASE CopyFails(d)
  <2>1. mem' \in [Desks -> Memories]
    BY <1>10 DEF CopyFails, Memories
  <2> QED BY <1>2, <1>10, <2>1 DEF CopyFails, Done
<1>11. ASSUME NEW p \in Openable, SaveShowAs(d, p) PROVE TypeInv'
  <2>1. p \in Files /\ [step |-> "opened", at |-> p] \in Writes
    BY Constants DEF Writes
  <2> QED BY <1>2, <1>11, <2>1, Constants DEF SaveShowAs, Write, Busy
<1>12. ASSUME NEW p \in Openable, OpenShow(d, p) PROVE TypeInv'
  <2>1. disk[p] \in Shows \cup {Damaged}
    BY <1>12, Constants DEF OpenShow
  <2> QED BY <1>2, <1>12, <2>1, AdoptDoes DEF OpenShow, SavesAreNamed
<1>13. ASSUME NEW p \in Openable, NewShow(d, p) PROVE TypeInv'
  <2>1. disk' \in [Files -> Shows \cup {Missing, Damaged}]
    BY <1>13, Constants DEF NewShow
  <2> QED BY <1>2, <1>13, <2>1, AdoptDoes, Constants DEF NewShow, SavesAreNamed
<1> QED BY <1>3, <1>4, <1>5, <1>6, <1>7, <1>8, <1>9, <1>10, <1>11, <1>12, <1>13 DEF Keeping

LEMMA LookFindsDoes ==
    ASSUME LookFinds
    PROVE  /\ guard # NoDesk
           /\ UNCHANGED <<lockVars, fileVars>>
           /\ \/ document.websocket /\ shell' = [at |-> "watching", desk |-> document.pid]
              \/ shell' = [shell EXCEPT !.at = "unreachable"]
              \/ /\ shell.at = "watching" /\ ~Holding(document.pid)
                 /\ shell' = [shell EXCEPT !.at = "stood down"]
              \/ shell' = shell
<1>1. CASE shell.at # "watching" /\ document.websocket
  BY <1>1, Zenon DEF LookFinds
<1>2. CASE shell.at = "start" /\ ~document.websocket
  BY <1>2 DEF LookFinds
<1>3. CASE shell.at = "watching" /\ ~Holding(document.pid)
  BY <1>3 DEF LookFinds
<1>4. CASE /\ ~(shell.at # "watching" /\ document.websocket)
           /\ ~(shell.at = "start" /\ ~document.websocket)
           /\ ~(shell.at = "watching" /\ ~Holding(document.pid))
  BY <1>4 DEF LookFinds
<1> QED BY <1>1, <1>2, <1>3, <1>4

LEMMA TypeLooking == TypeInv /\ Looking => TypeInv'
<1> SUFFICES ASSUME TypeInv, Looking PROVE TypeInv'
  OBVIOUS
<1> USE DEF TypeInv, LocksTyped, FilesTyped, SavesAreNamed
<1>1. CASE LookBegins
  BY <1>1 DEF LookBegins, fileVars
<1>2. CASE LookEnds
  BY <1>2 DEF LookEnds, fileVars, Spawn, Unborn, Go
<1>3. CASE LookFinds
  <2>1. UNCHANGED <<lockVars, fileVars>>
    BY <1>3, LookFindsDoes
  <2>2. document.pid \in {NoDesk} \cup Desks
    OBVIOUS
  <2>3. shell' \in [at : {"start", "waiting", "watching", "stood down", "unreachable"},
                   desk : {NoDesk} \cup Desks]
    <3>1. CASE shell' = [at |-> "watching", desk |-> document.pid]
      BY <2>2, <3>1
    <3>2. CASE \E at \in {"unreachable", "stood down"} : shell' = [shell EXCEPT !.at = at]
      BY <3>2
    <3>3. CASE shell' = shell
      BY <3>3
    <3> QED BY <1>3, <3>1, <3>2, <3>3, LookFindsDoes, Zenon
  <2> QED BY <2>1, <2>3 DEF lockVars, fileVars
<1>4. CASE StartAgain
  BY <1>4 DEF StartAgain, lockVars, fileVars
<1>5. CASE StartDesk
  BY <1>5 DEF StartDesk, Spawn, Unborn, Go, fileVars
<1> QED BY <1>1, <1>2, <1>3, <1>4, <1>5 DEF Looking

LEMMA TypeStep == TypeInv /\ [Next]_vars => TypeInv'
<1> SUFFICES ASSUME TypeInv, [Next]_vars PROVE TypeInv'
  OBVIOUS
<1>1. CASE UNCHANGED vars
  BY <1>1 DEF vars, TypeInv, LocksTyped, FilesTyped, SavesAreNamed
<1> QED BY <1>1, TypeLife, TypeKeeping, TypeLooking DEF Next

\* Every desk, file, write and shell is well typed, for any number of them.
THEOREM TypeCorrect == Spec => []TypeOK
<1>1. TypeInv => TypeOK
  BY TypeParts DEF TypeInv
<1> QED BY <1>1, TypeInit, TypeStep, PTL DEF Spec

-----------------------------------------------------------------------------
(* The guard, the document beside it, and the shell that reads both        *)

Held == {"guarded", "starting", "open", "running", "leaving", "withdrawn"}
NotYetOpen == {"unborn", "asking", "guarded"}

\* A desk past try_lock and short of its end holds the guard, and nobody else
\* does; a look holds the shared lock only while the guard is free.
OneHolder ==
    /\ \A d \in Desks : pc[d] \in Held <=> guard = d
    /\ shared => guard = NoDesk

\* The document names the holder from its announcement to its withdrawal. One
\* that carries an address was published, by a desk that may be dead by now.
DocumentStands ==
    /\ \A d \in Desks :
         /\ pc[d] \in {"starting", "open", "running", "leaving"} => document.pid = d
         /\ pc[d] = "running" => document.websocket
         /\ pc[d] = "withdrawn" => document.pid = NoDesk
    /\ document.websocket =>
         document.pid \in Desks /\ pc[document.pid] \notin NotYetOpen

\* The shell watches a desk that was open once; a desk that is dead stays dead.
ShellFollows ==
    /\ shell.at \in {"watching", "stood down"} =>
         shell.desk \in Desks /\ pc[shell.desk] \notin NotYetOpen
    /\ shell.at = "stood down" => pc[shell.desk] = "dead"

LockInv == TypeInv /\ OneHolder /\ DocumentStands /\ ShellFollows

LEMMA LockInit == Init => LockInv
<1> SUFFICES ASSUME Init PROVE LockInv
  OBVIOUS
<1> QED BY TypeInit, Constants
        DEF Init, LockInv, OneHolder, DocumentStands, ShellFollows, Held, NoDocument

LEMMA LockLife ==
    ASSUME LockInv, NEW d \in Desks, Life(d)
    PROVE  OneHolder' /\ DocumentStands' /\ ShellFollows'
<1> USE Constants DEF LockInv, TypeInv, LocksTyped, OneHolder, DocumentStands, ShellFollows,
                      Held, NotYetOpen, Go
<1>1. CASE Acquire(d)
  <2>1. pc[d] = "asking" /\ guard # d /\ UNCHANGED <<shared, document, shell>>
    BY <1>1 DEF Acquire
  <2>2. CASE guard = NoDesk /\ ~shared /\ guard' = d /\ Go(d, "guarded")
    BY <2>1, <2>2
  <2>3. CASE UNCHANGED guard /\ Go(d, "dead")
    BY <2>1, <2>3
  <2> QED BY <1>1, <2>2, <2>3 DEF Acquire
<1>2. CASE Announce(d)
  BY <1>2 DEF Announce
<1>3. CASE OpenAtStart(d)
  <2>1. /\ UNCHANGED <<guard, shared, document, shell>>
        /\ pc[d] = "starting"
        /\ \E label \in {"leaving", "open"} : Go(d, label)
    BY <1>3 DEF OpenAtStart
  <2> QED BY <2>1
<1>4. CASE Publish(d)
  BY <1>4 DEF Publish
<1>5. CASE Stop(d)
  BY <1>5 DEF Stop
<1>6. CASE Withdraw(d)
  BY <1>6 DEF Withdraw, NoDocument
<1>7. CASE Unlock(d)
  BY <1>7 DEF Unlock
<1>8. CASE Crash(d)
  BY <1>8 DEF Crash
<1> QED BY <1>1, <1>2, <1>3, <1>4, <1>5, <1>6, <1>7, <1>8 DEF Life

LEMMA LockLooking ==
    ASSUME LockInv, Looking
    PROVE  OneHolder' /\ DocumentStands' /\ ShellFollows'
<1> USE Constants DEF LockInv, TypeInv, LocksTyped, OneHolder, DocumentStands, ShellFollows,
                      Held, NotYetOpen, Go
<1>1. CASE LookBegins
  BY <1>1 DEF LookBegins
<1>2. CASE LookEnds
  <2>1. shared /\ ~shared' /\ UNCHANGED <<guard, document>>
    BY <1>2 DEF LookEnds
  <2>2. CASE shell.at = "start" /\ Unborn # {}
    <3>1. /\ shell' = [shell EXCEPT !.at = "waiting"]
          /\ \E d \in Desks : pc[d] = "unborn" /\ Go(d, "asking")
      BY <1>2, <2>2 DEF LookEnds, Spawn, Unborn
    <3> QED BY <2>1, <3>1
  <2>3. CASE shell.at = "watching"
    <3>1. shell' = [shell EXCEPT !.at = "stood down"] /\ UNCHANGED pc
      BY <1>2, <2>3 DEF LookEnds
    <3>2. shell.desk \in Desks /\ guard # shell.desk /\ pc[shell.desk] \notin NotYetOpen
      <4>1. guard = NoDesk
        BY <2>1
      <4>2. shell.desk \in Desks /\ pc[shell.desk] \notin NotYetOpen
        BY <2>3
      <4> QED BY <4>1, <4>2
    <3>3. pc[shell.desk] = "dead"
      BY <3>2
    <3>4. shell'.desk = shell.desk /\ shell'.at = "stood down"
      BY <3>1
    <3> QED BY <2>1, <3>1, <3>2, <3>3, <3>4
  <2>4. CASE ~(shell.at = "start" /\ Unborn # {}) /\ shell.at # "watching"
    <3>1. UNCHANGED <<pc, shell>>
      BY <1>2, <2>4 DEF LookEnds
    <3> QED BY <2>1, <3>1
  <2> QED BY <2>2, <2>3, <2>4
<1>3. CASE LookFinds
  <2>1. UNCHANGED <<guard, shared, document, pc>>
    BY <1>3, LookFindsDoes DEF lockVars
  <2>2. ASSUME shell.at = "watching", ~Holding(document.pid)
        PROVE  pc[shell.desk] = "dead"
    BY <2>2 DEF Holding
  <2>3. CASE document.websocket /\ shell' = [at |-> "watching", desk |-> document.pid]
    BY <2>1, <2>3
  <2>4. CASE shell' = [shell EXCEPT !.at = "unreachable"]
    BY <2>1, <2>4
  <2>5. CASE /\ shell.at = "watching" /\ ~Holding(document.pid)
             /\ shell' = [shell EXCEPT !.at = "stood down"]
    BY <2>1, <2>2, <2>5
  <2>6. CASE shell' = shell
    BY <2>1, <2>6
  <2> QED BY <1>3, <2>3, <2>4, <2>5, <2>6, LookFindsDoes, Zenon
<1>4. CASE StartAgain
  BY <1>4 DEF StartAgain, lockVars
<1>5. CASE StartDesk
  BY <1>5 DEF StartDesk, Spawn, Unborn
<1> QED BY <1>1, <1>2, <1>3, <1>4, <1>5 DEF Looking

LEMMA LockStep == LockInv /\ [Next]_vars => LockInv'
<1> SUFFICES ASSUME LockInv, [Next]_vars PROVE OneHolder' /\ DocumentStands' /\ ShellFollows'
  BY TypeStep DEF LockInv
<1>1. CASE UNCHANGED vars
  BY <1>1 DEF vars, LockInv, OneHolder, DocumentStands, ShellFollows
<1>2. ASSUME NEW d \in Desks, Keeping(d)
      PROVE  OneHolder' /\ DocumentStands' /\ ShellFollows'
  <2>1. UNCHANGED <<guard, shared, document, pc, shell>>
    BY <1>2, KeepingFrame DEF LockInv, lockVars
  <2> QED BY <2>1 DEF LockInv, OneHolder, DocumentStands, ShellFollows
<1> QED BY <1>1, <1>2, LockLife, LockLooking DEF Next

\* A desk that has announced itself stays announced until it withdraws,
\* whatever other desks start, are refused, are killed or end meanwhile.
THEOREM DocumentIsTheHolders == Spec => []DocumentNamesTheDesk
<1>1. LockInv => DocumentNamesTheDesk
  BY TypeParts DEF LockInv, TypeInv, DocumentStands, DocumentNamesTheDesk
<1> QED BY <1>1, LockInit, LockStep, PTL DEF Spec

\* A shell that says the desk has stopped is right: that desk is dead, and the
\* guard is free or another's.
THEOREM StandingDownIsRight == Spec => []StandsDownRightly
<1>1. LockInv => StandsDownRightly
  BY DEF LockInv, OneHolder, ShellFollows, StandsDownRightly, Held
<1> QED BY <1>1, LockInit, LockStep, PTL DEF Spec

-----------------------------------------------------------------------------
(* The show in memory, the file, and the copy beside it                    *)

\* Between the writes of one desk: a copy under way is of the show that is
\* dirty, to the place beside its store; a commit that is not tidied up yet has
\* reached the disk; a clean show has no copy, and is in its file; and what the
\* last autosave wrote is still there, also while a save under another name is
\* under way.  The home of a show was readable once and nothing damages it.
Kept(d) ==
    LET m == mem[d]
        b == busy[d]
    IN  /\ b.step \in {"removed", "made"} => m.dirty /\ b.at = Copy[m.store]
        /\ b.step = "committed" => disk[b.at] = m.show
        /\ ~m.dirty => m.safe = Never
        /\ pc[d] \in {"open", "running"} =>
             /\ disk[m.home] # Damaged
             /\ ~m.dirty => disk[m.home] = m.show
             /\ b.step \in {"idle", "opened"} /\ m.safe # Never /\ m.store = m.home
                  => disk[Copy[m.store]] = m.safe

FileInv == LockInv /\ \A d \in Desks : Kept(d)

LEMMA KeptInit == Init => \A d \in Desks : Kept(d)
<1> SUFFICES ASSUME Init, NEW d \in Desks PROVE Kept(d)
  OBVIOUS
<1>1. mem[d] = NewMemory /\ busy[d] = Nothing /\ pc[d] = "unborn"
  BY DEF Init
<1> QED BY <1>1 DEF Kept, NewMemory, Nothing

\* A desk that is not the holder has nothing on the disk to lose.
LEMMA Bystanders ==
    ASSUME FileInv, NEW d \in Desks, pc[d] \in Held, NEW e \in Desks \ {d},
           mem'[e] = mem[e], busy'[e] = busy[e], pc'[e] = pc[e]
    PROVE  Kept(e)'
<1>1. pc[e] \notin Held
  BY DEF FileInv, LockInv, OneHolder
<1>2. busy[e].step = "idle" /\ pc[e] \notin {"open", "running"}
  <2>1. busy[e] \in Writes
    BY Typed DEF FileInv, LockInv, TypeInv
  <2> QED BY <1>1, <2>1 DEF FileInv, LockInv, TypeInv, SavesAreNamed, Held, Writes
<1>3. Kept(e)
  BY DEF FileInv
<1> QED BY <1>2, <1>3 DEF Kept

LEMMA KeptLife ==
    ASSUME FileInv, NEW d \in Desks, Life(d), NEW e \in Desks
    PROVE  Kept(e)'
<1>1. TypeInv /\ FilesTyped /\ Kept(e) /\ Kept(d)
  BY DEF FileInv, LockInv, TypeInv
<1>2. ASSUME NEW label, Go(d, label), label \notin {"open", "running"},
             UNCHANGED <<disk, mem, busy>>
      PROVE  Kept(e)'
  BY <1>1, <1>2 DEF Kept, Go, TypeInv, LocksTyped
<1>3. CASE Acquire(d)
  BY <1>2, <1>3 DEF Acquire, fileVars
<1>4. CASE Announce(d)
  BY <1>2, <1>4 DEF Announce, fileVars
<1>5. CASE OpenAtStart(d)
  <2>1. CASE pc'[d] = "leaving"
    <3>1. UNCHANGED <<disk, mem, busy>> /\ Go(d, "leaving")
      BY <1>5, <2>1, <1>1 DEF OpenAtStart, Go, TypeInv, LocksTyped
    <3> QED BY <1>2, <3>1
  <2>2. CASE pc'[d] # "leaving"
    <3>1. pc[d] = "starting" /\ UNCHANGED busy /\ Go(d, "open")
      BY <1>5, <2>2, <1>1 DEF OpenAtStart, Go, TypeInv, LocksTyped
    <3>2. PICK path \in Openable :
               /\ mem' = [mem EXCEPT ![d] = [NewMemory EXCEPT
                             !.show = disk'[path], !.store = path, !.home = path]]
               /\ mem'[d].show = disk'[path]
               /\ mem'[d].home = path /\ ~mem'[d].dirty /\ mem'[d].safe = Never
               /\ disk'[path] \in Shows
      BY <1>1, <1>5, <2>2, OpenedAtStart
    <3>3. busy[d].step = "idle"
      BY <1>1, <3>1, Typed DEF TypeInv, SavesAreNamed, Writes
    <3>4. CASE e = d
      BY <1>1, <3>1, <3>2, <3>3, <3>4, Constants DEF Kept
    <3>5. CASE e # d
      <4>1. mem'[e] = mem[e] /\ busy'[e] = busy[e] /\ pc'[e] = pc[e]
        BY <1>1, <3>1, <3>2, <3>5 DEF FilesTyped, Go, TypeInv, LocksTyped
      <4> QED BY <3>1, <3>5, <4>1, Bystanders DEF Held
    <3> QED BY <3>4, <3>5
  <2> QED BY <2>1, <2>2
<1>6. CASE Publish(d)
  <2>1. pc[d] = "open" /\ Go(d, "running") /\ UNCHANGED <<disk, mem, busy>>
    BY <1>6 DEF Publish, fileVars
  <2> QED BY <1>1, <2>1 DEF Kept, Go, TypeInv, LocksTyped
<1>7. CASE Stop(d)
  BY <1>2, <1>7 DEF Stop, fileVars
<1>8. CASE Withdraw(d)
  BY <1>2, <1>8 DEF Withdraw, fileVars
<1>9. CASE Unlock(d) \/ Crash(d)
  <2>1. /\ Go(d, "dead") /\ disk' = disk
        /\ mem' = [mem EXCEPT ![d] = NewMemory]
        /\ busy' = busy \/ busy' = [busy EXCEPT ![d] = Nothing]
        /\ Unlock(d) => pc[d] # "running" /\ busy' = busy
    BY <1>9 DEF Unlock, Crash
  <2>2. busy'[d].step = "idle"
    BY <1>1, <1>9, <2>1, Typed, Fresh DEF TypeInv, FilesTyped, SavesAreNamed, Writes, Crash
  <2>3. mem'[d] = NewMemory /\ pc'[d] = "dead"
    BY <1>1, <2>1 DEF FilesTyped, Go, TypeInv, LocksTyped
  <2>4. CASE e = d
    BY <2>2, <2>3, <2>4 DEF Kept, NewMemory
  <2>5. CASE e # d
    <3>1. mem'[e] = mem[e] /\ busy'[e] = busy[e] /\ pc'[e] = pc[e]
      BY <1>1, <2>1, <2>5 DEF FilesTyped, Go, TypeInv, LocksTyped
    <3>2. disk' = disk
      BY <2>1
    <3> QED BY <1>1, <3>1, <3>2 DEF Kept
  <2> QED BY <2>4, <2>5
<1> QED BY <1>3, <1>4, <1>5, <1>6, <1>7, <1>8, <1>9 DEF Life

LEMMA KeptKeeping ==
    ASSUME FileInv, NEW d \in Desks, Keeping(d), NEW e \in Desks
    PROVE  Kept(e)'
<1>1. TypeInv /\ FilesTyped /\ SavesAreNamed /\ Kept(d)
  BY DEF FileInv, LockInv, TypeInv
<1>2. pc[d] = "running" /\ pc'[d] = "running" /\ pc'[e] = pc[e]
  BY <1>1, KeepingFrame DEF lockVars
<1>3. CASE e # d
  BY <1>1, <1>2, <1>3, KeepingFrame, Bystanders DEF Held
<1>4. ASSUME Kept(d)' PROVE Kept(e)'
  BY <1>3, <1>4
<1>5. Poll(d) => \E n \in {Never} \cup 0 .. Interval : mem'[d] = [mem[d] EXCEPT !.since = n]
  BY <1>1, PollDoes
<1>6. \A p \in Openable, s \in Shows \cup {Damaged} :
          Adopt(d, p, s) =>
              IF s = Damaged
              THEN mem'[d] = [mem[d] EXCEPT !.store = p]
              ELSE mem'[d] = [NewMemory EXCEPT !.show = s, !.store = p, !.home = p,
                                               !.since = mem[d].since]
  BY <1>1, AdoptDoes
<1> USE <1>1, <1>2, Typed, Fresh, Constants DEF Kept, FilesTyped
<1>7. CASE Edit(d)
  <2>1. /\ mem'[d] = [mem[d] EXCEPT !.show = edits + 1, !.dirty = TRUE]
        /\ UNCHANGED <<disk, busy>> /\ busy[d].step = "idle"
    BY <1>7 DEF Edit, Free
  <2>2. mem'[d].dirty /\ mem'[d].safe = mem[d].safe /\ mem'[d].store = mem[d].store
        /\ mem'[d].home = mem[d].home
    BY <2>1 DEF Memories
  <2> QED BY <1>4, <2>1, <2>2
<1>8. CASE SaveCommit(d)
  <2>1. PICK at \in Openable :
            /\ disk' = [disk EXCEPT ![at] = mem[d].show]
            /\ busy' = [busy EXCEPT ![d] = [step |-> "committed", at |-> at]]
    BY <1>8 DEF SaveCommit, Busy, Write, SavesAreNamed
  <2>2. busy'[d].step = "committed" /\ busy'[d].at = at /\ mem' = mem /\ at \in Files
    BY <1>8, <2>1 DEF SaveCommit
  <2>3. disk'[at] = mem[d].show /\ \A p \in Files : p # at => disk'[p] = disk[p]
    BY <2>1, <2>2
  <2>4. mem[d].show # Damaged
    OBVIOUS
  <2> QED BY <1>4, <2>2, <2>3, <2>4
<1>9. CASE SaveFails(d)
  <2>1. busy'[d] = Nothing /\ UNCHANGED <<disk, mem>> /\ busy[d].step = "opened"
    BY <1>9 DEF SaveFails, Done
  <2> QED BY <1>4, <2>1
<1>10. CASE SaveDone(d)
  <2> DEFINE at == busy[d].at
  <2>1. disk[at] = mem[d].show
    BY <1>10 DEF SaveDone
  <2>2. /\ at \in Openable /\ at \in Files
        /\ mem'[d] = [mem[d] EXCEPT !.dirty = FALSE, !.store = at, !.home = at,
                                    !.safe = Never]
        /\ busy'[d] = Nothing
        /\ \A f \in Files : f # Copy[at] => disk'[f] = disk[f]
    BY <1>10, SaveDoneDoes
  <2>3. disk'[at] = disk[at]
    BY <2>2
  <2>4. mem'[d].dirty = FALSE /\ mem'[d].home = at /\ mem'[d].safe = Never
        /\ mem'[d].show = mem[d].show
    BY <2>2 DEF Memories
  <2> HIDE DEF at
  <2>5. mem[d].show # Damaged
    OBVIOUS
  <2> QED BY <1>4, <2>1, <2>2, <2>3, <2>4, <2>5
<1>11. CASE Poll(d)
  <2>1. PICK n : mem'[d] = [mem[d] EXCEPT !.since = n]
    BY <1>11, <1>5
  <2>2. mem'[d].dirty = mem[d].dirty /\ mem'[d].show = mem[d].show
        /\ mem'[d].safe = mem[d].safe
        /\ mem'[d].store = mem[d].store /\ mem'[d].home = mem[d].home
    BY <2>1 DEF Memories
  <2>3. CASE UNCHANGED <<disk, busy>>
    BY <1>4, <2>2, <2>3
  <2>4. CASE /\ mem[d].dirty
             /\ disk' = [disk EXCEPT ![Copy[mem[d].store]] = Missing]
             /\ busy' = [busy EXCEPT ![d] = [step |-> "removed",
                                             at |-> Copy[mem[d].store]]]
    <3>1. busy'[d] = [step |-> "removed", at |-> Copy[mem[d].store]]
      BY <2>4
    <3>2. \A f \in Files : disk'[f] = disk[f] \/ disk'[f] = Missing
      BY <2>4
    <3> QED BY <1>4, <2>2, <2>4, <3>1, <3>2
  <2> QED BY <1>11, <2>3, <2>4, PollDoes
<1>12. CASE CopyOpen(d)
  <2>1. busy[d].step = "removed" /\ mem' = mem
        /\ busy'[d] = [step |-> "made", at |-> busy[d].at]
        /\ \A f \in Files : disk'[f] = disk[f] \/ disk'[f] = 0
    BY <1>12 DEF CopyOpen, Write, Busy
  <2> QED BY <1>4, <2>1
<1>13. CASE CopyCommit(d)
  <2>1. /\ mem'[d] = [mem[d] EXCEPT !.safe = mem[d].show]
        /\ busy'[d] = Nothing /\ busy[d].step = "made"
        /\ disk' = [disk EXCEPT ![busy[d].at] = mem[d].show]
    BY <1>13 DEF CopyCommit, Write, Done
  <2>2. mem'[d].dirty = mem[d].dirty /\ mem'[d].show = mem[d].show
        /\ mem'[d].safe = mem[d].show
        /\ mem'[d].store = mem[d].store /\ mem'[d].home = mem[d].home
    BY <2>1 DEF Memories
  <2>3. disk'[busy[d].at] = mem[d].show
        /\ \A p \in Files : p # busy[d].at => disk'[p] = disk[p]
    BY <2>1
  <2>4. mem[d].show # Damaged /\ mem[d].dirty /\ busy[d].at = Copy[mem[d].store]
    BY <2>1
  <2> QED BY <1>4, <2>1, <2>2, <2>3, <2>4
<1>14. CASE CopyFails(d)
  <2>1. /\ mem'[d] = [mem[d] EXCEPT !.safe = Never]
        /\ busy'[d] = Nothing /\ disk' = disk
    BY <1>14 DEF CopyFails, Done
  <2>2. mem'[d].dirty = mem[d].dirty /\ mem'[d].show = mem[d].show
        /\ mem'[d].safe = Never /\ mem'[d].home = mem[d].home
    BY <2>1 DEF Memories
  <2> QED BY <1>4, <2>1, <2>2
<1>15. ASSUME NEW p \in Openable, SaveShowAs(d, p) PROVE Kept(e)'
  <2>1. /\ mem' = mem /\ busy[d].step = "idle"
        /\ busy'[d] = [step |-> "opened", at |-> p]
        /\ \A f \in Files : disk'[f] = disk[f] \/ (disk[f] = Missing /\ disk'[f] = 0)
    BY <1>15 DEF SaveShowAs, Write, Busy, Free
  <2>2. mem[d].safe # Never => mem[d].safe # Missing
    BY DEF Memories
  <2>3. mem[d].show # Missing
    OBVIOUS
  <2> QED BY <1>4, <2>1, <2>2, <2>3
<1>16. ASSUME NEW p \in Openable, OpenShow(d, p) PROVE Kept(e)'
  <2>1. disk[p] \in Shows \cup {Damaged} /\ UNCHANGED <<disk, busy>>
        /\ busy[d].step = "idle" /\ Adopt(d, p, disk[p])
    BY <1>16 DEF OpenShow, Free
  <2>2. CASE disk[p] = Damaged
    <3>1. mem'[d] = [mem[d] EXCEPT !.store = p]
      BY <2>1, <2>2, <1>6
    <3>2. mem'[d].dirty = mem[d].dirty /\ mem'[d].show = mem[d].show
          /\ mem'[d].safe = mem[d].safe /\ mem'[d].home = mem[d].home
          /\ mem'[d].store = p
      BY <3>1 DEF Memories
    <3> QED BY <1>4, <2>1, <2>2, <3>2
  <2>3. CASE disk[p] # Damaged
    <3>1. mem'[d] = [NewMemory EXCEPT !.show = disk[p], !.store = p, !.home = p,
                                      !.since = mem[d].since]
      BY <2>1, <2>3, <1>6
    <3>2. mem'[d].dirty = FALSE /\ mem'[d].show = disk[p] /\ mem'[d].safe = Never
          /\ mem'[d].home = p
      BY <3>1 DEF NewMemory
    <3> QED BY <1>4, <2>1, <2>3, <3>2
  <2> QED BY <2>2, <2>3
<1>17. ASSUME NEW p \in Openable, NewShow(d, p) PROVE Kept(e)'
  <2>1. /\ disk' = [disk EXCEPT ![p] = 0, ![Copy[p]] = Missing]
        /\ busy' = busy /\ busy[d].step = "idle" /\ Adopt(d, p, 0)
    BY <1>17 DEF NewShow, Free
  <2>2. disk'[p] = 0
    BY <2>1
  <2>3. mem'[d] = [NewMemory EXCEPT !.show = 0, !.store = p, !.home = p,
                                    !.since = mem[d].since]
    BY <2>1, <1>6
  <2>4. mem'[d].dirty = FALSE /\ mem'[d].show = 0 /\ mem'[d].safe = Never
        /\ mem'[d].home = p
    BY <2>3 DEF NewMemory
  <2> QED BY <1>4, <2>1, <2>2, <2>4
<1> QED BY <1>7, <1>8, <1>9, <1>10, <1>11, <1>12, <1>13, <1>14, <1>15, <1>16, <1>17 DEF Keeping

LEMMA FileInit == Init => FileInv
  BY LockInit, KeptInit DEF FileInv

LEMMA FileStep == FileInv /\ [Next]_vars => FileInv'
<1> SUFFICES ASSUME FileInv, [Next]_vars, NEW e \in Desks PROVE Kept(e)'
  BY LockStep DEF FileInv
<1>1. CASE UNCHANGED <<disk, mem, busy>> /\ \A d \in Desks :
               pc'[d] \in {"open", "running"} => pc'[d] = pc[d]
  BY <1>1 DEF FileInv, Kept
<1>2. CASE UNCHANGED vars
  BY <1>1, <1>2 DEF vars
<1>3. CASE Looking
  BY <1>1, <1>3 DEF Looking, LookBegins, LookEnds, LookFinds, StartAgain, StartDesk,
     Spawn, Unborn, Go, lockVars, fileVars, FileInv, LockInv, TypeInv, LocksTyped
<1> QED BY <1>2, <1>3, KeptLife, KeptKeeping DEF Next

\* The Save lamp: a show with no unsaved edits is in the file it was read from
\* or written to, through opens, refusals, autosaves, and desks that are killed
\* between any two writes or started beside the one that runs.
THEOREM LampIsTrue == Spec => []LampTellsTruth
<1>1. FileInv => LampTellsTruth
  BY DEF FileInv, Kept, LampTellsTruth, Free, Running
<1> QED BY <1>1, FileInit, FileStep, PTL DEF Spec

\* What the last autosave that succeeded wrote is beside the file for as long as
\* there are edits it is needed for.
THEOREM RescueIsKept == Spec => []RescueIsThere
<1>1. FileInv => RescueIsThere
  BY DEF FileInv, Kept, RescueIsThere, Free, Running, Nothing
<1> QED BY <1>1, FileInit, FileStep, PTL DEF Spec

==============================================================================
