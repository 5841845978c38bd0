------------------------------ MODULE DeskLife ------------------------------
(***************************************************************************)
(* The life of a desk on one machine: the lock two processes settle on     *)
(* (prismd lock.rs), the show file and its recovery copy (prism-core        *)
(* store.rs, prismd core.rs), and the shell that looks for a desk, starts   *)
(* one and watches it (prism-app main.rs, attach.rs, shell.rs).  A desk may *)
(* be killed between any two writes; the files and the discovery document   *)
(* stay as they were, the guard is let go by the operating system.          *)
(*                                                                         *)
(* A show is the number of the edit that made it, 0 the empty one.  SQLite's *)
(* transaction is one step.  Time passes by polls of the autosave.          *)
(***************************************************************************)
EXTENDS Integers

CONSTANTS
    Desks,      \* processes, in the order they are started
    Copy,       \* Copy[p]: where the recovery copy of the file p is
    Openable,   \* the files a person names in a command
    First,      \* the default show path
    Interval,   \* Autosave::INTERVAL, in polls
    MaxEdits    \* bound: edits in a behaviour

Missing == -1
Damaged == -2
Shows == 0 .. MaxEdits
Files == DOMAIN Copy \cup {Copy[p] : p \in DOMAIN Copy}
NoDesk == 0
Never == -1

ASSUME DeskAssumption ==
    /\ Desks \subseteq Nat \ {NoDesk}
    /\ Openable \subseteq DOMAIN Copy /\ First \in Openable
    /\ \A p \in DOMAIN Copy : Copy[p] # p     \* a longer stem
    /\ Interval \in Nat /\ MaxEdits \in Nat

VARIABLES
    guard,      \* the desk that holds the exclusive lock
    shared,     \* whether a look holds the shared one
    document,   \* the discovery document: who wrote it, and if it is reachable
    pc,         \* where each desk stands
    disk,       \* what each file holds
    edits,      \* how many edits there have been
    remembered, \* the show machine.json starts the next desk with
    mem,        \* what each desk has in memory
    busy,       \* the write each desk is in the middle of
    shell       \* the shell, and the desk it is attached to

vars == <<guard, shared, document, pc, disk, edits, remembered, mem, busy, shell>>
lockVars == <<guard, shared, document, pc>>
fileVars == <<disk, edits, remembered, mem, busy>>

NoDocument == [pid |-> NoDesk, websocket |-> FALSE]
Nothing == [step |-> "idle", at |-> First]
\* since: polls since the show became dirty or was last copied
\* home: the file the show was read from or last written to
\* safe: the show of the last recovery copy since a save, or Never
NewMemory == [show |-> 0, dirty |-> FALSE, store |-> First, since |-> Never,
              home |-> First, safe |-> Never]
------------------------------------------------------------------------------
(* lock.rs: acquire, publish, drop; and a process that is killed. *)

Go(d, label) == pc' = [pc EXCEPT ![d] = label]

\* try_lock: refused while anybody holds the guard, shared or not
Acquire(d) ==
    /\ pc[d] = "asking"
    /\ IF guard = NoDesk /\ ~shared
       THEN guard' = d /\ Go(d, "guarded")
       ELSE Go(d, "dead") /\ UNCHANGED guard
    /\ UNCHANGED <<shared, document, fileVars, shell>>

\* DaemonLock::write, at once after the guard is taken
Announce(d) ==
    /\ pc[d] = "guarded"
    /\ document' = [pid |-> d, websocket |-> FALSE]
    /\ Go(d, "starting")
    /\ UNCHANGED <<guard, shared, fileVars, shell>>

\* open_show at start: a file that is not there is created, one that does not
\* read ends the desk
OpenAtStart(d) ==
    LET path == IF disk[remembered] # Missing THEN remembered ELSE First IN
    /\ pc[d] = "starting"
    /\ IF disk[path] = Damaged
       THEN Go(d, "leaving") /\ UNCHANGED <<disk, remembered, mem>>
       ELSE /\ disk' = [disk EXCEPT ![path] = IF @ = Missing THEN 0 ELSE @]
            /\ mem' = [mem EXCEPT ![d] = [NewMemory EXCEPT
                           !.show = disk'[path], !.store = path, !.home = path]]
            /\ remembered' = path
            /\ Go(d, "open")
    /\ UNCHANGED <<guard, shared, document, edits, busy, shell>>

\* publish, once a listener is bound
Publish(d) ==
    /\ pc[d] = "open"
    /\ document' = [pid |-> d, websocket |-> TRUE]
    /\ Go(d, "running")
    /\ UNCHANGED <<guard, shared, fileVars, shell>>

Stop(d) ==
    /\ pc[d] = "running" /\ busy[d] = Nothing
    /\ Go(d, "leaving")
    /\ UNCHANGED <<guard, shared, document, fileVars, shell>>

\* Drop for DaemonLock: the document first, then the guard
Withdraw(d) ==
    /\ pc[d] = "leaving"
    /\ document' = NoDocument
    /\ Go(d, "withdrawn")
    /\ UNCHANGED <<guard, shared, fileVars, shell>>

\* Mutant of Unlock: the document is taken away after the guard was let go.
UnlockFirst(d) ==
    /\ pc[d] = "withdrawn"
    /\ IF guard = d
       THEN guard' = NoDesk /\ UNCHANGED <<document, pc>>
       ELSE document' = NoDocument /\ Go(d, "dead") /\ UNCHANGED guard
    /\ mem' = [mem EXCEPT ![d] = NewMemory]
    /\ UNCHANGED <<shared, disk, edits, remembered, busy, shell>>

Unlock(d) ==
    /\ pc[d] = "withdrawn"
    /\ guard' = NoDesk
    /\ Go(d, "dead")
    /\ mem' = [mem EXCEPT ![d] = NewMemory]
    /\ UNCHANGED <<shared, document, disk, edits, remembered, busy, shell>>

\* Killed, at any point: the system lets go of the guard and nothing else
Crash(d) ==
    /\ guard = d
    /\ guard' = NoDesk
    /\ Go(d, "dead")
    /\ mem' = [mem EXCEPT ![d] = NewMemory]
    /\ busy' = [busy EXCEPT ![d] = Nothing]
    /\ UNCHANGED <<shared, document, disk, edits, remembered, shell>>
------------------------------------------------------------------------------
(* store.rs and core.rs: what a running desk does with its show. *)

Running(d) == pc[d] = "running"
Free(d) == Running(d) /\ busy[d] = Nothing
Write(p, s) == disk' = [disk EXCEPT ![p] = s]
Busy(d, step, at) == busy' = [busy EXCEPT ![d] = [step |-> step, at |-> at]]
Done(d) == busy' = [busy EXCEPT ![d] = Nothing]

Edit(d) ==
    /\ Free(d) /\ edits < MaxEdits
    /\ edits' = edits + 1
    /\ mem' = [mem EXCEPT ![d].show = edits + 1, ![d].dirty = TRUE]
    /\ UNCHANGED <<lockVars, disk, remembered, busy, shell>>

\* ShowStore::save into the open file: one transaction, or nothing at all
SaveCommit(d) ==
    /\ \/ Free(d) /\ Busy(d, "committed", mem[d].store) /\ Write(mem[d].store, mem[d].show)
       \/ /\ busy[d].step = "opened"
          /\ Busy(d, "committed", busy[d].at)
          /\ Write(busy[d].at, mem[d].show)
    /\ UNCHANGED <<lockVars, edits, remembered, mem, shell>>

\* save_show_as: the new file is opened (and made) before it is written
SaveShowAs(d, p) ==
    /\ Free(d)
    /\ Busy(d, "opened", p)
    /\ Write(p, IF disk[p] = Missing THEN 0 ELSE disk[p])
    /\ UNCHANGED <<lockVars, edits, remembered, mem, shell>>

\* ... and a write that is refused leaves the new file there, and empty
SaveFails(d) ==
    /\ busy[d].step = "opened"
    /\ Done(d)
    /\ UNCHANGED <<lockVars, disk, edits, remembered, mem, shell>>

\* Mutant of SaveDone: the lamp goes out, and the tidying failed: the store is
\* the one that was open before.
SaveDoneHalf(d) ==
    LET at == busy[d].at IN
    /\ busy[d].step = "committed"
    /\ mem' = [mem EXCEPT ![d].dirty = FALSE, ![d].safe = Never]
    /\ \E left \in {Missing, disk[Copy[at]]} : Write(Copy[at], left)
    /\ remembered' = at
    /\ Done(d)
    /\ UNCHANGED <<lockVars, edits, shell>>

\* ... mark_saved, discard_recovery (whose failure is only a notice), and for
\* save_show_as the switch to the new file
SaveDone(d) ==
    LET at == busy[d].at IN
    /\ busy[d].step = "committed"
    /\ mem' = [mem EXCEPT ![d].dirty = FALSE, ![d].store = at, ![d].home = at,
                          ![d].safe = Never]
    /\ \E left \in {Missing, disk[Copy[at]]} : Write(Copy[at], left)
    /\ remembered' = at
    /\ Done(d)
    /\ UNCHANGED <<lockVars, edits, shell>>

\* Mutant of Poll: the copy goes beside the show the desk was started with.
PollFirst(d) ==
    LET m == mem[d] IN
    /\ Free(d) /\ m.dirty
    /\ mem' = [mem EXCEPT ![d].since = 0]
    /\ Write(Copy[First], Missing)
    /\ Busy(d, "removed", Copy[First])
    /\ UNCHANGED <<lockVars, edits, remembered, shell>>

\* Autosave::poll, and the first write of write_recovery when it is due
Poll(d) ==
    LET m == mem[d]
        since == IF m.since = Never THEN 0 ELSE m.since
    IN  /\ Free(d)
        /\ IF ~m.dirty
           THEN /\ m.since # Never
                /\ mem' = [mem EXCEPT ![d].since = Never]
                /\ UNCHANGED <<disk, busy>>
           ELSE IF since < Interval
           THEN /\ mem' = [mem EXCEPT ![d].since = since + 1]
                /\ UNCHANGED <<disk, busy>>
           ELSE /\ mem' = [mem EXCEPT ![d].since = 0]
                /\ Write(Copy[m.store], Missing)
                /\ Busy(d, "removed", Copy[m.store])
        /\ UNCHANGED <<lockVars, edits, remembered, shell>>

\* write_recovery opens, and so makes, an empty copy ...
CopyOpen(d) ==
    /\ busy[d].step = "removed"
    /\ Write(busy[d].at, 0)
    /\ Busy(d, "made", busy[d].at)
    /\ UNCHANGED <<lockVars, edits, remembered, mem, shell>>

\* ... and commits the show into it
CopyCommit(d) ==
    /\ busy[d].step = "made"
    /\ Write(busy[d].at, mem[d].show)
    /\ mem' = [mem EXCEPT ![d].safe = mem[d].show]
    /\ Done(d)
    /\ UNCHANGED <<lockVars, edits, remembered, shell>>

\* A copy that cannot be written: the next interval tries again
CopyFails(d) ==
    /\ busy[d].step \in {"removed", "made"}
    /\ mem' = [mem EXCEPT ![d].safe = Never]
    /\ Done(d)
    /\ UNCHANGED <<lockVars, disk, edits, remembered, shell>>

\* adopt: the store is taken up before what is in it is read
Adopt(d, p, s) ==
    IF s = Damaged
    THEN mem' = [mem EXCEPT ![d].store = p] /\ UNCHANGED remembered
    ELSE /\ mem' = [mem EXCEPT ![d] = [NewMemory EXCEPT !.show = s, !.store = p,
                                       !.home = p, !.since = mem[d].since]]
         /\ remembered' = p

OpenShow(d, p) ==
    /\ Free(d) /\ disk[p] # Missing
    /\ Adopt(d, p, disk[p])
    /\ UNCHANGED <<lockVars, disk, edits, busy, shell>>

\* new_show: refused over what is there; the empty show is saved, then adopted
NewShow(d, p) ==
    /\ Free(d) /\ disk[p] = Missing
    /\ disk' = [disk EXCEPT ![p] = 0, ![Copy[p]] = Missing]
    /\ Adopt(d, p, 0)
    /\ UNCHANGED <<lockVars, edits, busy, shell>>
------------------------------------------------------------------------------
(* lock.rs look; prism-app: spawn or attach, and the watch. *)

Unborn == {d \in Desks : pc[d] = "unborn"}
\* the next process there is to start
Spawn == \E d \in Unborn : (\A e \in Unborn : d <= e) /\ Go(d, "asking")

\* A look that finds the guard free holds the shared lock for a moment
LookBegins ==
    /\ shell.at \in {"start", "waiting", "watching"} /\ ~shared /\ guard = NoDesk
    /\ shared' = TRUE
    /\ UNCHANGED <<guard, document, pc, fileVars, shell>>

\* Presence::Nobody: spawn, wait on, or stand down
LookEnds ==
    /\ shared
    /\ shared' = FALSE
    /\ CASE shell.at = "start" /\ Unborn # {} ->
               Spawn /\ shell' = [shell EXCEPT !.at = "waiting"]
         [] shell.at = "watching" ->
               shell' = [shell EXCEPT !.at = "stood down"] /\ UNCHANGED pc
         [] OTHER -> UNCHANGED <<pc, shell>>
    /\ UNCHANGED <<guard, document, fileVars>>

\* Mutant of Holding: a document that cannot be read is another desk's.
HoldingNamed(pid) == pid = shell.desk

\* standing: nought is not evidence
Holding(pid) == pid = NoDesk \/ pid = shell.desk

\* Presence::Running, with the document that is beside the guard
LookFinds ==
    /\ shell.at \in {"start", "waiting", "watching"} /\ ~shared /\ guard # NoDesk
    /\ CASE shell.at # "watching" /\ document.websocket ->
               shell' = [at |-> "watching", desk |-> document.pid]
         [] shell.at = "start" /\ ~document.websocket ->
               shell' = [shell EXCEPT !.at = "unreachable"]
         [] shell.at = "watching" /\ ~Holding(document.pid) ->
               shell' = [shell EXCEPT !.at = "stood down"]
         [] OTHER -> UNCHANGED shell
    /\ UNCHANGED <<lockVars, fileVars>>

\* The sentence is read, or the wait is over: the program is started again
StartAgain ==
    /\ shell.at \in {"stood down", "unreachable", "waiting"} /\ ~shared
    /\ shell' = [at |-> "start", desk |-> NoDesk]
    /\ UNCHANGED <<lockVars, fileVars>>

\* A desk started without a shell
StartDesk ==
    /\ Spawn
    /\ UNCHANGED <<guard, shared, document, fileVars, shell>>
------------------------------------------------------------------------------
Init ==
    /\ guard = NoDesk /\ shared = FALSE /\ document = NoDocument
    /\ pc = [d \in Desks |-> "unborn"]
    /\ \E other \in {Missing, Damaged, 0} :
         disk = [p \in Files |-> IF p \in Openable \ {First} THEN other ELSE Missing]
    /\ edits = 0 /\ remembered = First
    /\ mem = [d \in Desks |-> NewMemory]
    /\ busy = [d \in Desks |-> Nothing]
    /\ shell = [at |-> "start", desk |-> NoDesk]

Life(d) ==
    \/ Acquire(d) \/ Announce(d) \/ OpenAtStart(d) \/ Publish(d) \/ Stop(d)
    \/ Withdraw(d) \/ Unlock(d) \/ Crash(d)
Keeping(d) ==
    \/ Edit(d) \/ SaveCommit(d) \/ SaveFails(d) \/ SaveDone(d) \/ Poll(d)
    \/ CopyOpen(d) \/ CopyCommit(d) \/ CopyFails(d)
    \/ \E p \in Openable : SaveShowAs(d, p) \/ OpenShow(d, p) \/ NewShow(d, p)
Looking == LookBegins \/ LookEnds \/ LookFinds \/ StartAgain \/ StartDesk

Next == (\E d \in Desks : Life(d) \/ Keeping(d)) \/ Looking

Spec == Init /\ [][Next]_vars
------------------------------------------------------------------------------
TypeOK ==
    /\ guard \in {NoDesk} \cup Desks /\ shared \in BOOLEAN
    /\ document \in [pid : {NoDesk} \cup Desks, websocket : BOOLEAN]
    /\ pc \in [Desks -> {"unborn", "asking", "guarded", "starting", "open",
                         "running", "leaving", "withdrawn", "dead"}]
    /\ disk \in [Files -> Shows \cup {Missing, Damaged}]
    /\ edits \in Shows /\ remembered \in Openable
    /\ mem \in [Desks -> [show : Shows, dirty : BOOLEAN, store : Openable,
                          since : {Never} \cup 0 .. Interval, home : Openable,
                          safe : {Never} \cup Shows]]
    /\ busy \in [Desks -> [step : {"idle", "opened", "committed", "removed", "made"},
                           at : Files]]
    /\ shell \in [at : {"start", "waiting", "watching", "stood down", "unreachable"},
                  desk : {NoDesk} \cup Desks]

\* The Save lamp tells the truth: a show with no unsaved edits is on the
\* platter, in the file it was read from or written to, whatever was opened,
\* refused, autosaved or killed before, and whoever else started meanwhile.
LampTellsTruth ==
    \A d \in Desks :
        Free(d) /\ ~mem[d].dirty => disk[mem[d].home] = mem[d].show

\* write_recovery: while the show has unsaved edits, what the last autosave
\* that succeeded wrote is beside the file, for whoever comes after a crash.
RescueIsThere ==
    \A d \in Desks :
        LET m == mem[d] IN
        Free(d) /\ m.dirty /\ m.safe # Never /\ m.store = m.home
            => disk[Copy[m.store]] = m.safe

\* Drop for DaemonLock: a desk that has announced itself stays announced until
\* it withdraws; no process that ends takes another's document away.
DocumentNamesTheDesk == TypeOK /\
    \A d \in Desks :
        /\ pc[d] \in {"starting", "open", "running", "leaving"} => document.pid = d
        /\ pc[d] = "running" => document.websocket

\* attach.rs standing: the shell tells a person that the desk has stopped only
\* when it has.
StandsDownRightly ==
    shell.at = "stood down" =>
        /\ guard # shell.desk
        /\ pc[shell.desk] = "dead"

\* core.rs open_show: "the running show is untouched" by an open that is
\* refused, so a save goes to the file the show came from.
SavesGoHome == \A d \in Desks : Running(d) => mem[d].store = mem[d].home
==============================================================================
