--------------------------- MODULE FrameEnrolment ---------------------------
(***************************************************************************)
(* How a subscriber joins or leaves a publisher whose tick is running:     *)
(* crates/prism-engine/src/triple_buffer.rs, `Enrolment`, `FrameEnrolment` *)
(* and FramePublisher::take_enrolments.                                    *)
(*                                                                         *)
(* The callers (whoever reconfigures the rig) block on the `changes` and   *)
(* `retired` mutexes; the tick only tries them.  A subscriber is its id;   *)
(* its buffer is the module TripleBuffer.                                  *)
(***************************************************************************)
EXTENDS Integers, Sequences, FiniteSets, SequencesExt

CONSTANTS Callers,          \* threads that hold a FrameEnrolment handle
          Tick,             \* the tick thread
          Nobody,           \* the owner of a free mutex
          MaxSubscribers,   \* MAX_SUBSCRIBERS
          SetUp,            \* subscribers taken on before the tick started
          MaxId,            \* bound: ids ever handed out
          Wide              \* 2^64: where the counter `live` wraps

ASSUME EnrolmentAssumption ==
    /\ MaxSubscribers \in Nat \ {0} /\ MaxId \in Nat /\ Wide \in Nat
    /\ SetUp \in 0 .. MaxSubscribers /\ SetUp <= MaxId
    /\ Wide > MaxSubscribers
    /\ IsFiniteSet(Callers)
    /\ Tick \notin Callers /\ Nobody \notin Callers \cup {Tick}

VARIABLES
    live,       \* Enrolment::live
    nextId,     \* Enrolment::next_id
    pending,    \* Enrolment::pending
    changes,    \* who holds the mutex Enrolment::changes
    joining,    \* Pending::joining
    leaving,    \* Pending::leaving
    retired,    \* Enrolment::retired
    retiring,   \* who holds the mutex Enrolment::retired
    links,      \* FramePublisher::links
    freed,      \* ids whose buffer has been freed, by whichever thread
    pc,         \* caller -> what it is doing
    arg,        \* caller -> its local: the `live` it loaded, or an id
    given,      \* ids that `subscribe` has returned
    gone,       \* ids that `unsubscribe` has been called with
    tpc         \* tick: "idle", "try", "leave", "join", "unlock"

roll    == <<live, nextId, pending, changes, joining, leaving>>
graves  == <<retired, retiring, freed>>
callers == <<pc, arg, given, gone>>
enrolmentVars == <<roll, graves, links, callers, tpc>>

Ids == 1 .. MaxId

\* Enrolment::new, and FramePublisher::subscribe for each set-up subscriber.
EnrolmentInit ==
    /\ live = SetUp /\ nextId = SetUp + 1
    /\ pending = FALSE /\ changes = Nobody
    /\ joining = << >> /\ leaving = << >>
    /\ retired = << >> /\ retiring = Nobody /\ freed = {}
    /\ links = [i \in 1 .. SetUp |-> i]
    /\ pc = [c \in Callers |-> "idle"] /\ arg = [c \in Callers |-> 0]
    /\ given = 1 .. SetUp /\ gone = {}
    /\ tpc = "idle"

At(c, from, to) == pc[c] = from /\ pc' = [pc EXCEPT ![c] = to]
Keep(c, value)  == arg' = [arg EXCEPT ![c] = value]

-----------------------------------------------------------------------------
(* FrameEnrolment::subscribe                                               *)

\* Enrolment::claim loads `live` and refuses when every place is taken.
ClaimLoad(c) ==
    /\ nextId <= MaxId
    /\ live < MaxSubscribers
    /\ At(c, "idle", "claim") /\ Keep(c, live)
    /\ UNCHANGED <<roll, graves, links, given, gone, tpc>>

\* Its compare-and-exchange: the place is claimed and numbered, or somebody
\* moved `live` and the loop judges the value it found.
ClaimExchange(c) ==
    /\ pc[c] = "claim"
    /\ IF live = arg[c]
       THEN /\ At(c, "claim", "push") /\ Keep(c, nextId)
            /\ live' = live + 1 /\ nextId' = nextId + 1
       ELSE /\ At(c, "claim", IF live < MaxSubscribers THEN "claim" ELSE "idle")
            /\ Keep(c, live)
            /\ UNCHANGED <<live, nextId>>
    /\ UNCHANGED <<pending, changes, joining, leaving, graves, links, given,
                   gone, tpc>>

\* lock(); joining.push(link)
Join(c) ==
    /\ At(c, "push", "pushed")
    /\ changes = Nobody /\ changes' = c
    /\ joining' = Append(joining, arg[c])
    /\ UNCHANGED <<live, nextId, pending, leaving, graves, links, arg, given,
                   gone, tpc>>

\* The guard of the mutex is dropped.
JoinUnlock(c) ==
    /\ At(c, "pushed", "joined")
    /\ changes' = Nobody
    /\ UNCHANGED <<live, nextId, pending, joining, leaving, graves, links,
                   arg, given, gone, tpc>>

\* Mutant of JoinFlag: nobody is told.
JoinSilently(c) ==
    /\ At(c, "joined", "idle")
    /\ given' = given \cup {arg[c]} /\ Keep(c, 0)
    /\ UNCHANGED <<roll, graves, links, gone, tpc>>

JoinFlag(c) ==
    /\ At(c, "joined", "idle")
    /\ pending' = TRUE
    /\ given' = given \cup {arg[c]} /\ Keep(c, 0)
    /\ UNCHANGED <<live, nextId, changes, joining, leaving, graves, links,
                   gone, tpc>>

-----------------------------------------------------------------------------
(* FrameEnrolment::unsubscribe                                             *)

\* An id is named once, by whoever holds it.
LeaveBegin(c, id) ==
    /\ id \in given \ gone
    /\ At(c, "idle", "leave") /\ Keep(c, id)
    /\ gone' = gone \cup {id}
    /\ UNCHANGED <<roll, graves, links, given, tpc>>

Leave(c) ==
    /\ At(c, "leave", "left")
    /\ changes = Nobody /\ changes' = c
    /\ leaving' = Append(leaving, arg[c])
    /\ UNCHANGED <<live, nextId, pending, joining, graves, links, arg, given,
                   gone, tpc>>

LeaveUnlock(c) ==
    /\ At(c, "left", "drop")
    /\ changes' = Nobody
    /\ UNCHANGED <<live, nextId, pending, joining, leaving, graves, links,
                   arg, given, gone, tpc>>

\* live.fetch_sub(1), which wraps.
LeaveDrop(c) ==
    /\ At(c, "drop", "flag")
    /\ live' = (live - 1) % Wide
    /\ UNCHANGED <<nextId, pending, changes, joining, leaving, graves, links,
                   arg, given, gone, tpc>>

LeaveFlag(c) ==
    /\ At(c, "flag", "idle")
    /\ pending' = TRUE /\ Keep(c, 0)
    /\ UNCHANGED <<live, nextId, changes, joining, leaving, graves, links,
                   given, gone, tpc>>

-----------------------------------------------------------------------------
(* FrameEnrolment::collect                                                 *)

CollectBegin(c) ==
    /\ retired # << >>
    /\ At(c, "idle", "collect")
    /\ retiring = Nobody /\ retiring' = c
    /\ UNCHANGED <<roll, retired, freed, links, arg, given, gone, tpc>>

CollectEnd(c) ==
    /\ At(c, "collect", "idle")
    /\ retiring' = Nobody
    /\ freed' = freed \cup ToSet(retired) /\ retired' = << >>
    /\ UNCHANGED <<roll, links, arg, given, gone, tpc>>

-----------------------------------------------------------------------------
(* FramePublisher::take_enrolments, at the head of every publish            *)

\* The one load of an ordinary publish; false changes nothing.
TickLook ==
    /\ tpc = "idle" /\ pending
    /\ tpc' = "try"
    /\ UNCHANGED <<roll, graves, links, callers>>

\* changes.try_lock(): a failed attempt leaves it for the next publish.
TickTry ==
    /\ tpc = "try"
    /\ IF changes = Nobody
       THEN changes' = Tick /\ tpc' = "leave"
       ELSE tpc' = "idle" /\ UNCHANGED changes
    /\ UNCHANGED <<live, nextId, pending, joining, leaving, graves, links,
                   callers>>

\* Enrolment::retire: the link is left for `collect`, or freed here and now
\* when a collector holds the mutex.
Retire(id) ==
    IF retiring = Nobody
    THEN retired' = Append(retired, id) /\ UNCHANGED <<retiring, freed>>
    ELSE freed' = freed \cup {id} /\ UNCHANGED <<retired, retiring>>

\* iter().position(..): the first place at which the id is, if it is anywhere.
Position(s, id) == {i \in DOMAIN s : s[i] = id /\ \A j \in 1 .. i - 1 : s[j] # id}

\* One turn of the loop over leaving.drain(..).
TickLeave ==
    /\ tpc = "leave" /\ leaving # << >>
    /\ LET id == Head(leaving) IN
         /\ leaving' = Tail(leaving)
         /\ \/ \E i \in Position(joining, id) :
                 joining' = RemoveAt(joining, i) /\ UNCHANGED links /\ Retire(id)
            \/ /\ ~ Contains(joining, id)
               /\ \E i \in Position(links, id) :
                    links' = RemoveAt(links, i) /\ UNCHANGED joining /\ Retire(id)
            \/ /\ ~ Contains(joining, id) /\ ~ Contains(links, id)
               /\ UNCHANGED <<joining, links, graves>>
    /\ UNCHANGED <<live, nextId, pending, changes, callers, tpc>>

\* Mutant of TickJoin: the joiners are let in before the leavers are let go.
TickJoinFirst ==
    /\ tpc = "leave"
    /\ links' = links \o joining /\ joining' = << >>
    /\ pending' = (leaving # << >>) /\ tpc' = "unlock"
    /\ UNCHANGED <<live, nextId, changes, leaving, graves, callers>>

\* The loop over joining.drain(..), which nobody can watch half way, and the
\* store that clears the flag while the mutex is still held.
TickJoin ==
    /\ tpc = "leave" /\ leaving = << >>
    /\ links' = links \o joining /\ joining' = << >>
    /\ pending' = FALSE /\ tpc' = "unlock"
    /\ UNCHANGED <<live, nextId, changes, leaving, graves, callers>>

\* Mutant of TickUnlock: the flag is cleared after the mutex is let go.
TickUnlockThenClear ==
    /\ tpc = "unlock"
    /\ IF changes = Tick THEN changes' = Nobody /\ UNCHANGED <<pending, tpc>>
       ELSE pending' = FALSE /\ tpc' = "idle" /\ UNCHANGED changes
    /\ UNCHANGED <<live, nextId, joining, leaving, graves, links, callers>>

TickUnlock ==
    /\ tpc = "unlock"
    /\ changes' = Nobody /\ tpc' = "idle"
    /\ UNCHANGED <<live, nextId, pending, joining, leaving, graves, links,
                   callers>>

-----------------------------------------------------------------------------
Subscribing(c)   == ClaimExchange(c) \/ Join(c) \/ JoinUnlock(c) \/ JoinFlag(c)
Unsubscribing(c) == Leave(c) \/ LeaveUnlock(c) \/ LeaveDrop(c) \/ LeaveFlag(c)
Collecting(c)    == CollectBegin(c) \/ CollectEnd(c)

Ticking == TickLook \/ TickTry \/ TickLeave \/ TickJoin \/ TickUnlock

EnrolmentNext ==
    \/ Ticking
    \/ \E c \in Callers :
         \/ ClaimLoad(c) \/ Subscribing(c)
         \/ \E id \in Ids : LeaveBegin(c, id)
         \/ Unsubscribing(c)
         \/ Collecting(c)

\* The tick runs for ever at its own rate; a call once made is straight-line
\* code that returns when it gets its mutex.  Nobody has to make a call.
EnrolmentFairness ==
    /\ WF_enrolmentVars(Ticking)
    /\ \A c \in Callers :
         SF_enrolmentVars(Subscribing(c) \/ Unsubscribing(c) \/ CollectEnd(c))

EnrolmentSpec == EnrolmentInit /\ [][EnrolmentNext]_enrolmentVars /\ EnrolmentFairness

-----------------------------------------------------------------------------
\* The count never wraps below nothing, a mutex is free or held by one thread,
\* and what is freed had left.  (Enrolment)
EnrolmentTypeOK ==
    /\ live \in 0 .. Wide - 1 /\ nextId \in 1 .. MaxId + Cardinality(Callers) + 1
    /\ pending \in BOOLEAN
    /\ changes \in Callers \cup {Tick, Nobody}
    /\ retiring \in Callers \cup {Nobody}
    /\ \A s \in {joining, leaving, retired, links} : s \in Seq(Nat \ {0})
    /\ given \subseteq Nat /\ gone \subseteq given /\ freed \subseteq gone
    /\ pc \in [Callers -> {"idle", "claim", "push", "pushed", "joined",
                           "leave", "left", "drop", "flag", "collect"}]
    /\ arg \in [Callers -> Nat]
    /\ tpc \in {"idle", "try", "leave", "unlock"}

\* The vector the tick walks never outgrows the room reserved for it, so no
\* push into it allocates: "the vector never holds more than the
\* MAX_SUBSCRIBERS places the enrolment has handed out".
LinksFit == Len(links) <= MaxSubscribers

\* A subscriber is in exactly one place from its enrolment to its removal:
\* joining, or walked by the tick, or given up -- never twice, never nowhere.
PlacesOf(id) ==
    {<<"joining", i>> : i \in {j \in DOMAIN joining : joining[j] = id}} \cup
    {<<"links", i>> : i \in {j \in DOMAIN links : links[j] = id}} \cup
    {<<"retired", i>> : i \in {j \in DOMAIN retired : retired[j] = id}} \cup
    {<<"freed", i>> : i \in {j \in freed : j = id}}
OnePlace == \A id \in given : Cardinality(PlacesOf(id)) = 1

\* A removal is never passed over: whoever is waiting to leave can still be
\* found, because its link was queued before its id could be named.
LeaversAreThere == \A id \in ToSet(leaving) : Contains(joining \o links, id)

\* Nothing is left waiting behind a flag that reads false, except by a caller
\* that is about to raise it.
NoLostWakeUp ==
    (joining # << >> \/ leaving # << >>) /\ ~ pending
      => \E c \in Callers : pc[c] \in {"pushed", "joined", "left", "drop", "flag"}

\* FrameEnrolment::len: "How many subscribers are enrolled, the ones still
\* waiting to be taken up included."
LenIsExact ==
    (\A c \in Callers : pc[c] \in {"idle", "claim", "collect"})
      => live = Cardinality((ToSet(joining) \cup ToSet(links)) \ ToSet(leaving))

\* Every join is acted on, although the tick never waits for the mutex and may
\* find it taken.
JoinTakesEffect ==
    \A id \in Ids : (id \in given) ~> (id \in gone \/ Contains(links, id))

\* And so is every leave.
LeaveTakesEffect ==
    \A id \in Ids : (id \in gone) ~> ~ Contains(joining \o links, id)

\* The roll is exact: within the room the tick's vector has, each subscriber in
\* one place, each leaver still to be found, and counted right.
RollIsExact == EnrolmentTypeOK /\ LinksFit /\ OnePlace /\ LeaversAreThere /\ LenIsExact

\* Joins and leaves alike are acted on (FrameEnrolment::take_up by try_lock).
ChangesTakeEffect == JoinTakesEffect /\ LeaveTakesEffect
=============================================================================
