------------------------------ MODULE MCHandOff ------------------------------
(***************************************************************************)
(* The three structures of shared memory between the tick and the rest of   *)
(* the daemon, on small instances: a command queue of two slots of two      *)
(* cells whose counters wrap after four; a triple buffer of two words a     *)
(* slot whose numbers wrap after five; an enrolment of two callers and two  *)
(* places, where the bound is met and a place is claimed again.             *)
(*                                                                         *)
(* They share no variable, so one of them runs and the others stay as they  *)
(* are: every behaviour of one of them is a behaviour of this module.       *)
(***************************************************************************)
EXTENDS CommandQueue, TripleBuffer, FrameEnrolment

VARIABLE part     \* which of the three runs

parts == <<vars, bufferVars, enrolmentVars, part>>

Queue(A)     == part = "queue" /\ A /\ UNCHANGED <<bufferVars, enrolmentVars, part>>
Buffer(A)    == part = "buffer" /\ A /\ UNCHANGED <<vars, enrolmentVars, part>>
Enrolment(A) == part = "enrolment" /\ A /\ UNCHANGED <<vars, bufferVars, part>>

HandOffInit ==
    /\ Init /\ BufferInit /\ EnrolmentInit
    /\ part \in {"queue", "buffer", "enrolment"}
    /\ part # "buffer" => sequence = 0

\* The ids are used up, and nobody enrols any more.
Rest == part = "enrolment" /\ nextId > MaxId /\ UNCHANGED parts

HandOffNext == Queue(Next) \/ Buffer(BufferNext) \/ Enrolment(EnrolmentNext) \/ Rest

\* The fairness of each of the three: Fairness, BufferFairness,
\* EnrolmentFairness.
HandOffFairness ==
    /\ WF_parts(Queue(Consume))
    /\ WF_parts(Buffer(Read)) /\ WF_parts(Buffer(StoreWord \/ PublishSwap))
    /\ WF_parts(Enrolment(Ticking))
    /\ \A c \in Callers :
         SF_parts(Enrolment(Subscribing(c) \/ Unsubscribing(c) \/ CollectEnd(c)))

HandOffSpec == HandOffInit /\ [][HandOffNext]_parts /\ HandOffFairness
=============================================================================
