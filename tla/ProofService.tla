---------------------------- MODULE ProofService ----------------------------
(***************************************************************************)
(* What Veil::prove promises, whatever becomes of its worker: calls are    *)
(* served one at a time, in the order in which they joined the line; a     *)
(* call returns a proof only if one of its own statement was made while it *)
(* was being served; at most one worker with a living client runs; and the *)
(* worker outlives a call that was served only if the call got its proof.  *)
(***************************************************************************)
EXTENDS Sequences, SequencesExt

CONSTANTS Callers, Processes

VARIABLES
    stage,     \* of each caller's call
    line,      \* the calls that wait, in order of arrival
    workers,   \* the workers that run for this client
    answered   \* the calls whose proof is there for them to take

Init ==
    /\ stage = [c \in Callers |-> "idle"]
    /\ line = << >>
    /\ workers = {} /\ answered = {}

-----------------------------------------------------------------------------
(* Before it is served, a call may be given up at any time. *)

Ask(c) ==
    /\ stage[c] = "idle"
    /\ stage' = [stage EXCEPT ![c] = "building"]
    /\ UNCHANGED <<line, workers, answered>>

Arrive(c) ==
    /\ stage[c] = "building"
    /\ stage' = [stage EXCEPT ![c] = "queued"]
    /\ line' = Append(line, c)
    /\ UNCHANGED <<workers, answered>>

GiveUp(c) ==
    /\ stage' = [stage EXCEPT ![c] = "idle"]
    /\ \/ stage[c] = "building" /\ UNCHANGED line
       \/ stage[c] = "queued" /\ \E k \in DOMAIN line : line[k] = c /\ line' = RemoveAt(line, k)
    /\ UNCHANGED <<workers, answered>>

-----------------------------------------------------------------------------
(* The first in line is served when nobody is, by the worker there is or by
   a new one; without a worker it is turned away. *)

Turn(c) ==
    /\ line # << >> /\ Head(line) = c
    /\ \A d \in Callers : stage[d] # "served"
    /\ line' = Tail(line)

Serve(c) ==
    /\ Turn(c)
    /\ stage' = [stage EXCEPT ![c] = "served"]
    /\ \/ UNCHANGED workers
       \/ workers = {} /\ \E p \in Processes : workers' = {p}
    /\ UNCHANGED answered

TurnAway(c) ==
    /\ Turn(c)
    /\ workers = {}
    /\ stage' = [stage EXCEPT ![c] = "idle"]
    /\ UNCHANGED <<workers, answered>>

(* The worker of a call makes the call's proof, once. *)
Answer(c) ==
    /\ stage[c] = "served" /\ workers # {} /\ c \notin answered
    /\ answered' = answered \cup {c}
    /\ UNCHANGED <<stage, line, workers>>

(* The call takes its proof, and leaves the worker to the next. *)
Return(c) ==
    /\ stage[c] = "served" /\ c \in answered
    /\ stage' = [stage EXCEPT ![c] = "idle"]
    /\ answered' = answered \ {c}
    /\ UNCHANGED <<line, workers>>

(* The call ends in any other way, and its worker with it. *)
Fail(c) ==
    /\ stage[c] = "served"
    /\ stage' = [stage EXCEPT ![c] = "idle"]
    /\ workers' = {} /\ answered' = {}
    /\ UNCHANGED line

(* The worker ends: by itself, when a proof it made can still be taken, or by
   being killed. *)
WorkerEnds ==
    /\ workers' = {} /\ answered' \in {answered, {}}
    /\ UNCHANGED <<stage, line>>

ClientDies ==
    /\ stage' = [c \in Callers |-> "idle"]
    /\ line' = << >>
    /\ workers' = {} /\ answered' = {}

-----------------------------------------------------------------------------
Next ==
    \/ \E c \in Callers : \/ Ask(c) \/ Arrive(c) \/ GiveUp(c) \/ Serve(c) \/ TurnAway(c)
                          \/ Answer(c) \/ Return(c) \/ Fail(c)
    \/ WorkerEnds
    \/ ClientDies

Spec == Init /\ [][Next]_<<stage, line, workers, answered>>

=============================================================================
