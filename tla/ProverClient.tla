---------------------------- MODULE ProverClient ----------------------------
(***************************************************************************)
(* Veil::prove: many tasks, one worker.                                    *)
(*                                                                         *)
(* A call builds its witness, waits its turn at a fair mutex, takes the    *)
(* worker out of the slot the mutex guards (or starts one), and puts it    *)
(* back only after an accepted answer.  Every other way out -- an error, a *)
(* deadline, or the caller dropping the future at any await -- drops the   *)
(* worker, and dropping it kills the process.                              *)
(*                                                                         *)
(* The steps of a call between two awaits are one action.  HostCrash ends  *)
(* the client's process without running any destructor; the calls that     *)
(* follow belong to the process started after it.                          *)
(***************************************************************************)
EXTENDS GnarkWorker, SequencesExt

CONSTANT NoWorker

VARIABLES
    pc,     \* where each caller's call is
    line,   \* the tasks waiting at the mutex, in order of arrival
    slot,   \* the Option<Worker> the mutex guards
    held    \* the worker owned by the call that holds the mutex

vars == <<procs, pc, line, slot, held>>

Worker == [process : Processes, next_request_id : Ids]

ASSUME NoWorkerAssumption == NoWorker \notin Worker

Waiting == {"building", "queued"}
Sending == {"header", "body"}
Timed   == {"starting", "receiving"} \cup Sending
Inside  == Timed \cup {"stopping"}      \* the call holds the mutex

Init ==
    /\ procs = [p \in Processes |-> Gone]
    /\ pc = [c \in Callers |-> "idle"]
    /\ line = << >>
    /\ slot = NoWorker /\ held = NoWorker

-----------------------------------------------------------------------------
(* Process::stop and Process::drop both start with start_kill; the pipes of *)
(* a dropped process are closed, and what is in them is lost.              *)

Signalled(p) == IF procs[p].status = "exited" THEN Gone ELSE Killed

Kill(p) == procs' = [procs EXCEPT ![p] = Signalled(p)]

(* The call fails: stop the worker and wait for it. *)
Stop(c) ==
    /\ Kill(held.process)
    /\ pc' = [pc EXCEPT ![c] = "stopping"]
    /\ UNCHANGED <<line, slot, held>>

-----------------------------------------------------------------------------
Call(c) ==
    /\ pc[c] = "idle"
    /\ pc' = [pc EXCEPT ![c] = "building"]
    /\ UNCHANGED <<procs, line, slot, held>>

Build(c) ==
    /\ pc[c] = "building"
    /\ pc' = [pc EXCEPT ![c] = "queued"]
    /\ line' = Append(line, c)
    /\ UNCHANGED <<procs, slot, held>>

BuildFails(c) ==
    /\ pc[c] = "building"
    /\ pc' = [pc EXCEPT ![c] = "idle"]
    /\ UNCHANGED <<procs, line, slot, held>>

(* Seeded fault: the mutex is handed to any task that waits. *)
AdmittedOutOfTurn(c) ==
    /\ \A d \in Callers : pc[d] \notin Inside
    /\ \E k \in DOMAIN line : line[k] = c /\ line' = RemoveAt(line, k)

(* The mutex is free and c is next. *)
Admitted(c) ==
    /\ line # << >> /\ Head(line) = c
    /\ \A d \in Callers : pc[d] \notin Inside
    /\ line' = Tail(line)

(* Seeded fault: the worker is used where it is, and so stays in the slot
   unless the call stops it. *)
TakeByReference(c) ==
    /\ Admitted(c)
    /\ slot # NoWorker
    /\ slot' = [slot EXCEPT !.next_request_id = Succ(@)]
    /\ held' = slot'
    /\ pc' = [pc EXCEPT ![c] = "header"]
    /\ UNCHANGED procs

(* slot.take(), and the ID of the request. *)
Take(c) ==
    /\ Admitted(c)
    /\ slot # NoWorker
    /\ slot' = NoWorker
    /\ LET id == Succ(slot.next_request_id) IN
       /\ held' = [slot EXCEPT !.next_request_id = id]
       /\ IF id = 0
          THEN /\ Kill(slot.process)
               /\ pc' = [pc EXCEPT ![c] = "stopping"]
          ELSE /\ pc' = [pc EXCEPT ![c] = "header"]
               /\ UNCHANGED procs

Free(p) ==
    /\ procs[p].status = "exited"
    /\ slot # NoWorker => slot.process # p
    /\ held # NoWorker => held.process # p

Spawn(c) ==
    /\ Admitted(c)
    /\ slot = NoWorker
    /\ \E p \in Processes :
          /\ Free(p)
          /\ procs' = [procs EXCEPT ![p] = Fresh]
          /\ held' = [process |-> p, next_request_id |-> 0]
    /\ pc' = [pc EXCEPT ![c] = "starting"]
    /\ UNCHANGED slot

SpawnFails(c) ==
    /\ Admitted(c)
    /\ slot = NoWorker
    /\ pc' = [pc EXCEPT ![c] = "idle"]
    /\ UNCHANGED <<procs, slot, held>>

-----------------------------------------------------------------------------
(* Worker::start: the Ready message. *)

ReceiveReady(c) ==
    /\ pc[c] = "starting"
    /\ \E ready \in procs[held.process].ready : ready.matches
    /\ procs' = [procs EXCEPT ![held.process].ready = {}]
    /\ held' = [held EXCEPT !.next_request_id = Succ(@)]
    /\ pc' = [pc EXCEPT ![c] = "header"]
    /\ UNCHANGED <<line, slot>>

ReceiveWrongReady(c) ==
    /\ pc[c] = "starting"
    /\ \E ready \in procs[held.process].ready : ~ready.matches
    /\ Stop(c)

-----------------------------------------------------------------------------
(* Worker::prove: the request, a header and then a body, and the answer. *)

OwnRequest(c) == [id |-> held.next_request_id, call |-> c]

Send(c) ==
    /\ pc[c] \in Sending
    /\ Running(held.process)
    /\ procs' = [procs EXCEPT ![held.process].stdin =
                    Append(@, [piece |-> pc[c], request |-> OwnRequest(c)])]
    /\ pc' = [pc EXCEPT ![c] = IF @ = "header" THEN "body" ELSE "receiving"]
    /\ UNCHANGED <<line, slot, held>>

(* A write to a process that has exited. *)
SendFails(c) ==
    /\ pc[c] \in Sending
    /\ ~Running(held.process)
    /\ Stop(c)

Valid(response) == response.id = held.next_request_id /\ response.ok

(* The answer is accepted: the worker goes back into the slot. *)
ReceiveProof(c) ==
    /\ pc[c] = "receiving"
    /\ procs[held.process].stdout # << >>
    /\ LET response == Head(procs[held.process].stdout) IN
       Valid(response) /\ response.call = c
    /\ procs' = [procs EXCEPT ![held.process].stdout = Tail(@)]
    /\ slot' = held
    /\ held' = NoWorker
    /\ pc' = [pc EXCEPT ![c] = "idle"]
    /\ UNCHANGED line

(* It is not valid: stop; or it proves another statement: drop. *)
RejectAnswer(c) ==
    /\ pc[c] = "receiving"
    /\ procs[held.process].stdout # << >>
    /\ LET response == Head(procs[held.process].stdout) IN
       IF Valid(response)
       THEN /\ response.call # c
            /\ Kill(held.process)
            /\ held' = NoWorker
            /\ pc' = [pc EXCEPT ![c] = "idle"]
            /\ UNCHANGED <<line, slot>>
       ELSE Stop(c)

(* Neither a Ready nor an answer will come: the stream has ended, between
   two frames or inside one. *)
ReceiveEnd(c) ==
    /\ pc[c] \in {"starting", "receiving"}
    /\ LET proc == procs[held.process] IN
       proc.status = "exited" /\ proc.ready = {} /\ proc.stdout = << >>
    /\ Stop(c)

(* Seeded fault: the deadline covers the handshake and the write only. *)
TimeOutWriting(c) == pc[c] \in Timed \ {"receiving"} /\ Stop(c)

(* Seeded fault: a call that runs out of time leaves the worker to the next. *)
TimeOutKeepingWorker(c) ==
    /\ pc[c] \in Timed
    /\ slot' = held
    /\ held' = NoWorker
    /\ pc' = [pc EXCEPT ![c] = "idle"]
    /\ UNCHANGED <<procs, line>>

(* The deadline, which covers the handshake and again the whole exchange. *)
TimeOut(c) == pc[c] \in Timed /\ Stop(c)

(* The killed worker has been waited for: report the error. *)
Stopped(c) ==
    /\ pc[c] = "stopping"
    /\ procs[held.process].status = "exited"
    /\ held' = NoWorker
    /\ pc' = [pc EXCEPT ![c] = "idle"]
    /\ UNCHANGED <<procs, line, slot>>

-----------------------------------------------------------------------------
(* The caller drops the future: its place in the line, or its worker. *)

CancelWaiting(c) ==
    /\ pc[c] \in Waiting
    /\ pc' = [pc EXCEPT ![c] = "idle"]
    /\ \/ pc[c] = "building" /\ UNCHANGED line
       \/ pc[c] = "queued" /\ \E k \in DOMAIN line : line[k] = c /\ line' = RemoveAt(line, k)
    /\ UNCHANGED <<procs, slot, held>>

(* Seeded fault: dropping the worker does not kill its process. *)
CancelWithoutKill(c) ==
    /\ pc[c] \in Inside
    /\ held' = NoWorker
    /\ pc' = [pc EXCEPT ![c] = "idle"]
    /\ UNCHANGED <<procs, line, slot>>

CancelInside(c) ==
    /\ pc[c] \in Inside
    /\ Kill(held.process)
    /\ held' = NoWorker
    /\ pc' = [pc EXCEPT ![c] = "idle"]
    /\ UNCHANGED <<line, slot>>

(* The last owner drops the Veil, and with it the worker in the slot. *)
Close ==
    /\ \A c \in Callers : pc[c] = "idle"
    /\ slot # NoWorker
    /\ Kill(slot.process)
    /\ slot' = NoWorker
    /\ UNCHANGED <<pc, line, held>>

(* A process whose parent dies: its pipes are closed, and what it had written
   is lost.  The parent may have stopped in the middle of a frame. *)
Orphan(proc, torn) ==
    IF proc.eof THEN proc
    ELSE [proc EXCEPT !.eof = TRUE, !.torn = torn, !.ready = {}, !.stdout = << >>]

(* The client dies, perhaps in the middle of a write, and nothing is dropped. *)
HostCrash ==
    /\ \E torn \in BOOLEAN :
          /\ torn => \E c \in Callers : pc[c] \in Sending
          /\ procs' = [p \in Processes |->
                          IF Running(p) THEN Orphan(procs[p], torn) ELSE Signalled(p)]
    /\ pc' = [c \in Callers |-> "idle"]
    /\ line' = << >>
    /\ slot' = NoWorker /\ held' = NoWorker

-----------------------------------------------------------------------------
Enter(c)   == Take(c) \/ Spawn(c) \/ SpawnFails(c)
Converse(c) == \/ ReceiveReady(c) \/ ReceiveWrongReady(c) \/ Send(c) \/ SendFails(c)
               \/ ReceiveProof(c) \/ RejectAnswer(c) \/ ReceiveEnd(c)
Cancel(c)  == CancelWaiting(c) \/ CancelInside(c)

ClientStep(c) ==
    \/ Call(c) \/ Build(c) \/ BuildFails(c) \/ Enter(c) \/ Converse(c)
    \/ TimeOut(c) \/ Stopped(c) \/ Cancel(c)

WorkerAlone(p) == WorkerStep(p) /\ UNCHANGED <<pc, line, slot, held>>

Next ==
    \/ \E c \in Callers : ClientStep(c)
    \/ \E p \in Processes : WorkerAlone(p)
    \/ Close
    \/ HostCrash

Spec == Init /\ [][Next]_vars

(***************************************************************************)
(* What is sure to happen: a blocking task ends, a fair mutex is handed    *)
(* over, a timer fires, a signal is delivered, loading files ends, and a   *)
(* goroutine that can move is scheduled.  Nothing makes a proof end, or a  *)
(* message arrive before the timer.                                        *)
(***************************************************************************)
Fairness ==
    /\ \A c \in Callers :
          /\ WF_vars(Build(c) \/ BuildFails(c))
          /\ WF_vars(Enter(c))
          /\ WF_vars(TimeOut(c))
          /\ WF_vars(Stopped(c))
    /\ \A p \in Processes :
          /\ WF_vars(Die(p) /\ UNCHANGED <<pc, line, slot, held>>)
          /\ WF_vars(Opening(p) /\ UNCHANGED <<pc, line, slot, held>>)
          /\ WF_vars(Reader(p) /\ UNCHANGED <<pc, line, slot, held>>)
          /\ WF_vars(Select(p) /\ UNCHANGED <<pc, line, slot, held>>)

FairSpec == Spec /\ Fairness

-----------------------------------------------------------------------------
TypeOK ==
    /\ procs \in [Processes -> Process]
    /\ pc \in [Callers -> Inside \cup Waiting \cup {"idle"}]
    /\ line \in Seq(Callers)
    /\ slot \in Worker \cup {NoWorker}
    /\ held \in Worker \cup {NoWorker}

(* A worker that waits in the slot owes nobody an answer and is owed no     *)
(* request: nothing in its pipes or its goroutines, and it expects the very *)
(* ID the next call will draw -- however the calls before it ended.         *)
SlotInSync ==
    slot # NoWorker =>
        LET proc == procs[slot.process] IN
        /\ proc.stdin = << >> /\ proc.stdout = << >> /\ proc.ready = {}
        /\ proc.status # "killed"
        /\ proc.status = "running" =>
              /\ proc.main = "select" /\ proc.reader = "header"
              /\ proc.next = Succ(slot.next_request_id)

(* The doubled check of ID and public witness never has anything to catch:  *)
(* at most one answer is on its way, to the call that holds the worker, and *)
(* it answers the request that call has sent.                               *)
AnswersAreOwed ==
    \A p \in Processes : procs[p].stdout # << >> =>
        /\ Len(procs[p].stdout) = 1
        /\ held # NoWorker /\ held.process = p
        /\ procs[p].stdout[1].id = held.next_request_id
        /\ \E c \in Callers : pc[c] = "receiving" /\ procs[p].stdout[1].call = c

(* Every process that has neither been signalled nor lost its parent is the *)
(* one in the slot or the one a call holds, however calls were dropped: no  *)
(* process is forgotten.                                                    *)
NoStrayWorkers ==
    \A p \in Processes : Running(p) /\ ~procs[p].eof =>
        \/ slot # NoWorker /\ slot.process = p
        \/ held # NoWorker /\ held.process = p

(* The worker gives up on the last ID before the client's counter wraps, so *)
(* no worker put back into the slot makes the next call draw ID 0.          *)
IdsNeverWrap == slot # NoWorker => Succ(slot.next_request_id) # 0

(* The worker that runs for this client, the calls whose own, valid answer  *)
(* is in the pipe, and how far each call is.                                *)
LiveWorkers == {p \in Processes : Running(p) /\ ~procs[p].eof}

Answered ==
    {c \in Callers :
        /\ pc[c] = "receiving"
        /\ procs[held.process].stdout # << >>
        /\ LET response == Head(procs[held.process].stdout) IN
           Valid(response) /\ response.call = c}

Stage == [c \in Callers |-> IF pc[c] \in Inside THEN "served" ELSE pc[c]]

Service == INSTANCE ProofService WITH
    stage    <- Stage,
    workers  <- LiveWorkers,
    answered <- Answered

(* With its pipes, counters, deadlines and kills, Veil::prove is a service  *)
(* in order of arrival by at most one worker, which is kept after a call    *)
(* exactly when the call got its own proof -- however calls are dropped at  *)
(* their awaits and whatever happens to the worker or the client.           *)
ImplementsService == Service!Spec

(* A call returns, whatever the worker does or fails to do.                 *)
EveryCallReturns == \A c \in Callers : pc[c] # "idle" ~> pc[c] = "idle"

(* A worker whose parent died exits, even if its proof never ends.          *)
OrphansExit == \A p \in Processes : procs[p].eof ~> ~procs[p].eof

(* "Process exit ... invalidates that worker.  Invalid workers are ... never *)
(* reused.  A later proof starts a fresh worker": no call takes a worker    *)
(* whose process has exited.                                                *)
ExitedWorkersNotReused ==
    [][\A c \in Callers : pc[c] = "queued" /\ pc'[c] = "header" => Running(held'.process)]_vars

=============================================================================
