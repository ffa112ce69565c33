---------------------------- MODULE ProverProofs ----------------------------
(***************************************************************************)
(* Safety of Veil::prove for any number of callers and processes.  The     *)
(* invariant lists what the worker of a call can look like at each of the  *)
(* call's awaits: as the worker is then either put back in step or killed, *)
(* what a dropped call leaves behind never reaches the next one.           *)
(* From it also follows that Veil::prove implements ProofService.          *)
(***************************************************************************)
EXTENDS ProverClient, SequenceTheorems, TLAPS

Header(q)       == [piece |-> "header", request |-> q]
Body(q)         == [piece |-> "body", request |-> q]
AnswerTo(q, ok) == [id |-> q.id, call |-> q.call, ok |-> ok]

(* A worker with a living parent, where its two goroutines are and the ID it
   expects; one that exited; and what both have in their pipes. *)
At(proc, main, reader, n) ==
    proc.status = "running" /\ ~proc.eof /\ proc.main = main /\ proc.reader = reader /\ proc.next = n

Exited(proc) == proc.status = "exited"

Pipes(proc, stdin, stdout) == proc.stdin = stdin /\ proc.stdout = stdout

(* While the call waits for Ready. *)
StartingState(proc) ==
    /\ Pipes(proc, << >>, << >>)
    /\ \/ Exited(proc)
       \/ At(proc, "opening", "header", 1) /\ proc.ready = {}
       \/ At(proc, "select", "header", 1)

(* Nothing is on its way. *)
QuietState(proc, n) ==
    /\ proc.ready = {} /\ Pipes(proc, << >>, << >>)
    /\ Exited(proc) \/ At(proc, "select", "header", n)

(* Between the header of the request q and its body. *)
BodyState(proc, q) ==
    /\ proc.ready = {}
    /\ \/ Exited(proc) /\ Pipes(proc, << >>, << >>)
       \/ At(proc, "select", "header", q.id) /\ Pipes(proc, <<Header(q)>>, << >>)
       \/ At(proc, "select", "body", q.id) /\ Pipes(proc, << >>, << >>)

(* While the call waits for its answer: the worker has yet to take q ... *)
AskedState(proc, q) ==
    \/ Exited(proc) /\ Pipes(proc, << >>, << >>)
    \/ At(proc, "select", "header", q.id) /\ Pipes(proc, <<Header(q), Body(q)>>, << >>)
    \/ At(proc, "select", "body", q.id) /\ Pipes(proc, <<Body(q)>>, << >>)
    \/ At(proc, "select", "offer", q.id) /\ Pipes(proc, << >>, << >>) /\ proc.read = {q}

(* ... or has taken it, which it does not with the last ID. *)
TakenState(proc, q) ==
    /\ Succ(q.id) # 0
    /\ \/ At(proc, "proving", "header", Succ(q.id)) /\ Pipes(proc, << >>, << >>) /\ proc.job = {q}
       \/ /\ Exited(proc) \/ At(proc, "select", "header", Succ(q.id))
          /\ \E ok \in BOOLEAN : Pipes(proc, << >>, <<AnswerTo(q, ok)>>)

ReceivingState(proc, q) == proc.ready = {} /\ (AskedState(proc, q) \/ TakenState(proc, q))

(* A process nobody owns any more: killed, gone, or outliving its parent. *)
Released(proc) ==
    /\ proc.status = "running" => proc.eof
    /\ proc.ready = {} /\ proc.stdout = << >>

StoppedState(proc) == proc.status # "running" /\ Released(proc)

Owned(p) ==
    \/ slot # NoWorker /\ slot.process = p
    \/ held # NoWorker /\ held.process = p

(* The worker held by the call c, which alone is inside. *)
OwnerInStep(c) ==
    LET proc == procs[held.process] IN
    /\ held \in Worker /\ slot = NoWorker
    /\ \A d \in Callers : pc[d] \in Inside => d = c
    /\ pc[c] = "starting" => held.next_request_id = 0 /\ StartingState(proc)
    /\ pc[c] = "header" => QuietState(proc, held.next_request_id)
    /\ pc[c] = "body" => BodyState(proc, OwnRequest(c))
    /\ pc[c] = "receiving" => ReceivingState(proc, OwnRequest(c))
    /\ pc[c] = "stopping" => StoppedState(proc)

SlotReady ==
    slot # NoWorker =>
        /\ Succ(slot.next_request_id) # 0
        /\ QuietState(procs[slot.process], Succ(slot.next_request_id))

InStep ==
    /\ \A c \in Callers : pc[c] \in Inside => OwnerInStep(c)
    /\ (\A c \in Callers : pc[c] \notin Inside) => held = NoWorker
    /\ SlotReady
    /\ \A p \in Processes : Owned(p) \/ Released(procs[p])

Inv == TypeOK /\ InStep

-----------------------------------------------------------------------------
(* The worker's own steps. *)

(* The records that processes start from, and end as, have their type. *)
LEMMA EmptyProcesses == Fresh \in Process /\ Gone \in Process /\ Killed \in Process
<1>1. 1 \in Ids
  BY IdAssumption DEF Ids
<1>2. Fresh \in Process
  BY <1>1 DEF Fresh, Process
<1> QED BY <1>2 DEF Gone, Killed, Process

(* A step of a worker changes that worker only. *)
LEMMA WorkerType ==
    ASSUME procs \in [Processes -> Process], NEW p \in Processes, WorkerStep(p)
    PROVE  /\ procs' \in [Processes -> Process]
           /\ \A o \in Processes \ {p} : procs'[o] = procs[o]
<1> DEFINE Goal == /\ procs' \in [Processes -> Process]
                   /\ \A o \in Processes \ {p} : procs'[o] = procs[o]
<1>1. procs[p] \in Process
  OBVIOUS
<1>2. CASE Open(p)
  <2>1. PICK matches \in BOOLEAN :
          procs' = [procs EXCEPT ![p].main = "select",
                                 ![p].ready = IF procs[p].eof THEN {} ELSE {[matches |-> matches]}]
    BY <1>2 DEF Open
  <2>2. (IF procs[p].eof THEN {} ELSE {[matches |-> matches]}) \in SUBSET Ready
    BY DEF Ready
  <2> QED BY <1>1, <2>1, <2>2 DEF Process
<1>3. ASSUME Exit(p)
      PROVE  Goal
  <2>1. [Gone EXCEPT !.ready = procs[p].ready, !.stdout = procs[p].stdout] \in Process
    BY <1>1, EmptyProcesses DEF Process
  <2> QED BY <1>3, <2>1 DEF Exit
<1>4. CASE ReadPiece(p)
  <2>1. /\ Head(procs[p].stdin) \in Piece
        /\ Tail(procs[p].stdin) \in Seq(Piece)
    BY <1>1, <1>4, HeadTailProperties DEF ReadPiece, Process
  <2> QED BY <2>1, <1>1, <1>4 DEF ReadPiece, Process, Piece
<1>5. CASE ReadTorn(p)
  BY <1>1, <1>5 DEF ReadTorn, Process
<1>6. CASE TakeRequest(p)
  <2>1. PICK request \in procs[p].read :
          procs' = [procs EXCEPT ![p].main = "proving", ![p].job = {request},
                                 ![p].reader = "header", ![p].read = {},
                                 ![p].next = Succ(@)]
    BY <1>6 DEF TakeRequest
  <2>2. Succ(procs[p].next) \in Ids
    BY <1>1, IdAssumption DEF Process, Succ, Ids
  <2>3. {request} \in SUBSET Request
    BY <1>1, <2>1 DEF Process
  <2> QED BY <1>1, <2>1, <2>2, <2>3 DEF Process
<1>7. CASE Answer(p)
  <2>1. PICK request \in procs[p].job, ok \in BOOLEAN :
          procs' = [procs EXCEPT
                      ![p].main = "select", ![p].job = {},
                      ![p].stdout = Append(@, [id |-> request.id, call |-> request.call, ok |-> ok])]
    BY <1>7 DEF Answer
  <2>2. [id |-> request.id, call |-> request.call, ok |-> ok] \in Response
    BY <1>1, <2>1 DEF Process, Request, Response
  <2>3. Append(procs[p].stdout, [id |-> request.id, call |-> request.call, ok |-> ok]) \in Seq(Response)
    BY <1>1, <2>2, AppendProperties DEF Process
  <2> QED BY <1>1, <2>1, <2>3 DEF Process
<1>8. CASE Die(p)
  BY <1>8, EmptyProcesses DEF Die
<1> QED
  BY <1>2, <1>3, <1>4, <1>5, <1>6, <1>7, <1>8
  DEF WorkerStep, Opening, Reader, Select, Reply, OpenFails, ReadEof, RefuseRequest,
      TakeFailure, AnswerNobody, Crash

-----------------------------------------------------------------------------
(* What the worker of a call does by itself at each await of the call. *)

(* What a process that exits leaves behind. *)
LEMMA ExitLeaves ==
    ASSUME procs \in [Processes -> Process], NEW p \in Processes, Exit(p)
    PROVE  /\ Exited(procs'[p]) /\ procs'[p].ready = procs[p].ready
           /\ Pipes(procs'[p], << >>, procs[p].stdout)
BY DEF Exit, Exited, Pipes, Gone, Fresh

(* Without a message to read or a proof to make, a worker can only crash. *)
LEMMA StalledStep ==
    ASSUME procs \in [Processes -> Process], NEW p \in Processes, WorkerStep(p),
           procs[p].status = "running", procs[p].main = "select", ~procs[p].eof,
           procs[p].reader \in {"header", "body"}, procs[p].stdin = << >>
    PROVE  Exit(p)
BY DEF WorkerStep, Opening, Reader, Select, Reply, Open, OpenFails, ReadPiece, ReadEof, ReadTorn,
    AtEnd, TakeRequest, RefuseRequest, Offered, TakeFailure, Answer, AnswerNobody, Crash, Die,
    Serving

(* One that has exited does nothing, one that was killed dies. *)
LEMMA DeadStep ==
    ASSUME procs \in [Processes -> Process], NEW p \in Processes, WorkerStep(p),
           procs[p].status # "running"
    PROVE  procs[p].status = "killed" /\ procs'[p] = Gone
BY DEF WorkerStep, Opening, Reader, Select, Reply, Open, OpenFails, ReadPiece, ReadEof, ReadTorn,
    AtEnd, TakeRequest, RefuseRequest, Offered, TakeFailure, Answer, AnswerNobody, Crash, Die,
    Serving, Running

(* It loads its files and says Ready, unless it exits. *)
LEMMA StartingStep ==
    ASSUME procs \in [Processes -> Process], NEW p \in Processes, WorkerStep(p),
           StartingState(procs[p])
    PROVE  StartingState(procs'[p])
<1>1. CASE At(procs[p], "opening", "header", 1) /\ procs[p].ready = {}
  <2>1. Exit(p) \/ Open(p)
    BY <1>1 DEF WorkerStep, Opening, Reader, Select, Reply, OpenFails, ReadPiece, ReadEof,
       ReadTorn, AtEnd, TakeRequest, RefuseRequest, Offered, TakeFailure, Answer, AnswerNobody,
       Crash, Die, Serving, At
  <2>2. CASE Exit(p)
    BY <2>2, ExitLeaves DEF StartingState, Pipes
  <2>3. CASE Open(p)
    <3>1. PICK ready : procs' = [procs EXCEPT ![p].main = "select", ![p].ready = ready]
      BY <2>3 DEF Open
    <3> QED BY <3>1, <1>1 DEF StartingState, At, Pipes, Process
  <2> QED BY <2>1, <2>2, <2>3
<1>2. CASE At(procs[p], "select", "header", 1)
  <2>1. Exit(p)
    BY <1>2, StalledStep DEF At, StartingState, Pipes
  <2> QED BY <2>1, ExitLeaves DEF StartingState, Pipes
<1>3. CASE Exited(procs[p])
  BY <1>3, DeadStep DEF Exited
<1> QED BY <1>1, <1>2, <1>3 DEF StartingState

(* Before a request, and in the slot: nothing. *)
LEMMA QuietStep ==
    ASSUME procs \in [Processes -> Process], NEW p \in Processes, WorkerStep(p),
           NEW n \in Ids, QuietState(procs[p], n)
    PROVE  QuietState(procs'[p], n)
<1>1. CASE At(procs[p], "select", "header", n)
  <2>1. Exit(p)
    BY <1>1, StalledStep DEF At, QuietState, Pipes
  <2> QED BY <2>1, ExitLeaves DEF QuietState, Pipes
<1>2. CASE Exited(procs[p])
  BY <1>2, DeadStep DEF Exited
<1> QED BY <1>1, <1>2 DEF QuietState

(* With half a request: it reads the header. *)
LEMMA BodyStep ==
    ASSUME procs \in [Processes -> Process], NEW p \in Processes, WorkerStep(p),
           NEW q \in Request, BodyState(procs[p], q)
    PROVE  BodyState(procs'[p], q)
<1>1. CASE At(procs[p], "select", "header", q.id) /\ Pipes(procs[p], <<Header(q)>>, << >>)
  <2>1. Exit(p) \/ ReadPiece(p)
    BY <1>1 DEF WorkerStep, Opening, Reader, Select, Reply, Open, OpenFails, ReadEof,
       ReadTorn, AtEnd, TakeRequest, RefuseRequest, Offered, TakeFailure, Answer, AnswerNobody,
       Crash, Die, Serving, At, Pipes
  <2>2. CASE Exit(p)
    BY <1>1, <2>2, ExitLeaves DEF BodyState, Pipes
  <2>3. CASE ReadPiece(p)
    <3>1. Tail(<<Header(q)>>) = << >>
      OBVIOUS
    <3> QED BY <3>1, <1>1, <2>3 DEF ReadPiece, BodyState, At, Pipes, Process
  <2> QED BY <2>1, <2>2, <2>3
<1>2. CASE At(procs[p], "select", "body", q.id) /\ Pipes(procs[p], << >>, << >>)
  <2>1. Exit(p)
    BY <1>2, StalledStep DEF At, Pipes
  <2> QED BY <1>2, <2>1, ExitLeaves DEF BodyState, Pipes
<1>3. CASE Exited(procs[p])
  BY <1>3, DeadStep DEF Exited
<1> QED BY <1>1, <1>2, <1>3 DEF BodyState

(* With a whole request: it reads it, takes or refuses it, proves and answers. *)
LEMMA ReceivingStep ==
    ASSUME procs \in [Processes -> Process], NEW p \in Processes, WorkerStep(p),
           NEW q \in Request, ReceivingState(procs[p], q)
    PROVE  ReceivingState(procs'[p], q)
<1> USE DEF ReceivingState
<1>1. CASE At(procs[p], "select", "header", q.id) /\ Pipes(procs[p], <<Header(q), Body(q)>>, << >>)
  <2>1. Exit(p) \/ ReadPiece(p)
    BY <1>1 DEF WorkerStep, Opening, Reader, Select, Reply, Open, OpenFails, ReadEof,
       ReadTorn, AtEnd, TakeRequest, RefuseRequest, Offered, TakeFailure, Answer, AnswerNobody,
       Crash, Die, Serving, At, Pipes
  <2>2. CASE Exit(p)
    BY <1>1, <2>2, ExitLeaves DEF AskedState, Pipes
  <2>3. CASE ReadPiece(p)
    <3>1. Tail(<<Header(q), Body(q)>>) = <<Body(q)>>
      OBVIOUS
    <3> QED BY <3>1, <1>1, <2>3 DEF ReadPiece, AskedState, At, Pipes, Process
  <2> QED BY <2>1, <2>2, <2>3
<1>2. CASE At(procs[p], "select", "body", q.id) /\ Pipes(procs[p], <<Body(q)>>, << >>)
  <2>1. Exit(p) \/ ReadPiece(p)
    BY <1>2 DEF WorkerStep, Opening, Reader, Select, Reply, Open, OpenFails, ReadEof,
       ReadTorn, AtEnd, TakeRequest, RefuseRequest, Offered, TakeFailure, Answer, AnswerNobody,
       Crash, Die, Serving, At, Pipes
  <2>2. CASE Exit(p)
    BY <1>2, <2>2, ExitLeaves DEF AskedState, Pipes
  <2>3. CASE ReadPiece(p)
    <3>1. Tail(<<Body(q)>>) = << >> /\ Head(<<Body(q)>>).request = q
      BY DEF Body
    <3> QED BY <3>1, <1>2, <2>3 DEF ReadPiece, AskedState, At, Pipes, Process
  <2> QED BY <2>1, <2>2, <2>3
<1>3. CASE At(procs[p], "select", "offer", q.id) /\ Pipes(procs[p], << >>, << >>) /\ procs[p].read = {q}
  <2>1. Exit(p) \/ TakeRequest(p)
    BY <1>3 DEF WorkerStep, Opening, Reader, Select, Reply, Open, OpenFails, ReadPiece, ReadEof,
       ReadTorn, AtEnd, RefuseRequest, TakeFailure, Answer, AnswerNobody,
       Crash, Die, Serving, At, Pipes
  <2>2. CASE Exit(p)
    BY <1>3, <2>2, ExitLeaves DEF AskedState, Pipes
  <2>3. CASE TakeRequest(p)
    <3>1. /\ Succ(q.id) # 0
          /\ procs' = [procs EXCEPT ![p].main = "proving", ![p].job = {q},
                                    ![p].reader = "header", ![p].read = {},
                                    ![p].next = Succ(@)]
      BY <1>3, <2>3 DEF TakeRequest, Refuses, At
    <3> QED BY <3>1, <1>3 DEF TakenState, At, Pipes, Process
  <2> QED BY <2>1, <2>2, <2>3
<1>4. ASSUME Succ(q.id) # 0, At(procs[p], "proving", "header", Succ(q.id)),
             Pipes(procs[p], << >>, << >>), procs[p].job = {q}
      PROVE  ReceivingState(procs'[p], q)
  <2>1. Exit(p) \/ Answer(p)
    BY <1>4 DEF WorkerStep, Opening, Reader, Select, Reply, Open, OpenFails, ReadPiece, ReadEof,
       ReadTorn, AtEnd, TakeRequest, RefuseRequest, Offered, TakeFailure, AnswerNobody,
       Crash, Die, Serving, At, Pipes
  <2>2. CASE Exit(p)
    BY <1>4, <2>2, ExitLeaves DEF AskedState, Pipes
  <2>3. CASE Answer(p)
    <3>1. PICK ok \in BOOLEAN :
            procs' = [procs EXCEPT ![p].main = "select", ![p].job = {},
                                   ![p].stdout = Append(@, AnswerTo(q, ok))]
      BY <1>4, <2>3 DEF Answer, AnswerTo
    <3>2. Append(<< >>, AnswerTo(q, ok)) = <<AnswerTo(q, ok)>>
      OBVIOUS
    <3> QED BY <3>1, <3>2, <1>4 DEF TakenState, At, Pipes, Process
  <2> QED BY <2>1, <2>2, <2>3
<1>5. ASSUME Succ(q.id) # 0, At(procs[p], "select", "header", Succ(q.id)),
             NEW ok \in BOOLEAN, Pipes(procs[p], << >>, <<AnswerTo(q, ok)>>)
      PROVE  ReceivingState(procs'[p], q)
  <2>1. Exit(p)
    BY <1>5, StalledStep DEF At, Pipes
  <2> QED BY <1>5, <2>1, ExitLeaves DEF TakenState, Pipes
<1>6. CASE Exited(procs[p])
  BY <1>6, DeadStep DEF Exited
<1> QED BY <1>1, <1>2, <1>3, <1>4, <1>5, <1>6 DEF AskedState, TakenState

(* A process nobody owns writes nothing more, and is not revived. *)
LEMMA ReleasedStep ==
    ASSUME procs \in [Processes -> Process], NEW p \in Processes, WorkerStep(p),
           Released(procs[p])
    PROVE  /\ Released(procs'[p])
           /\ procs[p].status # "running" => procs'[p].status # "running"
<1>1. CASE procs[p].status # "running"
  <2>1. procs'[p] = Gone
    BY <1>1, DeadStep
  <2> QED BY <2>1 DEF Released, Gone, Fresh
<1>2. CASE procs[p].status = "running"
  <2>1. procs[p].eof /\ procs[p].ready = {} /\ procs[p].stdout = << >>
    BY <1>2 DEF Released
  <2>2. CASE Exit(p)
    BY <2>1, <2>2, <1>2, ExitLeaves DEF Released, Exited, Pipes
  <2>3. CASE Open(p)
    BY <2>1, <2>3, <1>2 DEF Open, Released, Process
  <2>4. CASE ReadPiece(p)
    BY <2>1, <2>4, <1>2 DEF ReadPiece, Released, Process
  <2>5. CASE ReadTorn(p)
    BY <2>1, <2>5, <1>2 DEF ReadTorn, Released, Process
  <2>6. CASE TakeRequest(p)
    BY <2>1, <2>6, <1>2 DEF TakeRequest, Released, Process
  <2>7. ~Answer(p) /\ ~Die(p)
    BY <2>1, <1>2 DEF Answer, Die
  <2> QED
    BY <2>2, <2>3, <2>4, <2>5, <2>6, <2>7
    DEF WorkerStep, Opening, Reader, Select, Reply, OpenFails, ReadEof, RefuseRequest,
        TakeFailure, AnswerNobody, Crash
<1> QED BY <1>1, <1>2

(* A worker's step leaves the call that holds it, the slot and the others in step. *)
LEMMA WorkerInStep ==
    ASSUME Inv, NEW p \in Processes, WorkerAlone(p)
    PROVE  Inv'
<1>1. /\ procs \in [Processes -> Process] /\ WorkerStep(p)
      /\ pc' = pc /\ line' = line /\ slot' = slot /\ held' = held
  BY DEF Inv, TypeOK, WorkerAlone
<1>2. /\ procs' \in [Processes -> Process]
      /\ \A o \in Processes \ {p} : procs'[o] = procs[o]
  BY <1>1, WorkerType
<1>3. TypeOK'
  BY <1>1, <1>2 DEF Inv, TypeOK
<1>4. ASSUME NEW c \in Callers, pc[c] \in Inside
      PROVE  OwnerInStep(c)'
  <2>1. OwnerInStep(c)
    BY <1>4 DEF Inv, InStep
  <2>2. held \in Worker /\ held.process \in Processes /\ OwnRequest(c) \in Request
        /\ held.next_request_id \in Ids
    BY <2>1 DEF OwnerInStep, Worker, OwnRequest, Request
  <2>3. CASE held.process # p
    <3>1. procs'[held.process] = procs[held.process]
      BY <2>2, <2>3, <1>2
    <3> QED BY <3>1, <2>1, <1>1 DEF OwnerInStep, OwnRequest
  <2>4. CASE held.process = p
    <3>1. StartingState(procs[p]) => StartingState(procs'[p])
      BY <1>1, StartingStep
    <3>2. QuietState(procs[p], held.next_request_id) => QuietState(procs'[p], held.next_request_id)
      BY <1>1, <2>2, QuietStep
    <3>3. BodyState(procs[p], OwnRequest(c)) => BodyState(procs'[p], OwnRequest(c))
      BY <1>1, <2>2, BodyStep
    <3>4. ReceivingState(procs[p], OwnRequest(c)) => ReceivingState(procs'[p], OwnRequest(c))
      BY <1>1, <2>2, ReceivingStep
    <3>5. StoppedState(procs[p]) => StoppedState(procs'[p])
      BY <1>1, ReleasedStep DEF StoppedState
    <3>6. OwnRequest(c)' = OwnRequest(c)
      BY <1>1 DEF OwnRequest
    <3> QED BY <3>1, <3>2, <3>3, <3>4, <3>5, <3>6, <2>1, <2>4, <1>1 DEF OwnerInStep
  <2> QED BY <2>3, <2>4
<1>5. SlotReady'
  <2>1. CASE slot = NoWorker
    BY <2>1, <1>1 DEF SlotReady
  <2>2. CASE slot # NoWorker
    <3>1. /\ slot \in Worker /\ slot.process \in Processes
          /\ Succ(slot.next_request_id) \in Ids /\ Succ(slot.next_request_id) # 0
          /\ QuietState(procs[slot.process], Succ(slot.next_request_id))
      BY <2>2, IdAssumption DEF Inv, InStep, SlotReady, TypeOK, Worker, Ids, Succ
    <3>2. QuietState(procs'[slot.process], Succ(slot.next_request_id))
      BY <3>1, <1>1, <1>2, QuietStep
    <3> QED BY <3>1, <3>2, <1>1 DEF SlotReady
  <2> QED BY <2>1, <2>2
<1>6. ASSUME NEW o \in Processes
      PROVE  Owned(o)' \/ Released(procs'[o])
  <2>1. Owned(o) \/ Released(procs[o])
    BY DEF Inv, InStep
  <2>2. Owned(o)' <=> Owned(o)
    BY <1>1 DEF Owned
  <2> QED BY <2>1, <2>2, <1>1, <1>2, ReleasedStep
<1>7. (\A c \in Callers : pc'[c] \notin Inside) => held' = NoWorker
  BY <1>1 DEF Inv, InStep
<1> QED BY <1>1, <1>3, <1>4, <1>5, <1>6, <1>7 DEF Inv, InStep

-----------------------------------------------------------------------------
(* The steps of a call. *)

(* Signalling a process, whatever it was doing. *)
LEMMA KillStops ==
    ASSUME procs \in [Processes -> Process], NEW p \in Processes, Kill(p)
    PROVE  /\ procs' \in [Processes -> Process]
           /\ StoppedState(procs'[p])
           /\ \A o \in Processes \ {p} : procs'[o] = procs[o]
<1>1. Signalled(p) \in Process
  BY EmptyProcesses DEF Signalled
<1>2. StoppedState(Signalled(p))
  BY DEF Signalled, StoppedState, Released, Gone, Killed, Fresh
<1> QED BY <1>1, <1>2 DEF Kill

(* What holds of the worker while the call c is inside. *)
LEMMA OwnerFacts ==
    ASSUME Inv, NEW c \in Callers, pc[c] \in Inside
    PROVE  /\ OwnerInStep(c)
           /\ procs \in [Processes -> Process]
           /\ held \in Worker /\ held # NoWorker /\ slot = NoWorker
           /\ held.process \in Processes /\ held.next_request_id \in Ids
           /\ OwnRequest(c) \in Request
           /\ \A d \in Callers \ {c} : pc[d] \notin Inside
           /\ \A o \in Processes \ {held.process} : Released(procs[o])
<1>1. OwnerInStep(c) /\ procs \in [Processes -> Process]
  BY DEF Inv, InStep, TypeOK
<1>2. held \in Worker /\ held # NoWorker /\ slot = NoWorker
  BY <1>1, NoWorkerAssumption DEF OwnerInStep
<1>3. held.process \in Processes /\ held.next_request_id \in Ids
  BY <1>2 DEF Worker
<1>4. OwnRequest(c) \in Request
  BY <1>3 DEF OwnRequest, Request
<1>5. \A d \in Callers \ {c} : pc[d] \notin Inside
  BY <1>1 DEF OwnerInStep
<1>6. \A o \in Processes \ {held.process} : Released(procs[o])
  BY <1>2 DEF Inv, InStep, Owned
<1> QED BY <1>1, <1>2, <1>3, <1>4, <1>5, <1>6

(* A call that is outside and stays there disturbs nothing. *)
LEMMA OutsideMoves ==
    ASSUME Inv, NEW c \in Callers, pc[c] \notin Inside,
           NEW next \in Waiting \cup {"idle"}, pc' = [pc EXCEPT ![c] = next],
           line' \in Seq(Callers), procs' = procs, slot' = slot, held' = held
    PROVE  Inv'
<1>1. next \notin Inside
  BY DEF Waiting, Inside, Timed, Sending
<1>2. TypeOK'
  BY DEF Inv, TypeOK
<1>3. \A d \in Callers : (pc'[d] \in Inside <=> pc[d] \in Inside) /\ (pc[d] \in Inside => pc'[d] = pc[d])
  BY <1>1 DEF Inv, TypeOK
<1>4. ASSUME NEW d \in Callers, pc'[d] \in Inside
      PROVE  OwnerInStep(d)'
  <2>1. OwnerInStep(d) /\ pc'[d] = pc[d]
    BY <1>3, <1>4 DEF Inv, InStep
  <2> QED BY <2>1, <1>3 DEF OwnerInStep, OwnRequest
<1>5. SlotReady' /\ \A p \in Processes : Owned(p)' \/ Released(procs'[p])
  BY DEF Inv, InStep, SlotReady, Owned
<1>6. (\A d \in Callers : pc'[d] \notin Inside) => held' = NoWorker
  BY <1>3 DEF Inv, InStep
<1> QED BY <1>2, <1>4, <1>5, <1>6 DEF Inv, InStep

(* A call that is inside goes from one await to another. *)
LEMMA OwnerMoves ==
    ASSUME Inv, NEW c \in Callers, pc[c] \in Inside,
           NEW next \in Inside, pc' = [pc EXCEPT ![c] = next],
           line' = line, slot' = slot,
           held' \in Worker, held'.process = held.process,
           procs' \in [Processes -> Process],
           \A o \in Processes \ {held.process} : procs'[o] = procs[o],
           OwnerInStep(c)'
    PROVE  Inv'
<1>1. /\ held # NoWorker /\ slot = NoWorker /\ held.process \in Processes
      /\ \A d \in Callers \ {c} : pc[d] \notin Inside
      /\ \A o \in Processes \ {held.process} : Released(procs[o])
  BY OwnerFacts
<1>2. held' # NoWorker
  BY NoWorkerAssumption
<1>3. TypeOK'
  BY DEF Inv, TypeOK
<1>4. \A d \in Callers \ {c} : pc'[d] \notin Inside
  BY <1>1 DEF Inv, TypeOK
<1>5. pc'[c] \in Inside
  BY DEF Inv, TypeOK
<1>6. ASSUME NEW p \in Processes
      PROVE  Owned(p)' \/ Released(procs'[p])
  BY <1>1, <1>2 DEF Owned
<1>7. SlotReady'
  BY <1>1 DEF SlotReady
<1> QED BY <1>3, <1>4, <1>5, <1>6, <1>7 DEF Inv, InStep

(* A call gives its worker up, dead or alive. *)
LEMMA OwnerLeaves ==
    ASSUME Inv, NEW c \in Callers, pc[c] \in Inside,
           pc' = [pc EXCEPT ![c] = "idle"],
           line' = line, held' = NoWorker,
           slot' \in Worker \cup {NoWorker},
           procs' \in [Processes -> Process],
           \A o \in Processes \ {held.process} : procs'[o] = procs[o],
           SlotReady',
           slot' = held \/ Released(procs'[held.process])
    PROVE  Inv'
<1>1. /\ held # NoWorker /\ held.process \in Processes
      /\ \A d \in Callers \ {c} : pc[d] \notin Inside
      /\ \A o \in Processes \ {held.process} : Released(procs[o])
  BY OwnerFacts
<1>2. TypeOK'
  BY DEF Inv, TypeOK
<1>3. \A d \in Callers : pc'[d] \notin Inside
  BY <1>1 DEF Inv, TypeOK, Inside, Timed, Sending
<1>4. ASSUME NEW p \in Processes
      PROVE  Owned(p)' \/ Released(procs'[p])
  BY <1>1 DEF Owned
<1> QED BY <1>2, <1>3, <1>4 DEF Inv, InStep

(* A call fails: its worker is signalled while the call still holds it. *)
LEMMA StopInStep ==
    ASSUME Inv, NEW c \in Callers, pc[c] \in Inside, Stop(c)
    PROVE  Inv'
<1>1. /\ procs \in [Processes -> Process] /\ held.process \in Processes
      /\ held \in Worker /\ slot = NoWorker
      /\ \A d \in Callers \ {c} : pc[d] \notin Inside
  BY OwnerFacts
<1>2. /\ pc' = [pc EXCEPT ![c] = "stopping"]
      /\ line' = line /\ slot' = slot /\ held' = held /\ Kill(held.process)
  BY DEF Stop
<1>3. /\ procs' \in [Processes -> Process]
      /\ StoppedState(procs'[held.process])
      /\ \A o \in Processes \ {held.process} : procs'[o] = procs[o]
  BY <1>1, <1>2, KillStops
<1>4. "stopping" \in Inside /\ pc'[c] = "stopping" /\ \A d \in Callers \ {c} : pc'[d] \notin Inside
  BY <1>1, <1>2 DEF Inv, TypeOK, Inside
<1>5. OwnerInStep(c)'
  BY <1>1, <1>2, <1>3, <1>4 DEF OwnerInStep
<1> QED BY <1>1, <1>2, <1>3, <1>4, <1>5, OwnerMoves

(* The call gives its worker up after signalling it. *)
LEMMA KillAndLeave ==
    ASSUME Inv, NEW c \in Callers, pc[c] \in Inside, Kill(held.process), held' = NoWorker,
           pc' = [pc EXCEPT ![c] = "idle"], line' = line, slot' = slot
    PROVE  Inv'
<1>1. /\ procs \in [Processes -> Process] /\ held.process \in Processes /\ slot = NoWorker
  BY OwnerFacts
<1>2. /\ procs' \in [Processes -> Process]
      /\ StoppedState(procs'[held.process])
      /\ \A o \in Processes \ {held.process} : procs'[o] = procs[o]
  BY <1>1, KillStops
<1>3. SlotReady' /\ Released(procs'[held.process])
  BY <1>1, <1>2 DEF SlotReady, StoppedState
<1> QED BY <1>1, <1>2, <1>3, OwnerLeaves

(* A call that is admitted finds nobody inside, and no worker held. *)
LEMMA AdmittedFacts ==
    ASSUME Inv, NEW c \in Callers, Admitted(c)
    PROVE  /\ procs \in [Processes -> Process] /\ pc \in [Callers -> Inside \cup Waiting \cup {"idle"}]
           /\ held = NoWorker /\ line' \in Seq(Callers)
           /\ \A d \in Callers : pc[d] \notin Inside
<1>1. \A d \in Callers : pc[d] \notin Inside
  BY DEF Admitted
<1>2. held = NoWorker
  BY <1>1 DEF Inv, InStep
<1>3. line \in Seq(Callers) /\ line # << >> /\ line' = Tail(line)
  BY DEF Admitted, Inv, TypeOK
<1>4. line' \in Seq(Callers)
  BY <1>3, HeadTailProperties
<1> QED BY <1>1, <1>2, <1>4 DEF Inv, TypeOK

(* A call goes in, with a worker. *)
LEMMA OwnerEnters ==
    ASSUME Inv, NEW c \in Callers, Admitted(c), NEW next \in Inside,
           pc' = [pc EXCEPT ![c] = next], slot' = NoWorker, held' \in Worker,
           slot = NoWorker \/ slot.process = held'.process,
           procs' \in [Processes -> Process],
           \A o \in Processes \ {held'.process} : procs'[o] = procs[o],
           next = "starting" => held'.next_request_id = 0 /\ StartingState(procs'[held'.process]),
           next = "header" => QuietState(procs'[held'.process], held'.next_request_id),
           next \in {"starting", "header"}
    PROVE  Inv'
<1>1. /\ pc \in [Callers -> Inside \cup Waiting \cup {"idle"}]
      /\ held = NoWorker /\ line' \in Seq(Callers)
      /\ \A d \in Callers : pc[d] \notin Inside
  BY AdmittedFacts
<1>2. TypeOK'
  BY <1>1 DEF Inv, TypeOK
<1>3. pc'[c] = next /\ \A d \in Callers \ {c} : pc'[d] \notin Inside
  BY <1>1
<1>4. OwnerInStep(c)'
  BY <1>3 DEF OwnerInStep
<1>5. held' # NoWorker
  BY NoWorkerAssumption
<1>6. ASSUME NEW p \in Processes
      PROVE  Owned(p)' \/ Released(procs'[p])
  BY <1>1, <1>5 DEF Owned, Inv, InStep
<1>7. SlotReady'
  BY DEF SlotReady
<1> QED BY <1>2, <1>3, <1>4, <1>6, <1>7 DEF Inv, InStep

(* Taking the worker from the slot, or starting one. *)
LEMMA EnterInStep ==
    ASSUME Inv, NEW c \in Callers, Enter(c)
    PROVE  Inv'
<1>1. CASE Take(c)
  <2>1. Admitted(c) /\ slot # NoWorker /\ slot' = NoWorker /\ slot \in Worker
    BY <1>1 DEF Take, Inv, TypeOK
  <2>2. /\ Succ(slot.next_request_id) \in Ids /\ Succ(slot.next_request_id) # 0
        /\ QuietState(procs[slot.process], Succ(slot.next_request_id))
    BY <2>1, IdAssumption DEF Inv, InStep, SlotReady, Worker, Ids, Succ
  <2>3. /\ held' = [slot EXCEPT !.next_request_id = Succ(slot.next_request_id)]
        /\ pc' = [pc EXCEPT ![c] = "header"] /\ procs' = procs
    BY <1>1, <2>2 DEF Take
  <2>4. /\ held' \in Worker /\ held'.process = slot.process
        /\ held'.next_request_id = Succ(slot.next_request_id)
    BY <2>1, <2>2, <2>3 DEF Worker
  <2>5. "header" \in Inside /\ "header" # "starting"
    BY DEF Inside, Timed, Sending
  <2>6. procs \in [Processes -> Process]
    BY DEF Inv, TypeOK
  <2> QED BY <2>1, <2>2, <2>3, <2>4, <2>5, <2>6, OwnerEnters
<1>2. CASE Spawn(c)
  <2>1. PICK p \in Processes :
          /\ procs' = [procs EXCEPT ![p] = Fresh]
          /\ held' = [process |-> p, next_request_id |-> 0]
    BY <1>2 DEF Spawn
  <2>2. /\ Admitted(c) /\ slot = NoWorker /\ slot' = NoWorker
        /\ pc' = [pc EXCEPT ![c] = "starting"]
    BY <1>2 DEF Spawn
  <2>3. held' \in Worker /\ held'.process = p /\ held'.next_request_id = 0
    BY <2>1, IdAssumption DEF Worker, Ids
  <2>4. procs \in [Processes -> Process]
    BY DEF Inv, TypeOK
  <2>5. /\ procs' \in [Processes -> Process] /\ procs'[p] = Fresh
        /\ \A o \in Processes \ {p} : procs'[o] = procs[o]
    BY <2>1, <2>4, EmptyProcesses
  <2>6. StartingState(Fresh)
    BY DEF StartingState, At, Pipes, Fresh
  <2>7. "starting" \in Inside /\ "header" # "starting"
    BY DEF Inside, Timed, Sending
  <2> QED BY <2>2, <2>3, <2>5, <2>6, <2>7, OwnerEnters
<1>3. CASE SpawnFails(c)
  <2>1. line' \in Seq(Callers) /\ pc[c] \notin Inside
    BY <1>3, AdmittedFacts DEF SpawnFails
  <2> QED BY <2>1, <1>3, OutsideMoves DEF SpawnFails
<1> QED BY <1>1, <1>2, <1>3 DEF Enter

(* The handshake. *)
LEMMA ReadyInStep ==
    ASSUME Inv, NEW c \in Callers, ReceiveReady(c)
    PROVE  Inv'
<1>1. pc[c] = "starting" /\ pc[c] \in Inside /\ "header" \in Inside
  BY DEF ReceiveReady, Inside, Timed, Sending
<1>2. /\ procs \in [Processes -> Process] /\ held \in Worker /\ slot = NoWorker
      /\ held.process \in Processes
      /\ held.next_request_id = 0 /\ StartingState(procs[held.process])
      /\ \A d \in Callers \ {c} : pc[d] \notin Inside
  BY <1>1, OwnerFacts DEF OwnerInStep
<1>3. /\ procs' = [procs EXCEPT ![held.process].ready = {}]
      /\ held' = [held EXCEPT !.next_request_id = Succ(0)]
      /\ pc' = [pc EXCEPT ![c] = "header"]
      /\ line' = line /\ slot' = slot /\ procs[held.process].ready # {}
  BY <1>2 DEF ReceiveReady
<1>4. Succ(0) = 1 /\ 1 \in Ids
  BY IdAssumption DEF Succ, Ids
<1>5. held' \in Worker /\ held'.process = held.process /\ held'.next_request_id = 1
  BY <1>2, <1>3, <1>4 DEF Worker
<1>6. /\ procs' \in [Processes -> Process]
      /\ \A o \in Processes \ {held.process} : procs'[o] = procs[o]
      /\ procs'[held.process] = [procs[held.process] EXCEPT !.ready = {}]
  <2>1. procs[held.process] \in Process /\ {} \in SUBSET Ready
    BY <1>2
  <2>2. [procs[held.process] EXCEPT !.ready = {}] \in Process
    BY <2>1 DEF Process
  <2> QED BY <2>2, <1>2, <1>3
<1>7. QuietState(procs'[held.process], 1)
  BY <1>2, <1>3, <1>6 DEF StartingState, QuietState, At, Pipes, Exited, Process
<1>8. pc'[c] = "header" /\ \A d \in Callers \ {c} : pc'[d] \notin Inside
  BY <1>2, <1>3 DEF Inv, TypeOK
<1>9. OwnerInStep(c)'
  BY <1>2, <1>3, <1>5, <1>7, <1>8 DEF OwnerInStep
<1> QED BY <1>1, <1>3, <1>5, <1>6, <1>9, OwnerMoves

(* The two pieces of a request in the pipe. *)
LEMMA AppendToOne ==
    ASSUME NEW a, NEW b
    PROVE  Append(<<a>>, b) = <<a, b>>
<1>1. <<a>> \in Seq({a, b}) /\ <<a, b>> \in Seq({a, b}) /\ Len(<<a>>) = 1 /\ Len(<<a, b>>) = 2
  OBVIOUS
<1>2. /\ Append(<<a>>, b) \in Seq({a, b}) /\ Len(Append(<<a>>, b)) = 2
      /\ Append(<<a>>, b)[1] = a /\ Append(<<a>>, b)[2] = b
  BY <1>1, AppendProperties
<1>3. \A i \in 1 .. 2 : Append(<<a>>, b)[i] = <<a, b>>[i]
  BY <1>2
<1> QED BY <1>1, <1>2, <1>3, SeqEqual

(* The request. *)
LEMMA SendInStep ==
    ASSUME Inv, NEW c \in Callers, Send(c)
    PROVE  Inv'
<1> DEFINE h == held.process
           q == OwnRequest(c)
           piece == [piece |-> pc[c], request |-> q]
           after == IF pc[c] = "header" THEN "body" ELSE "receiving"
<1>1. pc[c] \in {"header", "body"} /\ pc[c] \in Inside /\ after \in Inside
  BY DEF Send, Inside, Timed, Sending
<1>2. /\ procs \in [Processes -> Process] /\ held \in Worker /\ slot = NoWorker
      /\ h \in Processes /\ q \in Request /\ OwnerInStep(c)
      /\ \A d \in Callers \ {c} : pc[d] \notin Inside
  BY <1>1, OwnerFacts
<1>3. /\ procs' = [procs EXCEPT ![h].stdin = Append(@, piece)]
      /\ pc' = [pc EXCEPT ![c] = after]
      /\ line' = line /\ slot' = slot /\ held' = held
      /\ procs[h].status = "running"
  BY DEF Send, Running
<1>4. piece \in Piece /\ procs[h] \in Process
  BY <1>1, <1>2 DEF Piece
<1> HIDE DEF h, piece
<1>5. Append(procs[h].stdin, piece) \in Seq(Piece)
  BY <1>4, AppendProperties DEF Process
<1>6. [procs[h] EXCEPT !.stdin = Append(procs[h].stdin, piece)] \in Process
  BY <1>4, <1>5 DEF Process
<1>7. /\ procs' \in [Processes -> Process]
      /\ \A o \in Processes \ {h} : procs'[o] = procs[o]
      /\ procs'[h] = [procs[h] EXCEPT !.stdin = Append(procs[h].stdin, piece)]
  BY <1>2, <1>3, <1>6
<1>8. pc'[c] = after /\ \A d \in Callers \ {c} : pc'[d] \notin Inside
  BY <1>2, <1>3 DEF Inv, TypeOK
<1>9. CASE pc[c] = "header"
  <2>1. QuietState(procs[h], q.id) /\ piece = Header(q) /\ after = "body"
    BY <1>2, <1>9 DEF OwnerInStep, OwnRequest, h, piece, Header
  <2>2. Append(<< >>, Header(q)) = <<Header(q)>>
    OBVIOUS
  <2>3. BodyState(procs'[h], q)
    BY <2>1, <2>2, <1>3, <1>4, <1>7 DEF QuietState, BodyState, At, Pipes, Exited, Process
  <2>4. OwnerInStep(c)'
    BY <2>1, <2>3, <1>2, <1>3, <1>8 DEF OwnerInStep, OwnRequest, h
  <2> QED BY <2>4, <1>1, <1>2, <1>3, <1>7, OwnerMoves DEF h
<1>10. CASE pc[c] = "body"
  <2>1. BodyState(procs[h], q) /\ piece = Body(q) /\ after = "receiving"
    BY <1>2, <1>10 DEF OwnerInStep, h, piece, Body
  <2>2. /\ Append(<<Header(q)>>, Body(q)) = <<Header(q), Body(q)>>
        /\ Append(<< >>, Body(q)) = <<Body(q)>>
    BY AppendToOne
  <2>3. ReceivingState(procs'[h], q)
    <3>1. procs[h].ready = {} /\ procs[h].stdout = << >> /\ procs[h].stdin \in {<<Header(q)>>, << >>}
      BY <2>1, <1>3 DEF BodyState, Exited, Pipes
    <3>2. procs'[h].stdin = Append(procs[h].stdin, Body(q))
      BY <2>1, <1>4, <1>7 DEF Process
    <3>3. /\ procs'[h].ready = {} /\ procs'[h].stdout = << >>
          /\ \A main, reader, n : At(procs[h], main, reader, n) => At(procs'[h], main, reader, n)
      BY <3>1, <1>4, <1>7 DEF At, Process
    <3>4. CASE At(procs[h], "select", "header", q.id) /\ Pipes(procs[h], <<Header(q)>>, << >>)
      BY <3>2, <3>3, <3>4, <2>2 DEF ReceivingState, AskedState, Pipes
    <3>5. CASE At(procs[h], "select", "body", q.id) /\ Pipes(procs[h], << >>, << >>)
      BY <3>2, <3>3, <3>5, <2>2 DEF ReceivingState, AskedState, Pipes
    <3> QED BY <3>4, <3>5, <2>1, <1>3 DEF BodyState, Exited
  <2>4. OwnerInStep(c)'
    BY <2>1, <2>3, <1>2, <1>3, <1>8 DEF OwnerInStep, OwnRequest, h
  <2> QED BY <2>4, <1>1, <1>2, <1>3, <1>7, OwnerMoves DEF h
<1> QED BY <1>1, <1>9, <1>10

(* The answer: whatever arrives is the answer to this call's request, so a
   worker whose proof is accepted goes back into the slot in step. *)
LEMMA AnswerInStep ==
    ASSUME Inv, NEW c \in Callers, ReceiveProof(c)
    PROVE  Inv'
<1> DEFINE h == held.process
           q == OwnRequest(c)
<1>1. pc[c] = "receiving" /\ pc[c] \in Inside
  BY DEF ReceiveProof, Inside, Timed
<1>2. /\ procs \in [Processes -> Process] /\ held \in Worker /\ slot = NoWorker
      /\ h \in Processes /\ q.id = held.next_request_id
      /\ ReceivingState(procs[h], q)
  BY <1>1, OwnerFacts DEF OwnerInStep, OwnRequest
<1>3. /\ procs' = [procs EXCEPT ![h].stdout = Tail(@)]
      /\ slot' = held /\ held' = NoWorker
      /\ pc' = [pc EXCEPT ![c] = "idle"] /\ line' = line
      /\ procs[h].stdout # << >>
  BY DEF ReceiveProof
<1> HIDE DEF h, q
<1>4. PICK ok \in BOOLEAN : procs[h].stdout = <<AnswerTo(q, ok)>>
  BY <1>2, <1>3 DEF ReceivingState, AskedState, TakenState, Pipes
<1>5. Tail(procs[h].stdout) = << >>
  BY <1>4
<1>6. procs[h] \in Process /\ << >> \in Seq(Response)
  BY <1>2
<1>7. [procs[h] EXCEPT !.stdout = << >>] \in Process
  BY <1>6 DEF Process
<1>8. /\ procs' \in [Processes -> Process]
      /\ \A o \in Processes \ {h} : procs'[o] = procs[o]
      /\ procs'[h] = [procs[h] EXCEPT !.stdout = << >>]
  BY <1>2, <1>3, <1>5, <1>7
<1>9. /\ Succ(q.id) # 0
      /\ procs[h].ready = {} /\ procs[h].stdin = << >>
      /\ Exited(procs[h]) \/ At(procs[h], "select", "header", Succ(q.id))
  BY <1>2, <1>3 DEF ReceivingState, AskedState, TakenState, Pipes
<1>10. QuietState(procs'[h], Succ(q.id))
  BY <1>6, <1>8, <1>9 DEF QuietState, At, Pipes, Exited, Process
<1>11. SlotReady'
  BY <1>2, <1>3, <1>9, <1>10 DEF SlotReady, h
<1> QED BY <1>1, <1>2, <1>3, <1>8, <1>11, OwnerLeaves DEF h

(* Every step of a call. *)
LEMMA ClientInStep ==
    ASSUME Inv, NEW c \in Callers, ClientStep(c)
    PROVE  Inv'
<1> USE DEF Waiting, Inside, Timed, Sending
<1>0. line \in Seq(Callers) /\ pc \in [Callers -> Inside \cup Waiting \cup {"idle"}]
  BY DEF Inv, TypeOK
<1>1. CASE Call(c)
  BY <1>0, <1>1, OutsideMoves DEF Call
<1>2. CASE Build(c)
  <2>1. line' \in Seq(Callers)
    BY <1>0, <1>2, AppendProperties DEF Build
  <2> QED BY <2>1, <1>2, OutsideMoves DEF Build
<1>3. CASE BuildFails(c)
  BY <1>0, <1>3, OutsideMoves DEF BuildFails
<1>4. CASE CancelWaiting(c)
  <2>1. line' \in Seq(Callers)
    <3>1. CASE line' = line
      BY <3>1, <1>0
    <3>2. CASE \E k \in DOMAIN line : line' = RemoveAt(line, k)
      <4>1. PICK k \in 1 .. Len(line) : line' = SubSeq(line, 1, k - 1) \o SubSeq(line, k + 1, Len(line))
        BY <3>2, <1>0, LenProperties DEF RemoveAt
      <4>2. Len(line) \in Nat /\ \A i \in 1 .. Len(line) : line[i] \in Callers
        BY <1>0
      <4>3. SubSeq(line, 1, k - 1) \in Seq(Callers)
        BY <4>1, <4>2, SubSeqProperties
      <4>4. SubSeq(line, k + 1, Len(line)) \in Seq(Callers)
        BY <4>1, <4>2, SubSeqProperties
      <4> QED BY <4>1, <4>3, <4>4, ConcatProperties
    <3> QED BY <3>1, <3>2, <1>4 DEF CancelWaiting
  <2> QED BY <2>1, <1>4, OutsideMoves DEF CancelWaiting
<1>5. CASE Enter(c)
  BY <1>5, EnterInStep
<1>6. CASE ReceiveReady(c)
  BY <1>6, ReadyInStep
<1>7. CASE Send(c)
  BY <1>7, SendInStep
<1>8. CASE ReceiveProof(c)
  BY <1>8, AnswerInStep
<1>9. CASE ReceiveWrongReady(c) \/ SendFails(c) \/ ReceiveEnd(c) \/ TimeOut(c)
  BY <1>9, StopInStep DEF ReceiveWrongReady, SendFails, ReceiveEnd, TimeOut
<1>10. CASE RejectAnswer(c)
  <2>1. pc[c] \in Inside
    BY <1>10 DEF RejectAnswer
  <2>2. CASE Stop(c)
    BY <2>1, <2>2, StopInStep
  <2>3. CASE ~Stop(c)
    BY <2>1, <2>3, <1>10, KillAndLeave DEF RejectAnswer
  <2> QED BY <2>2, <2>3
<1>11. CASE Stopped(c)
  <2>1. pc[c] \in Inside /\ pc[c] = "stopping"
    BY <1>11 DEF Stopped
  <2>2. /\ procs \in [Processes -> Process] /\ slot = NoWorker
        /\ StoppedState(procs[held.process])
    BY <2>1, OwnerFacts DEF OwnerInStep
  <2>3. SlotReady' /\ Released(procs[held.process])
    BY <2>2, <1>11 DEF SlotReady, Stopped, StoppedState
  <2> QED BY <2>1, <2>2, <2>3, <1>11, OwnerLeaves DEF Stopped
<1>12. CASE CancelInside(c)
  BY <1>12, KillAndLeave DEF CancelInside
<1> QED
  BY <1>1, <1>2, <1>3, <1>4, <1>5, <1>6, <1>7, <1>8, <1>9, <1>10, <1>11, <1>12
  DEF ClientStep, Converse, Cancel

-----------------------------------------------------------------------------
(* The client itself ends, in good order or not. *)

(* Dropping the client kills the worker in the slot. *)
LEMMA CloseInStep ==
    ASSUME Inv, Close
    PROVE  Inv'
<1>1. /\ procs \in [Processes -> Process] /\ slot \in Worker
      /\ \A c \in Callers : pc[c] \notin Inside
  BY DEF Close, Inv, TypeOK, Inside, Timed, Sending
<1>2. held = NoWorker /\ slot.process \in Processes
  BY <1>1 DEF Inv, InStep, Worker
<1>3. /\ procs' \in [Processes -> Process]
      /\ StoppedState(procs'[slot.process])
      /\ \A o \in Processes \ {slot.process} : procs'[o] = procs[o]
  BY <1>1, <1>2, KillStops DEF Close
<1>4. slot' = NoWorker /\ held' = NoWorker /\ pc' = pc /\ line' = line
  BY <1>2 DEF Close
<1>5. TypeOK'
  BY <1>3, <1>4 DEF Inv, TypeOK
<1>6. ASSUME NEW p \in Processes
      PROVE  Released(procs'[p])
  BY <1>2, <1>3 DEF StoppedState, Inv, InStep, Owned
<1> QED BY <1>1, <1>4, <1>5, <1>6 DEF Inv, InStep, SlotReady

(* The parent of an owned process is alive. *)
LEMMA OwnedAlive ==
    ASSUME Inv, NEW p \in Processes, Owned(p), procs[p].status = "running"
    PROVE  ~procs[p].eof \/ Released(procs[p])
<1>1. CASE slot # NoWorker /\ slot.process = p
  BY <1>1 DEF Inv, InStep, SlotReady, QuietState, Exited, At
<1>2. CASE held # NoWorker /\ held.process = p
  <2>1. PICK c \in Callers : pc[c] \in Inside
    BY <1>2 DEF Inv, InStep
  <2>2. OwnerInStep(c)
    BY <2>1 DEF Inv, InStep
  <2> QED
    BY <1>2, <2>1, <2>2
    DEF OwnerInStep, Inside, Timed, Sending, StartingState, QuietState, BodyState, ReceivingState,
        AskedState, TakenState, StoppedState, Exited, At
<1> QED BY <1>1, <1>2 DEF Owned

(* A crash leaves orphans, and the next client starts without a worker. *)
LEMMA CrashInStep ==
    ASSUME Inv, HostCrash
    PROVE  Inv'
<1>1. procs \in [Processes -> Process]
  BY DEF Inv, TypeOK
<1>2. /\ pc' = [c \in Callers |-> "idle"] /\ line' = << >>
      /\ slot' = NoWorker /\ held' = NoWorker
  BY DEF HostCrash
<1>3. PICK torn \in BOOLEAN :
        procs' = [p \in Processes |-> IF Running(p) THEN Orphan(procs[p], torn) ELSE Signalled(p)]
  BY DEF HostCrash
<1>4. ASSUME NEW p \in Processes
      PROVE  /\ (IF Running(p) THEN Orphan(procs[p], torn) ELSE Signalled(p)) \in Process
             /\ Released(IF Running(p) THEN Orphan(procs[p], torn) ELSE Signalled(p))
  <2>1. procs[p] \in Process
    BY <1>1
  <2>2. CASE ~Running(p)
    BY <2>2, EmptyProcesses DEF Signalled, Released, Gone, Killed, Fresh
  <2>3. CASE Running(p) /\ procs[p].eof
    <3>1. Orphan(procs[p], torn) = procs[p]
      BY <2>3 DEF Orphan
    <3>2. Released(procs[p])
      BY <2>3, OwnedAlive DEF Inv, InStep, Running
    <3> QED BY <3>1, <3>2, <2>1, <2>3
  <2>4. CASE Running(p) /\ ~procs[p].eof
    <3>1. Orphan(procs[p], torn)
            = [procs[p] EXCEPT !.eof = TRUE, !.torn = torn, !.ready = {}, !.stdout = << >>]
      BY <2>4 DEF Orphan
    <3>2. << >> \in Seq(Response) /\ {} \in SUBSET Ready
      OBVIOUS
    <3>3. Orphan(procs[p], torn) \in Process
      BY <3>1, <3>2, <2>1 DEF Process
    <3>4. Released(Orphan(procs[p], torn))
      BY <3>1, <2>1 DEF Released, Process
    <3> QED BY <3>3, <3>4, <2>4
  <2> QED BY <2>2, <2>3, <2>4
<1>5. TypeOK' /\ \A p \in Processes : Released(procs'[p])
  <2>1. procs' \in [Processes -> Process] /\ \A p \in Processes : Released(procs'[p])
    BY <1>3, <1>4
  <2>2. pc' \in [Callers -> Inside \cup Waiting \cup {"idle"}] /\ line' \in Seq(Callers)
    BY <1>2
  <2> QED BY <1>2, <2>1, <2>2 DEF TypeOK
<1>6. \A c \in Callers : pc'[c] \notin Inside
  BY <1>2 DEF Inside, Timed, Sending
<1> QED BY <1>2, <1>4, <1>5, <1>6 DEF Inv, InStep, SlotReady

(* Before the first call there is no process. *)
LEMMA InitInStep == Init => Inv
<1> SUFFICES ASSUME Init PROVE Inv
  OBVIOUS
<1>1. \A p \in Processes : procs[p] = Gone
  BY DEF Init
<1>2. TypeOK
  BY EmptyProcesses DEF Init, TypeOK
<1>3. \A p \in Processes : Released(procs[p])
  BY <1>1 DEF Released, Gone, Fresh
<1>4. \A c \in Callers : pc[c] \notin Inside
  BY DEF Init, Inside, Timed, Sending
<1> QED BY <1>2, <1>3, <1>4 DEF Init, Inv, InStep, SlotReady

-----------------------------------------------------------------------------
(* Worker and call are in step in every behaviour, for any number of callers
   and processes and whatever the width of the request IDs. *)
THEOREM AlwaysInStep == Spec => []Inv
<1>1. ASSUME Inv, [Next]_vars
      PROVE  Inv'
  <2>1. CASE UNCHANGED vars
    BY <1>1, <2>1 DEF vars, Inv, TypeOK, InStep, OwnerInStep, OwnRequest, SlotReady, Owned
  <2>2. CASE Next
    BY <1>1, <2>2, ClientInStep, WorkerInStep, CloseInStep, CrashInStep DEF Next
  <2> QED BY <1>1, <2>1, <2>2
<1> QED BY <1>1, InitInStep, PTL DEF Spec

(* Every variable of the client and its processes keeps its type. *)
THEOREM ClientTypeCorrect == Spec => []TypeOK
<1>1. Inv => TypeOK
  BY DEF Inv
<1> QED BY <1>1, AlwaysInStep, PTL

(* The worker that Veil::prove finds in the slot has nothing in its pipes and
   expects the next ID, however the calls before ended. *)
THEOREM SlotAlwaysInSync == Spec => []SlotInSync
<1>1. ASSUME Inv
      PROVE  SlotInSync
  <2>1. CASE slot # NoWorker
    <3>1. QuietState(procs[slot.process], Succ(slot.next_request_id))
      BY <1>1, <2>1 DEF Inv, InStep, SlotReady
    <3> QED BY <3>1 DEF SlotInSync, QuietState, Pipes, Exited, At
  <2> QED BY <2>1 DEF SlotInSync
<1> QED BY <1>1, AlwaysInStep, PTL

(* The next call never draws the ID 0. *)
THEOREM IdsDoNotWrap == Spec => []IdsNeverWrap
<1>1. Inv => IdsNeverWrap
  BY DEF Inv, InStep, SlotReady, IdsNeverWrap
<1> QED BY <1>1, AlwaysInStep, PTL

(* No process is forgotten by a call that fails or is dropped. *)
THEOREM WorkersNeverStray == Spec => []NoStrayWorkers
<1>1. Inv => NoStrayWorkers
  BY DEF Inv, InStep, NoStrayWorkers, Owned, Released, Running
<1> QED BY <1>1, AlwaysInStep, PTL

(* An answer in a pipe is the one that the call which holds the worker waits
   for: no call is ever shown another call's proof. *)
THEOREM AnswersAlwaysOwed == Spec => []AnswersAreOwed
<1>1. ASSUME Inv, NEW p \in Processes, procs[p].stdout # << >>
      PROVE  /\ Len(procs[p].stdout) = 1
             /\ held # NoWorker /\ held.process = p
             /\ procs[p].stdout[1].id = held.next_request_id
             /\ \E c \in Callers : pc[c] = "receiving" /\ procs[p].stdout[1].call = c
  <2>1. Owned(p)
    BY <1>1 DEF Inv, InStep, Released
  <2>2. held # NoWorker /\ held.process = p
    BY <1>1, <2>1 DEF Owned, Inv, InStep, SlotReady, QuietState, Pipes
  <2>3. PICK c \in Callers : pc[c] \in Inside
    BY <1>1, <2>2 DEF Inv, InStep
  <2>4. OwnerInStep(c)
    BY <1>1, <2>3 DEF Inv, InStep
  <2>5. pc[c] = "receiving" /\ ReceivingState(procs[p], OwnRequest(c))
    BY <1>1, <2>2, <2>3, <2>4
    DEF OwnerInStep, Inside, Timed, Sending, StartingState, QuietState, BodyState, StoppedState,
        Released, Pipes
  <2>6. PICK ok \in BOOLEAN : procs[p].stdout = <<AnswerTo(OwnRequest(c), ok)>>
    BY <1>1, <2>5 DEF ReceivingState, AskedState, TakenState, Pipes
  <2> QED BY <2>2, <2>5, <2>6 DEF AnswerTo, OwnRequest
<1>2. Inv => AnswersAreOwed
  BY <1>1 DEF AnswersAreOwed
<1> QED BY <1>2, AlwaysInStep, PTL

-----------------------------------------------------------------------------
(* Veil::prove implements the service. *)

ServiceStep == [Service!Next]_<<Stage, line, LiveWorkers, Answered>>

Live(proc) == proc.status = "running" /\ ~proc.eof

(* The call c has its proof in the pipe. *)
HasAnswer(c) ==
    /\ procs[held.process].stdout # << >>
    /\ Valid(Head(procs[held.process].stdout))
    /\ Head(procs[held.process].stdout).call = c

(* The stages of the calls follow the program counters. *)
LEMMA StageOfCall ==
    ASSUME TypeOK
    PROVE  /\ Stage \in [Callers -> Waiting \cup {"idle", "served"}]
           /\ \A c \in Callers : pc[c] \notin Inside => Stage[c] = pc[c] /\ Stage[c] # "served"
           /\ \A c \in Callers : pc[c] \in Inside => Stage[c] = "served"
BY DEF TypeOK, Stage, Waiting

(* One call's step is one call's stage. *)
LEMMA StageMoves ==
    ASSUME TypeOK, NEW c \in Callers, NEW next, pc' = [pc EXCEPT ![c] = next]
    PROVE  Stage' = [Stage EXCEPT ![c] = IF next \in Inside THEN "served" ELSE next]
BY DEF TypeOK, Stage

(* While a call is inside, only its worker lives, and only it can be answered. *)
LEMMA ServedFacts ==
    ASSUME Inv, NEW c \in Callers, pc[c] \in Inside
    PROVE  /\ LiveWorkers = IF Live(procs[held.process]) THEN {held.process} ELSE {}
           /\ Answered = IF pc[c] = "receiving" /\ HasAnswer(c) THEN {c} ELSE {}
<1>1. /\ held.process \in Processes
      /\ \A d \in Callers \ {c} : pc[d] \notin Inside
      /\ \A o \in Processes \ {held.process} : Released(procs[o])
  BY OwnerFacts
<1>2. \A o \in Processes \ {held.process} : ~Live(procs[o])
  BY <1>1 DEF Released, Live
<1>3. LiveWorkers = {p \in Processes : Live(procs[p])}
  BY DEF LiveWorkers, Running, Live
<1>4. Answered = {d \in Callers : pc[d] = "receiving" /\ HasAnswer(d)}
  BY DEF Answered, HasAnswer
<1>5. "receiving" \in Inside
  BY DEF Inside, Timed
<1>6. \A d \in Callers \ {c} : pc[d] # "receiving"
  BY <1>1, <1>5
<1> QED BY <1>1, <1>2, <1>3, <1>4, <1>6

(* While no call is inside, nothing is answered and only the worker in the
   slot can live. *)
LEMMA UnservedFacts ==
    ASSUME Inv, \A c \in Callers : pc[c] \notin Inside
    PROVE  /\ Answered = {}
           /\ slot = NoWorker => LiveWorkers = {}
           /\ slot # NoWorker => LiveWorkers \subseteq {slot.process}
<1>1. "receiving" \in Inside
  BY DEF Inside, Timed
<1>2. held = NoWorker
  BY DEF Inv, InStep
<1> QED BY <1>1, <1>2 DEF Answered, LiveWorkers, Running, Inv, InStep, Owned, Released

(* The two views together. *)
ServiceView ==
    /\ \A c \in Callers : pc[c] \in Inside =>
          /\ LiveWorkers = IF Live(procs[held.process]) THEN {held.process} ELSE {}
          /\ Answered = IF pc[c] = "receiving" /\ HasAnswer(c) THEN {c} ELSE {}
    /\ (\A c \in Callers : pc[c] \notin Inside) =>
          /\ Answered = {}
          /\ slot = NoWorker => LiveWorkers = {}
          /\ slot # NoWorker => LiveWorkers \subseteq {slot.process}

(* The view is right in every state that the invariant allows. *)
LEMMA ViewHolds == Inv => ServiceView
BY ServedFacts, UnservedFacts DEF ServiceView

(* The same of the next state. *)
LEMMA ViewHoldsNext == Inv' => ServiceView'
BY ViewHolds, PTL

(* A call that moves outside changes neither workers nor answers. *)
LEMMA OutsideKeeps ==
    ASSUME Inv, NEW c \in Callers, pc[c] \notin Inside, NEW next, next \notin Inside,
           pc' = [pc EXCEPT ![c] = next], procs' = procs, held' = held
    PROVE  /\ Stage' = [Stage EXCEPT ![c] = next]
           /\ LiveWorkers' = LiveWorkers /\ Answered' = Answered
<1>1. TypeOK
  BY DEF Inv
<1>2. Stage' = [Stage EXCEPT ![c] = next]
  BY <1>1, StageMoves
<1>3. LiveWorkers' = LiveWorkers
  BY DEF LiveWorkers, Running
<1>4. "receiving" \in Inside
  BY DEF Inside, Timed
<1>5. \A d \in Callers : pc'[d] = "receiving" <=> pc[d] = "receiving"
  BY <1>1, <1>4 DEF TypeOK
<1>6. Answered' = Answered
  BY <1>5 DEF Answered, Valid
<1> QED BY <1>2, <1>3, <1>6

(* Asking, building the witness, and leaving before one's turn. *)
LEMMA WaitingImplements ==
    ASSUME Inv, NEW c \in Callers, Call(c) \/ Build(c) \/ BuildFails(c) \/ CancelWaiting(c)
    PROVE  ServiceStep
<1>1. /\ TypeOK
      /\ \A next \in Waiting \cup {"idle"} : next \notin Inside
  BY DEF Inv, Waiting, Inside, Timed, Sending
<1>2. pc[c] \in Waiting \cup {"idle"} /\ pc[c] \notin Inside
  BY <1>1 DEF Call, Build, BuildFails, CancelWaiting, Waiting
<1>3. Stage[c] = pc[c]
  BY <1>1, <1>2, StageOfCall
<1>4. CASE Call(c)
  <2>1. /\ Stage' = [Stage EXCEPT ![c] = "building"]
        /\ LiveWorkers' = LiveWorkers /\ Answered' = Answered
    BY <1>1, <1>2, <1>4, OutsideKeeps DEF Call, Waiting
  <2>2. Service!Ask(c)
    BY <2>1, <1>3, <1>4 DEF Call, Service!Ask
  <2> QED BY <2>2 DEF ServiceStep, Service!Next
<1>5. CASE Build(c)
  <2>1. /\ Stage' = [Stage EXCEPT ![c] = "queued"]
        /\ LiveWorkers' = LiveWorkers /\ Answered' = Answered
    BY <1>1, <1>2, <1>5, OutsideKeeps DEF Build, Waiting
  <2>2. Service!Arrive(c)
    BY <2>1, <1>3, <1>5 DEF Build, Service!Arrive
  <2> QED BY <2>2 DEF ServiceStep, Service!Next
<1>6. CASE BuildFails(c) \/ CancelWaiting(c)
  <2>1. /\ Stage' = [Stage EXCEPT ![c] = "idle"]
        /\ LiveWorkers' = LiveWorkers /\ Answered' = Answered
    BY <1>1, <1>2, <1>6, OutsideKeeps DEF BuildFails, CancelWaiting
  <2>2. Service!GiveUp(c)
    BY <2>1, <1>3, <1>6 DEF BuildFails, CancelWaiting, Service!GiveUp, RemoveAt, Service!RemoveAt
  <2> QED BY <2>2 DEF ServiceStep, Service!Next
<1> QED BY <1>4, <1>5, <1>6

(* A call's turn: it takes the worker there is, starts one, or is turned away. *)
LEMMA EnterImplements ==
    ASSUME Inv, Inv', NEW c \in Callers, Enter(c)
    PROVE  ServiceStep
<1>1. TypeOK /\ Admitted(c)
  BY DEF Inv, Enter, Take, Spawn, SpawnFails
<1>2. /\ procs \in [Processes -> Process] /\ held = NoWorker
      /\ \A d \in Callers : pc[d] \notin Inside
      /\ pc \in [Callers -> Inside \cup Waiting \cup {"idle"}]
  BY <1>1, AdmittedFacts
<1>3. Service!Turn(c)
  BY <1>1, <1>2, StageOfCall DEF Admitted, Service!Turn
<1>4. Answered = {}
  BY <1>2, UnservedFacts
<1>5. "starting" \in Inside /\ "header" \in Inside /\ "stopping" \in Inside /\ "idle" \notin Inside
  BY DEF Inside, Timed, Sending
<1>6. ASSUME NEW next \in {"starting", "header", "stopping"}, pc' = [pc EXCEPT ![c] = next]
      PROVE  Stage' = [Stage EXCEPT ![c] = "served"] /\ Answered' = {}
  <2>1. pc'[c] = next /\ next \in Inside /\ next # "receiving"
    BY <1>2, <1>5, <1>6
  <2> QED BY <2>1, <1>1, <1>6, StageMoves, ViewHoldsNext DEF ServiceView
<1>7. CASE Take(c)
  <2>1. /\ Succ(slot.next_request_id) # 0
    BY <1>7 DEF Take, Inv, InStep, SlotReady
  <2>2. pc' = [pc EXCEPT ![c] = "header"] /\ procs' = procs
    BY <2>1, <1>7 DEF Take
  <2>3. LiveWorkers' = LiveWorkers
    BY <2>2 DEF LiveWorkers, Running
  <2>4. Service!Serve(c)
    BY <2>2, <2>3, <1>3, <1>4, <1>6 DEF Service!Serve
  <2> QED BY <2>4 DEF ServiceStep, Service!Next
<1>8. CASE Spawn(c)
  <2>1. PICK p \in Processes :
          /\ procs' = [procs EXCEPT ![p] = Fresh]
          /\ held' = [process |-> p, next_request_id |-> 0]
    BY <1>8 DEF Spawn
  <2>2. pc' = [pc EXCEPT ![c] = "starting"] /\ pc'[c] \in Inside
    BY <1>2, <1>5, <1>8 DEF Spawn
  <2>3. LiveWorkers = {}
    BY <1>2, <1>8, UnservedFacts DEF Spawn
  <2>4. held'.process = p /\ Live(procs'[p])
    BY <2>1, <1>2 DEF Live, Fresh
  <2>5. LiveWorkers' = {p}
    BY <2>2, <2>4, ViewHoldsNext DEF ServiceView
  <2>6. Service!Serve(c)
    BY <2>2, <2>3, <2>5, <1>3, <1>4, <1>6 DEF Service!Serve
  <2> QED BY <2>6 DEF ServiceStep, Service!Next
<1>9. CASE SpawnFails(c)
  <2>1. /\ Stage' = [Stage EXCEPT ![c] = "idle"]
        /\ LiveWorkers' = LiveWorkers /\ Answered' = Answered
    BY <1>2, <1>5, <1>9, OutsideKeeps DEF SpawnFails
  <2>2. LiveWorkers = {}
    BY <1>2, <1>9, UnservedFacts DEF SpawnFails
  <2>3. Service!TurnAway(c)
    BY <2>1, <2>2, <1>3 DEF Service!TurnAway
  <2> QED BY <2>3 DEF ServiceStep, Service!Next
<1> QED BY <1>7, <1>8, <1>9 DEF Enter

(* A worker that is signalled has ended for its client. *)
LEMMA KillEnds ==
    ASSUME Inv, NEW c \in Callers, pc[c] \in Inside, Kill(held.process)
    PROVE  LiveWorkers' = {}
<1>1. /\ procs \in [Processes -> Process] /\ held.process \in Processes
      /\ \A o \in Processes \ {held.process} : Released(procs[o])
  BY OwnerFacts
<1>2. /\ StoppedState(procs'[held.process])
      /\ \A o \in Processes \ {held.process} : procs'[o] = procs[o]
  BY <1>1, KillStops
<1>3. \A p \in Processes : procs'[p].status = "running" => procs'[p].eof
  BY <1>1, <1>2 DEF StoppedState, Released
<1> QED BY <1>3 DEF LiveWorkers, Running

(* A call that fails: the worker ends at once, the call when it has waited. *)
LEMMA StopImplements ==
    ASSUME Inv, Inv', NEW c \in Callers, pc[c] \in Inside, Stop(c)
    PROVE  ServiceStep
<1>1. TypeOK /\ pc' = [pc EXCEPT ![c] = "stopping"] /\ line' = line /\ Kill(held.process)
  BY DEF Inv, Stop
<1>2. "stopping" \in Inside /\ pc'[c] = "stopping"
  BY <1>1 DEF Inside, TypeOK
<1>3. Stage' = Stage
  <2>1. Stage' = [Stage EXCEPT ![c] = "served"]
    BY <1>1, <1>2, StageMoves
  <2>2. Stage[c] = "served" /\ Stage \in [Callers -> Waiting \cup {"idle", "served"}]
    BY <1>1, StageOfCall
  <2> QED BY <2>1, <2>2
<1>4. LiveWorkers' = {}
  BY <1>1, KillEnds
<1>5. Answered' = {}
  BY <1>2, ViewHoldsNext DEF ServiceView
<1>6. Service!WorkerEnds
  BY <1>1, <1>3, <1>4, <1>5 DEF Service!WorkerEnds
<1> QED BY <1>6 DEF ServiceStep, Service!Next

(* A call that ends without a proof leaves no worker. *)
LEMMA LeaveImplements ==
    ASSUME Inv, Inv', NEW c \in Callers, pc[c] \in Inside, pc' = [pc EXCEPT ![c] = "idle"],
           line' = line, LiveWorkers' = {}
    PROVE  ServiceStep
<1>1. TypeOK /\ "idle" \notin Inside
  BY DEF Inv, Inside, Timed, Sending
<1>2. \A d \in Callers \ {c} : pc[d] \notin Inside
  BY OwnerFacts
<1>3. \A d \in Callers : pc'[d] \notin Inside
  BY <1>1, <1>2 DEF TypeOK
<1>4. Answered' = {}
  BY <1>3, ViewHoldsNext DEF ServiceView
<1>5. Stage' = [Stage EXCEPT ![c] = "idle"] /\ Stage[c] = "served"
  BY <1>1, StageMoves, StageOfCall
<1>6. Service!Fail(c)
  BY <1>4, <1>5 DEF Service!Fail
<1> QED BY <1>6 DEF ServiceStep, Service!Next

(* The handshake and the request are the call's own affair. *)
LEMMA ConverseStutters ==
    ASSUME Inv, Inv', NEW c \in Callers, ReceiveReady(c) \/ Send(c)
    PROVE  ServiceStep
<1> DEFINE h == held.process
           after == IF pc[c] = "header" THEN "body" ELSE "receiving"
           next == IF ReceiveReady(c) THEN "header" ELSE after
<1>1. TypeOK /\ pc[c] \in {"starting", "header", "body"} /\ pc[c] \in Inside /\ next \in Inside
  BY DEF Inv, ReceiveReady, Send, Inside, Timed, Sending
<1>2. /\ h \in Processes /\ procs \in [Processes -> Process] /\ held \in Worker
      /\ OwnerInStep(c)
  BY <1>1, OwnerFacts
<1>3. pc' = [pc EXCEPT ![c] = next] /\ line' = line /\ held'.process = h
  BY <1>2 DEF ReceiveReady, Send, Worker
<1>4. pc'[c] = next
  BY <1>1, <1>3 DEF TypeOK
<1>5. /\ Live(procs'[h]) <=> Live(procs[h])
      /\ procs'[h].stdout = procs[h].stdout
  <2>1. procs[h] \in Process
    BY <1>2
  <2>2. CASE ReceiveReady(c)
    BY <1>2, <2>1, <2>2 DEF ReceiveReady, Live, Process
  <2>3. CASE Send(c)
    <3>1. PICK stdin : procs' = [procs EXCEPT ![h].stdin = stdin]
      BY <2>3 DEF Send
    <3> QED BY <1>2, <2>1, <3>1 DEF Live, Process
  <2> QED BY <2>2, <2>3
<1>6. next = "receiving" => procs[h].stdout = << >>
  <2>1. SUFFICES ASSUME next = "receiving" PROVE procs[h].stdout = << >>
    OBVIOUS
  <2>2. pc[c] = "body"
    BY <2>1, <1>1 DEF ReceiveReady, Send, Sending
  <2> QED BY <2>2, <1>2 DEF OwnerInStep, BodyState, Pipes
<1> HIDE DEF h, next
<1>7. Stage' = Stage
  <2>1. Stage' = [Stage EXCEPT ![c] = "served"]
    BY <1>1, <1>3, StageMoves
  <2>2. Stage[c] = "served" /\ Stage \in [Callers -> Waiting \cup {"idle", "served"}]
    BY <1>1, StageOfCall
  <2> QED BY <2>1, <2>2
<1>8. LiveWorkers' = LiveWorkers
  BY <1>1, <1>3, <1>4, <1>5, ViewHolds, ViewHoldsNext DEF ServiceView, h
<1>9. Answered = {}
  BY <1>1, ViewHolds DEF ServiceView
<1>10. Answered' = {}
  <2>1. pc'[c] = "receiving" => ~HasAnswer(c)'
    BY <1>3, <1>4, <1>5, <1>6 DEF HasAnswer
  <2> QED BY <2>1, <1>1, <1>4, ViewHoldsNext DEF ServiceView
<1> QED BY <1>3, <1>7, <1>8, <1>9, <1>10 DEF ServiceStep

(* The call takes its proof; its worker waits for the next. *)
LEMMA ReturnImplements ==
    ASSUME Inv, Inv', NEW c \in Callers, ReceiveProof(c)
    PROVE  ServiceStep
<1> DEFINE h == held.process
<1>1. TypeOK /\ pc[c] = "receiving" /\ pc[c] \in Inside /\ "idle" \notin Inside
  BY DEF Inv, ReceiveProof, Inside, Timed, Sending
<1>2. /\ h \in Processes /\ procs \in [Processes -> Process]
      /\ \A d \in Callers \ {c} : pc[d] \notin Inside
  BY <1>1, OwnerFacts
<1>3. /\ pc' = [pc EXCEPT ![c] = "idle"] /\ line' = line
      /\ procs' = [procs EXCEPT ![h].stdout = Tail(@)]
  BY DEF ReceiveProof
<1>4. Answered = {c}
  <2>1. HasAnswer(c)
    BY DEF ReceiveProof, HasAnswer
  <2> QED BY <2>1, <1>1, ViewHolds DEF ServiceView
<1>5. Answered' = {}
  <2>1. \A d \in Callers : pc'[d] \notin Inside
    BY <1>1, <1>2, <1>3 DEF TypeOK
  <2> QED BY <2>1, ViewHoldsNext DEF ServiceView
<1>6. LiveWorkers' = LiveWorkers
  <2>1. \A p \in Processes : procs'[p].status = procs[p].status /\ procs'[p].eof = procs[p].eof
    BY <1>2, <1>3 DEF Process
  <2> QED BY <2>1 DEF LiveWorkers, Running
<1>7. Stage' = [Stage EXCEPT ![c] = "idle"] /\ Stage[c] = "served"
  BY <1>1, <1>3, StageMoves, StageOfCall
<1>8. Service!Return(c)
  BY <1>3, <1>4, <1>5, <1>6, <1>7 DEF Service!Return
<1> QED BY <1>8 DEF ServiceStep, Service!Next

(* Every step of a call is one of the service, or its own affair. *)
LEMMA ClientImplements ==
    ASSUME Inv, Inv', NEW c \in Callers, ClientStep(c)
    PROVE  ServiceStep
<1>1. CASE Call(c) \/ Build(c) \/ BuildFails(c) \/ CancelWaiting(c)
  BY <1>1, WaitingImplements
<1>2. CASE Enter(c)
  BY <1>2, EnterImplements
<1>3. CASE ReceiveReady(c) \/ Send(c)
  BY <1>3, ConverseStutters
<1>4. CASE ReceiveProof(c)
  BY <1>4, ReturnImplements
<1>5. CASE ReceiveWrongReady(c) \/ SendFails(c) \/ ReceiveEnd(c) \/ TimeOut(c)
  <2>1. Stop(c) /\ pc[c] \in Inside
    BY <1>5 DEF ReceiveWrongReady, SendFails, ReceiveEnd, TimeOut, Inside, Timed, Sending
  <2> QED BY <2>1, StopImplements
<1>6. CASE RejectAnswer(c)
  <2>1. pc[c] \in Inside
    BY <1>6 DEF RejectAnswer, Inside, Timed
  <2>2. CASE Stop(c)
    BY <2>1, <2>2, StopImplements
  <2>3. CASE ~Stop(c)
    <3>1. Kill(held.process) /\ pc' = [pc EXCEPT ![c] = "idle"] /\ line' = line
      BY <1>6, <2>3 DEF RejectAnswer
    <3> QED BY <2>1, <3>1, KillEnds, LeaveImplements
  <2> QED BY <2>2, <2>3
<1>7. CASE Stopped(c)
  <2>1. /\ pc[c] = "stopping" /\ pc[c] \in Inside
        /\ pc' = [pc EXCEPT ![c] = "idle"] /\ line' = line /\ procs' = procs
    BY <1>7 DEF Stopped, Inside
  <2>2. ~Live(procs[held.process])
    BY <2>1, OwnerFacts DEF OwnerInStep, StoppedState, Live
  <2>3. LiveWorkers = {}
    BY <2>1, <2>2, ViewHolds DEF ServiceView
  <2>4. LiveWorkers' = {}
    BY <2>1, <2>3 DEF LiveWorkers, Running
  <2> QED BY <2>1, <2>4, LeaveImplements
<1>8. CASE CancelInside(c)
  <2>1. /\ pc[c] \in Inside /\ Kill(held.process)
        /\ pc' = [pc EXCEPT ![c] = "idle"] /\ line' = line
    BY <1>8 DEF CancelInside
  <2> QED BY <2>1, KillEnds, LeaveImplements
<1> QED BY <1>1, <1>2, <1>3, <1>4, <1>5, <1>6, <1>7, <1>8 DEF ClientStep, Converse, Cancel

(* The owner drops the client while no call is under way. *)
LEMMA CloseImplements ==
    ASSUME Inv, Inv', Close
    PROVE  ServiceStep
<1>1. /\ pc' = pc /\ line' = line /\ slot' = NoWorker
      /\ \A c \in Callers : pc[c] = "idle"
  BY DEF Close
<1>2. \A c \in Callers : pc'[c] \notin Inside
  BY <1>1 DEF Inside, Timed, Sending
<1>3. Answered' = {} /\ LiveWorkers' = {}
  BY <1>1, <1>2, ViewHoldsNext DEF ServiceView
<1>4. Stage' = Stage
  BY <1>1 DEF Stage
<1>5. Service!WorkerEnds
  BY <1>1, <1>3, <1>4 DEF Service!WorkerEnds
<1> QED BY <1>5 DEF ServiceStep, Service!Next

(* The client dies: every call and every worker ends for it. *)
LEMMA CrashImplements ==
    ASSUME Inv, Inv', HostCrash
    PROVE  ServiceStep
<1>1. pc' = [c \in Callers |-> "idle"] /\ line' = << >> /\ slot' = NoWorker
  BY DEF HostCrash
<1>2. \A c \in Callers : pc'[c] = "idle" /\ pc'[c] \notin Inside
  BY <1>1 DEF Inside, Timed, Sending
<1>3. Answered' = {} /\ LiveWorkers' = {}
  BY <1>1, <1>2, ViewHoldsNext DEF ServiceView
<1>4. Stage' = [c \in Callers |-> "idle"]
  BY <1>2 DEF Stage
<1>5. Service!ClientDies
  BY <1>1, <1>3, <1>4 DEF Service!ClientDies
<1> QED BY <1>5 DEF ServiceStep, Service!Next

-----------------------------------------------------------------------------
(* What the service sees of a worker's own steps: that it has made the proof
   of the call, or that it has ended. *)

(* A worker with a living client exits, or goes on living; either way what it
   has written stays, unless it answers. *)
LEMMA LiveStep ==
    ASSUME procs \in [Processes -> Process], NEW p \in Processes, WorkerStep(p),
           Live(procs[p])
    PROVE  \/ Exit(p) /\ ~Live(procs'[p]) /\ procs'[p].stdout = procs[p].stdout
           \/ Live(procs'[p])
<1>1. procs[p] \in Process /\ procs[p].status = "running"
  BY DEF Live
<1>2. CASE Exit(p)
  BY <1>2, ExitLeaves DEF Exited, Live, Pipes
<1>3. CASE Open(p)
  <2>1. PICK ready : procs' = [procs EXCEPT ![p].main = "select", ![p].ready = ready]
    BY <1>3 DEF Open
  <2> QED BY <2>1, <1>1 DEF Live, Process
<1>4. CASE ReadPiece(p)
  BY <1>1, <1>4 DEF ReadPiece, Live, Process
<1>5. CASE ReadTorn(p)
  BY <1>1, <1>5 DEF ReadTorn, Live, Process
<1>6. CASE TakeRequest(p)
  BY <1>1, <1>6 DEF TakeRequest, Live, Process
<1>7. CASE Answer(p)
  <2>1. PICK stdout : procs' = [procs EXCEPT ![p].main = "select", ![p].job = {}, ![p].stdout = stdout]
    BY <1>7 DEF Answer
  <2> QED BY <2>1, <1>1 DEF Live, Process
<1>8. ~Die(p)
  BY <1>1 DEF Die
<1> QED
  BY <1>2, <1>3, <1>4, <1>5, <1>6, <1>7, <1>8
  DEF WorkerStep, Opening, Reader, Select, Reply, OpenFails, ReadEof, RefuseRequest,
      TakeFailure, AnswerNobody, Crash

(* A worker that has ended for its client does not live again. *)
LEMMA EndedStep ==
    ASSUME Inv, NEW p \in Processes, WorkerStep(p), ~Live(procs[p])
    PROVE  ~Live(procs'[p])
<1>1. procs \in [Processes -> Process]
  BY DEF Inv, TypeOK
<1>2. CASE procs[p].status # "running"
  BY <1>1, <1>2, DeadStep DEF Live, Gone, Fresh
<1>3. CASE procs[p].status = "running"
  <2>1. Released(procs[p])
    BY <1>3, OwnedAlive DEF Live, Inv, InStep
  <2>2. Released(procs'[p])
    BY <1>1, <2>1, ReleasedStep
  <2> QED BY <2>2 DEF Released, Live
<1> QED BY <1>2, <1>3

(* The worker of a call whose answer is in the pipe can only exit, and then
   leaves the answer there. *)
LEMMA AnsweredStep ==
    ASSUME procs \in [Processes -> Process], NEW p \in Processes, WorkerStep(p),
           NEW q \in Request, ReceivingState(procs[p], q), procs[p].stdout # << >>
    PROVE  Live(procs[p]) /\ Exit(p)
<1>1. \/ Exited(procs[p])
      \/ At(procs[p], "select", "header", Succ(q.id)) /\ procs[p].stdin = << >>
  BY DEF ReceivingState, AskedState, TakenState, Pipes
<1>2. At(procs[p], "select", "header", Succ(q.id)) /\ procs[p].stdin = << >>
  BY <1>1, DeadStep DEF Exited
<1> QED BY <1>2, StalledStep DEF At, Live

(* Every step of a worker. *)
LEMMA WorkerImplements ==
    ASSUME Inv, Inv', NEW p \in Processes, WorkerAlone(p)
    PROVE  ServiceStep
<1>1. /\ procs \in [Processes -> Process] /\ WorkerStep(p)
      /\ pc' = pc /\ line' = line /\ slot' = slot /\ held' = held
  BY DEF Inv, TypeOK, WorkerAlone
<1>2. \A o \in Processes \ {p} : procs'[o] = procs[o]
  BY <1>1, WorkerType
<1>3. Stage' = Stage
  BY <1>1 DEF Stage
<1>4. LiveWorkers = {o \in Processes : Live(procs[o])} /\ LiveWorkers' = {o \in Processes : Live(procs'[o])}
  BY DEF LiveWorkers, Running, Live
<1>5. LiveWorkers \subseteq {p} \/ ~Live(procs[p])
  <2>1. CASE \A c \in Callers : pc[c] \notin Inside
    BY <2>1, <1>4, ViewHolds DEF ServiceView
  <2>2. CASE \E c \in Callers : pc[c] \in Inside
    BY <2>2, <1>4, ViewHolds DEF ServiceView
  <2> QED BY <2>1, <2>2
<1>6. \/ LiveWorkers' = LiveWorkers
      \/ LiveWorkers' = {} /\ Exit(p) /\ procs'[p].stdout = procs[p].stdout
  <2>1. CASE ~Live(procs[p])
    BY <2>1, <1>1, <1>2, <1>4, EndedStep
  <2>2. CASE Live(procs[p])
    BY <2>2, <1>1, <1>2, <1>4, <1>5, LiveStep
  <2> QED BY <2>1, <2>2
<1>7. ASSUME Answered' = Answered
      PROVE  ServiceStep
  <2>1. CASE LiveWorkers' = LiveWorkers
    BY <2>1, <1>1, <1>3, <1>7 DEF ServiceStep
  <2>2. CASE LiveWorkers' = {}
    <3>1. Service!WorkerEnds
      BY <2>2, <1>1, <1>3, <1>7 DEF Service!WorkerEnds
    <3> QED BY <3>1 DEF ServiceStep, Service!Next
  <2> QED BY <2>1, <2>2, <1>6
<1>8. CASE \A c \in Callers : pc[c] # "receiving"
  BY <1>1, <1>7, <1>8 DEF Answered
<1>9. ASSUME NEW c \in Callers, pc[c] = "receiving"
      PROVE  ServiceStep
  <2>1. pc[c] \in Inside /\ pc'[c] = "receiving" /\ pc'[c] \in Inside
    BY <1>1, <1>9 DEF Inside, Timed
  <2>2. /\ held.process \in Processes /\ OwnRequest(c) \in Request
        /\ ReceivingState(procs[held.process], OwnRequest(c))
    BY <1>9, <2>1, OwnerFacts DEF OwnerInStep
  <2>3. /\ Answered = IF HasAnswer(c) THEN {c} ELSE {}
        /\ Answered' = IF HasAnswer(c)' THEN {c} ELSE {}
        /\ LiveWorkers = IF Live(procs[held.process]) THEN {held.process} ELSE {}
    BY <1>9, <2>1, ViewHolds, ViewHoldsNext DEF ServiceView
  <2>4. procs'[held.process].stdout = procs[held.process].stdout => Answered' = Answered
    BY <2>3, <1>1 DEF HasAnswer, Valid
  <2>5. CASE Answered' = Answered
    BY <2>5, <1>7
  <2>6. CASE Answered' # Answered
    <3>1. procs'[held.process].stdout # procs[held.process].stdout
      BY <2>4, <2>6
    <3>2. held.process = p
      BY <3>1, <2>2, <1>2
    <3>3. ~Exit(p)
      BY <3>1, <3>2, <1>1, ExitLeaves DEF Pipes
    <3>4. procs[p].stdout = << >>
      BY <3>2, <3>3, <2>2, <1>1, AnsweredStep
    <3>5. Answered = {} /\ Answered' = {c}
      BY <3>2, <3>4, <2>3, <2>6 DEF HasAnswer
    <3>6. LiveWorkers' = LiveWorkers
      BY <3>3, <1>6
    <3>7. LiveWorkers # {}
      <4>1. procs[p].status = "running"
        BY <3>1, <3>2, <3>4, <1>1, DeadStep DEF Gone, Fresh
      <4>2. Live(procs[p])
        BY <4>1, <3>2, <2>2
        DEF ReceivingState, AskedState, TakenState, Exited, At, Live
      <4> QED BY <4>2, <3>2, <2>3
    <3>8. Stage[c] = "served"
      BY <2>1, StageOfCall DEF Inv
    <3>9. Service!Answer(c)
      BY <3>5, <3>6, <3>7, <3>8, <1>1, <1>3 DEF Service!Answer
    <3> QED BY <3>9 DEF ServiceStep, Service!Next
  <2> QED BY <2>5, <2>6
<1> QED BY <1>8, <1>9

-----------------------------------------------------------------------------
(* Before the first call the service is at rest. *)
LEMMA InitImplements == Init => Service!Init
<1> SUFFICES ASSUME Init PROVE Service!Init
  OBVIOUS
<1>1. Inv /\ slot = NoWorker /\ line = << >> /\ \A c \in Callers : pc[c] = "idle"
  BY InitInStep DEF Init
<1>2. "idle" \notin Inside
  BY DEF Inside, Timed, Sending
<1>3. Answered = {} /\ LiveWorkers = {}
  BY <1>1, <1>2, UnservedFacts
<1>4. Stage = [c \in Callers |-> "idle"]
  BY <1>1, <1>2 DEF Stage
<1> QED BY <1>1, <1>3, <1>4 DEF Service!Init

(* client/mod.rs: however calls are dropped at their awaits, whatever becomes
   of the worker and when the client dies, Veil::prove only ever makes the
   steps of the service: calls in order of arrival, one worker at most, a
   proof only of the call's own statement, and no worker kept after a call
   that did not get one. *)
THEOREM ClientImplementsService == Spec => ImplementsService
<1>1. ASSUME Inv, Inv', [Next]_vars
      PROVE  ServiceStep
  <2>1. CASE UNCHANGED vars
    BY <2>1 DEF vars, ServiceStep, Stage, LiveWorkers, Running, Answered, Valid
  <2>2. CASE Next
    BY <1>1, <2>2, ClientImplements, WorkerImplements, CloseImplements, CrashImplements DEF Next
  <2> QED BY <1>1, <2>1, <2>2
<1>2. Inv /\ Inv' /\ [Next]_vars => [Service!Next]_<<Stage, line, LiveWorkers, Answered>>
  BY <1>1 DEF ServiceStep
<1> QED BY <1>2, InitImplements, AlwaysInStep, PTL DEF Spec, ImplementsService, Service!Spec

=============================================================================
