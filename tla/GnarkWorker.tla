----------------------------- MODULE GnarkWorker -----------------------------
(***************************************************************************)
(* The gnark worker process: its life from openProver to exit, and the two *)
(* goroutines of serve.  The reader takes frames off stdin and offers each *)
(* request over an unbuffered channel; the main loop selects between an    *)
(* offered request and the reader's failure, proves, and answers.  Because *)
(* the reader keeps reading while the main loop proves, it is the one that *)
(* learns that the parent is gone.                                         *)
(*                                                                         *)
(* A frame is two reads, its header and its body.  A frame that its writer *)
(* did not finish leaves residue: stdin then ends in the middle of a read, *)
(* which Go reports as ErrUnexpectedEOF and not as EOF.                    *)
(***************************************************************************)
EXTENDS Naturals, Sequences

CONSTANTS
    Callers,    \* tasks that ask for proofs
    Processes,  \* process identifiers, reused once their process is gone
    IdModulus   \* request IDs are unsigned integers below this (2^64)

ASSUME IdAssumption == IdModulus \in Nat /\ IdModulus > 2

VARIABLE procs  \* the processes, with the pipes to and from each

Ids == 0 .. IdModulus - 1

(* Seeded fault: the counters are wider than the field that carries them. *)
SuccUnbounded(id) == id + 1

(* wrapping_add(1), and Go's ++ *)
Succ(id) == (id + 1) % IdModulus

Request  == [id : Ids, call : Callers]
Response == [id : Ids, call : Callers, ok : BOOLEAN]
Piece    == [piece : {"header", "body"}, request : Request]
Ready    == [matches : BOOLEAN]

Process ==
    [status : {"running", "killed", "exited"},
     main   : {"opening", "select", "proving"},
     reader : {"header", "body", "offer", "failed"},
     ready  : SUBSET Ready,         \* the Ready message, while in stdout
     stdin  : Seq(Piece),
     stdout : Seq(Response),
     next   : Ids,                  \* the ID serve expects
     read   : SUBSET Request,       \* the request the reader holds
     job    : SUBSET Request,       \* the request being proved
     eof    : BOOLEAN,              \* the parent is gone: stdin and stdout are closed
     torn   : BOOLEAN]              \* and left an unfinished frame

Fresh ==
    [status |-> "running", main |-> "opening", reader |-> "header",
     ready |-> {}, stdin |-> << >>, stdout |-> << >>, next |-> 1,
     read |-> {}, job |-> {}, eof |-> FALSE, torn |-> FALSE]

Gone   == [Fresh EXCEPT !.status = "exited"]
Killed == [Fresh EXCEPT !.status = "killed"]

Running(p) == procs[p].status = "running"
Serving(p) == Running(p) /\ procs[p].main # "opening"

(* An exited process leaves behind what it had written and nobody has read. *)
Exit(p) ==
    LET unread == [Gone EXCEPT !.ready = procs[p].ready, !.stdout = procs[p].stdout] IN
    procs' = [procs EXCEPT ![p] = unread]

-----------------------------------------------------------------------------
(* openProver, and then the Ready message.  Whether the identity in it is  *)
(* the one the client wants depends on the executable installed.           *)

Open(p) ==
    /\ Running(p) /\ procs[p].main = "opening"
    /\ \E matches \in BOOLEAN :
          procs' = [procs EXCEPT ![p].main = "select",
                                 ![p].ready = IF procs[p].eof THEN {} ELSE {[matches |-> matches]}]

OpenFails(p) ==
    /\ Running(p) /\ procs[p].main = "opening"
    /\ Exit(p)

-----------------------------------------------------------------------------
(* The reader goroutine. *)

ReadPiece(p) ==
    /\ Serving(p) /\ procs[p].reader \in {"header", "body"}
    /\ procs[p].stdin # << >>
    /\ LET piece == Head(procs[p].stdin) IN
       procs' = [procs EXCEPT
                    ![p].stdin  = Tail(@),
                    ![p].reader = IF @ = "header" THEN "body" ELSE "offer",
                    ![p].read   = IF procs[p].reader = "header" THEN {} ELSE {piece.request}]

AtEnd(p) ==
    /\ Serving(p) /\ procs[p].reader \in {"header", "body"}
    /\ procs[p].stdin = << >> /\ procs[p].eof

(* Seeded fault: no parentGone, the main loop is told when it next selects. *)
ReadEofQuietly(p) == AtEnd(p) /\ ~procs[p].torn /\ procs' = [procs EXCEPT ![p].reader = "failed"]

(* EOF between two reads: parentGone exits the process at once. *)
ReadEof(p) == AtEnd(p) /\ ~procs[p].torn /\ Exit(p)

(* The stream ends inside a read: the error is left for the main loop. *)
ReadTorn(p) == AtEnd(p) /\ procs[p].torn /\ procs' = [procs EXCEPT ![p].reader = "failed"]

-----------------------------------------------------------------------------
(* The main loop. *)

Offered(p) == Serving(p) /\ procs[p].main = "select" /\ procs[p].reader = "offer"

(* Seeded fault: the ID counter is left to wrap. *)
RefusesWrongId(p, request) == request.id # procs[p].next

(* The wrong ID, or the last one there is. *)
Refuses(p, request) == request.id # procs[p].next \/ Succ(procs[p].next) = 0

TakeRequest(p) ==
    /\ Offered(p)
    /\ \E request \in procs[p].read :
          /\ ~Refuses(p, request)
          /\ procs' = [procs EXCEPT ![p].main = "proving", ![p].job = {request},
                                    ![p].reader = "header", ![p].read = {},
                                    ![p].next = Succ(@)]

RefuseRequest(p) ==
    /\ Offered(p)
    /\ \E request \in procs[p].read : Refuses(p, request)
    /\ Exit(p)

TakeFailure(p) ==
    /\ Serving(p) /\ procs[p].main = "select" /\ procs[p].reader = "failed"
    /\ Exit(p)

(* The proof, verified, or PROVE_FAILED. *)
Answer(p) ==
    /\ Serving(p) /\ procs[p].main = "proving" /\ ~procs[p].eof
    /\ \E request \in procs[p].job, ok \in BOOLEAN :
          procs' = [procs EXCEPT
                       ![p].main = "select", ![p].job = {},
                       ![p].stdout = Append(@, [id |-> request.id, call |-> request.call, ok |-> ok])]

(* Nobody reads the answer: the write fails, and serve returns. *)
AnswerNobody(p) ==
    /\ Serving(p) /\ procs[p].main = "proving" /\ procs[p].eof
    /\ Exit(p)

-----------------------------------------------------------------------------
(* What ends a process from outside: a crash at any point, or the signal of *)
(* start_kill being delivered.                                             *)

Crash(p) == Running(p) /\ Exit(p)

Die(p) == procs[p].status = "killed" /\ procs' = [procs EXCEPT ![p] = Gone]

-----------------------------------------------------------------------------
Opening(p) == Open(p) \/ OpenFails(p)
Reader(p)  == ReadPiece(p) \/ ReadEof(p) \/ ReadTorn(p)
Select(p)  == TakeRequest(p) \/ RefuseRequest(p) \/ TakeFailure(p)
Reply(p)   == Answer(p) \/ AnswerNobody(p)

WorkerStep(p) == Opening(p) \/ Reader(p) \/ Select(p) \/ Reply(p) \/ Crash(p) \/ Die(p)

=============================================================================
