----------------------------- MODULE WitnessPipe -----------------------------
(***************************************************************************)
(* How the worker hands a witness to Sunspot, which reads files only: a    *)
(* pipe that a goroutine fills while GetWitness opens its reading end once *)
(* more by name.  The witness may be larger than the pipe, and GetWitness  *)
(* may give up, or be content, before it has read everything.  It closes   *)
(* what it opened.  A write fails when no reading end is open, and a read  *)
(* ends when the pipe is empty and its writing end closed.                 *)
(***************************************************************************)
EXTENDS Naturals

CONSTANTS
    MaxBytes,  \* the longest witness
    PipeSize   \* bytes a pipe holds

ASSUME PipeAssumption == MaxBytes \in Nat /\ PipeSize \in Nat \ {0}

VARIABLES
    size,      \* len(encoded)
    written,   \* bytes the goroutine has put into the pipe
    taken,     \* bytes GetWitness has taken out of it
    writer,    \* the goroutine: "none", "writing", "wrote", "broke": its send on done
    readers,   \* open reading ends: "ours", "theirs"
    main,      \* the caller: "start", "open", "reading", "close", "wait", "returned"
    read,      \* what GetWitness came to: "ok" or "err"
    result     \* what the caller returned: "none", "ok" or "err"

vars == <<size, written, taken, writer, readers, main, read, result>>

Init ==
    /\ size \in 0 .. MaxBytes
    /\ written = 0 /\ taken = 0
    /\ writer = "none" /\ readers = {}
    /\ main = "start" /\ read = "err" /\ result = "none"

Done == writer \in {"wrote", "broke"}

-----------------------------------------------------------------------------
(* The goroutine: io.Copy, writer.Close, done. *)

Write ==
    /\ writer = "writing" /\ written < size
    /\ readers # {} /\ written - taken < PipeSize
    /\ written' = written + 1
    /\ UNCHANGED <<size, taken, writer, readers, main, read, result>>

WriteEnds ==
    /\ writer = "writing"
    /\ writer' = IF written = size THEN "wrote" ELSE "broke"
    /\ written = size \/ readers = {}
    /\ UNCHANGED <<size, written, taken, readers, main, read, result>>

Goroutine == Write \/ WriteEnds

-----------------------------------------------------------------------------
(* GetWitness, in the caller's goroutine. *)

OpenByName ==
    /\ main = "open"
    /\ \/ main' = "reading" /\ readers' = readers \cup {"theirs"}
       \/ main' = "close" /\ UNCHANGED readers
    /\ UNCHANGED <<size, written, taken, writer, read, result>>

Take ==
    /\ main = "reading" /\ taken < written
    /\ taken' = taken + 1
    /\ UNCHANGED <<size, written, writer, readers, main, read, result>>

(* It ends at the end of the pipe, at an error of its own, or content with all
   but the last byte. *)
GetWitnessEnds ==
    /\ main = "reading"
    /\ read' \in IF taken + 1 >= size THEN {"ok", "err"} ELSE {"err"}
    /\ main' = "close" /\ readers' = readers \ {"theirs"}
    /\ UNCHANGED <<size, written, taken, writer, result>>

-----------------------------------------------------------------------------
(* witnessFromBytes around it. *)

Start ==
    /\ main = "start"
    /\ \/ main' = "open" /\ writer' = "writing" /\ readers' = {"ours"} /\ UNCHANGED result
       \/ main' = "returned" /\ result' = "err" /\ UNCHANGED <<writer, readers>>
    /\ UNCHANGED <<size, written, taken, read>>

(* Seeded fault: the goroutine is waited for before the pipe is closed. *)
CloseReaderAfterDone ==
    /\ main = "close" /\ Done
    /\ main' = "wait" /\ readers' = readers \ {"ours"}
    /\ UNCHANGED <<size, written, taken, writer, read, result>>

CloseReader ==
    /\ main = "close"
    /\ main' = "wait" /\ readers' = readers \ {"ours"}
    /\ UNCHANGED <<size, written, taken, writer, read, result>>

(* Seeded fault: a failed read is returned at once. *)
MayReturnOnError == Done \/ read = "err"

MayReturn == Done

(* Seeded fault: what the goroutine sends is received and dropped. *)
OutcomeOfRead == read

Outcome == IF read = "ok" /\ writer = "wrote" THEN "ok" ELSE "err"

Return ==
    /\ main = "wait" /\ MayReturn
    /\ main' = "returned" /\ result' = Outcome
    /\ UNCHANGED <<size, written, taken, writer, readers, read>>

Caller == Start \/ OpenByName \/ Take \/ GetWitnessEnds \/ CloseReader \/ Return

Next == Goroutine \/ Caller

(* Both goroutines are scheduled; GetWitness reads what there is and ends. *)
Spec == Init /\ [][Next]_vars /\ WF_vars(Goroutine) /\ WF_vars(Caller) /\ WF_vars(GetWitnessEnds)

-----------------------------------------------------------------------------
(* However early GetWitness stops and however much is left to write, the call
   returns: neither side waits for the other. *)
CallReturns == <>(main = "returned")

(* A worker serves one request after another: a call leaves no goroutine and no
   descriptor of the pipe behind. *)
NothingLeft == main = "returned" => writer # "writing" /\ readers = {}

(* A witness is used only if all of it went through the pipe. *)
OnlyWhole == result = "ok" => written = size

=============================================================================
