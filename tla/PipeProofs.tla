----------------------------- MODULE PipeProofs -----------------------------
(***************************************************************************)
(* What a call of witnessFromBytes leaves behind and what it returns, for  *)
(* every length of a witness and every size of a pipe.                     *)
(***************************************************************************)
EXTENDS WitnessPipe, TLAPS

(* Who has what open at each step of the caller. *)
Ends ==
    /\ main \in {"start", "open", "reading", "close", "wait", "returned"}
    /\ main = "start" => writer = "none"
    /\ main \in {"open", "close"} => readers \subseteq {"ours"}
    /\ main = "reading" => readers \subseteq {"ours", "theirs"}
    /\ main \in {"start", "wait", "returned"} => readers = {}
    /\ main = "returned" => writer # "writing"

(* The goroutine is content only with everything, the caller only if it is. *)
Whole ==
    /\ writer = "wrote" => written = size
    /\ result = "ok" => writer = "wrote"

PipeInv == Ends /\ Whole

(* A call has no state before it starts. *)
LEMMA PipeInit == Init => PipeInv
BY DEF Init, PipeInv, Ends, Whole

(* Each step of either side keeps the invariant. *)
LEMMA PipeNext == PipeInv /\ [Next]_vars => PipeInv'
<1> SUFFICES ASSUME PipeInv, [Next]_vars PROVE PipeInv'
  OBVIOUS
<1> USE DEF PipeInv, Ends, Whole
<1>1. CASE Write
  BY <1>1 DEF Write
<1>2. CASE WriteEnds
  BY <1>2 DEF WriteEnds
<1>3. CASE Start
  BY <1>3 DEF Start
<1>4. CASE OpenByName
  BY <1>4 DEF OpenByName
<1>5. CASE Take
  BY <1>5 DEF Take
<1>6. CASE GetWitnessEnds
  BY <1>6 DEF GetWitnessEnds
<1>7. CASE CloseReader
  BY <1>7 DEF CloseReader
<1>8. CASE Return
  BY <1>8 DEF Return, MayReturn, Done, Outcome
<1>9. CASE UNCHANGED vars
  BY <1>9 DEF vars
<1> QED BY <1>1, <1>2, <1>3, <1>4, <1>5, <1>6, <1>7, <1>8, <1>9 DEF Next, Goroutine, Caller

(* Both in every behaviour. *)
THEOREM PipeCorrect == Spec => []PipeInv
BY PipeInit, PipeNext, PTL DEF Spec

(* A returned call has no goroutine that still writes and no open descriptor. *)
THEOREM NothingIsLeft == Spec => []NothingLeft
<1>1. PipeInv => NothingLeft
  BY DEF PipeInv, Ends, NothingLeft
<1> QED BY <1>1, PipeCorrect, PTL

(* A witness is used only if every byte of it went through the pipe. *)
THEOREM OnlyWholeUsed == Spec => []OnlyWhole
<1>1. PipeInv => OnlyWhole
  BY DEF PipeInv, Whole, OnlyWhole
<1> QED BY <1>1, PipeCorrect, PTL

=============================================================================
