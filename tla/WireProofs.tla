----------------------------- MODULE WireProofs -----------------------------
(***************************************************************************)
(* Proofs about Wire, for words of any width over any field: no element is *)
(* spent twice however it is written, an instruction is executed only      *)
(* where and as its proof was bound, and what the SDK builds is accepted.  *)
(***************************************************************************)
EXTENDS Wire, FiniteSetTheorems, WellFoundedInduction, TLAPS

(* The history and the records are what they look like. *)
LogInv ==
    /\ executed \in Seq(Range(executed))
    /\ records = [d \in Deployments |-> records[d]]

(* One more execution. *)
LEMMA AppendLog ==
    ASSUME NEW log, log \in Seq(Range(log)), NEW e
    PROVE  /\ Append(log, e) \in Seq(Range(Append(log, e)))
           /\ DOMAIN Append(log, e) = DOMAIN log \cup {Len(log) + 1}
           /\ \A k \in DOMAIN log : Append(log, e)[k] = log[k]
           /\ Append(log, e)[Len(log) + 1] = e
           /\ Len(log) + 1 \notin DOMAIN log
<1> DEFINE S == Range(log) \cup {e}
<1>1. log \in Seq(S) /\ e \in S
  BY DEF Range
<1>2. Append(log, e) \in Seq(S) /\ Len(Append(log, e)) = Len(log) + 1
  BY <1>1
<1>3. DOMAIN log = 1 .. Len(log) /\ Len(log) \in Nat
  BY <1>1
<1>4. DOMAIN Append(log, e) = 1 .. Len(log) + 1
  BY <1>2
<1>5. \A k \in DOMAIN log : Append(log, e)[k] = log[k]
  BY <1>1, <1>3
<1>6. Append(log, e)[Len(log) + 1] = e
  BY <1>1
<1>7. Append(log, e) \in Seq(Range(Append(log, e)))
  <2>1. PICK new : new = Append(log, e)
    OBVIOUS
  <2>2. /\ new \in [1 .. Len(new) -> S] /\ Len(new) \in Nat
        /\ \A k \in 1 .. Len(new) : new[k] \in Range(new)
    <3>1. new \in Seq(S)
      BY <2>1, <1>2
    <3>2. DOMAIN new = 1 .. Len(new)
      BY <3>1
    <3> QED BY <3>1, <3>2 DEF Range
  <2>3. new \in [1 .. Len(new) -> Range(new)]
    BY <2>2
  <2>4. new \in Seq(Range(new))
    BY <2>2, <2>3
  <2> QED BY <2>1, <2>4
<1> QED BY <1>3, <1>4, <1>5, <1>6, <1>7

-----------------------------------------------------------------------------
(* An element has one canonical word, and its record is found by that word. *)

(* A nullifier of an execution is canonical and on record. *)
SpentWord(e, s) ==
    /\ IsCanonicalField(e.args.nullifiers[s])
    /\ NullifierAddress(Config[e.deployment], e.args.nullifiers[s]) \in records[e.deployment]

(* The inductive invariant behind ElementSpentOnce. *)
SpentInv ==
    /\ LogInv
    /\ \A k \in DOMAIN executed :
          /\ executed[k].deployment \in Deployments
          /\ \A s \in Slots : SpentWord(executed[k], s)
    /\ ElementSpentOnce

(* What an executed instruction leaves behind. *)
Spends(d, e) ==
    /\ d \in Deployments /\ e.deployment = d
    /\ \A s \in Slots :
          LET address == NullifierAddress(Config[d], e.args.nullifiers[s]) IN
          /\ IsCanonicalField(e.args.nullifiers[s])
          /\ address \notin records[d] /\ address \in records'[d]
    /\ e.args.nullifiers[1] # e.args.nullifiers[2]
    /\ executed' = Append(executed, e)
    /\ \A c \in Deployments : records[c] \subseteq records'[c]
    /\ LogInv'

LEMMA TransactSpends ==
    ASSUME LogInv, NEW d \in Deployments, NEW instruction, Transact(d, instruction)
    PROVE  \E e : Spends(d, e)
<1> DEFINE args == Decoded(instruction.data)
           accounts == instruction.accounts
           e == [deployment |-> d, proof |-> args.proof, args |-> args, account |-> accounts[7]]
<1> HIDE DEF args
<1>1. /\ AccountsValid(d, accounts, args) /\ ValidArguments(accounts, args)
      /\ records' = [records EXCEPT ![d] = @ \cup {accounts[5], accounts[6]}]
      /\ executed' = Append(executed, e)
  BY DEF Transact, Accepts, args
<1>2. /\ records = [c \in Deployments |-> records[c]]
      /\ executed \in Seq(Range(executed))
  BY DEF LogInv
<1>3. /\ records'[d] = records[d] \cup {accounts[5], accounts[6]}
      /\ \A c \in Deployments : records[c] \subseteq records'[c]
      /\ records' = [c \in Deployments |-> records'[c]]
  BY <1>1, <1>2
<1>4. \A s \in Slots :
         LET address == NullifierAddress(Config[d], args.nullifiers[s]) IN
         address \notin records[d] /\ address \in records'[d]
  <2> SUFFICES ASSUME NEW s \in Slots
               PROVE /\ NullifierAddress(Config[d], args.nullifiers[s]) \notin records[d]
                     /\ NullifierAddress(Config[d], args.nullifiers[s]) \in records'[d]
    OBVIOUS
  <2>1. /\ accounts[4 + s] = NullifierAddress(Config[d], args.nullifiers[s])
        /\ accounts[4 + s] \notin records[d]
    BY <1>1 DEF AccountsValid
  <2>2. 4 + s = 5 \/ 4 + s = 6
    BY DEF Slots
  <2>3. accounts[4 + s] \in {accounts[5], accounts[6]}
    BY <2>2
  <2> QED BY <1>3, <2>1, <2>3
<1>5. /\ \A s \in Slots : IsCanonicalField(args.nullifiers[s])
      /\ args.nullifiers[1] # args.nullifiers[2]
  BY <1>1 DEF ValidArguments, Canonical
<1>6. LogInv'
  BY <1>1, <1>2, <1>3, AppendLog DEF LogInv
<1>7. e.deployment = d /\ e.args = args
  OBVIOUS
<1> HIDE DEF e
<1>8. Spends(d, e)
  BY <1>1, <1>3, <1>4, <1>5, <1>6, <1>7 DEF Spends
<1> QED BY <1>8

(* Two words for one element are not both canonical. *)
LEMMA CanonicalIsUnique ==
    ASSUME NEW v, NEW w, IsCanonicalField(v), IsCanonicalField(w), ModOrder(v) = ModOrder(w)
    PROVE  v = w
BY DEF IsCanonicalField

LEMMA SpentTransact ==
    ASSUME SpentInv, NEW d \in Deployments, NEW e, Spends(d, e)
    PROVE  SpentInv'
<1>1. /\ executed \in Seq(Range(executed))
      /\ \A k \in DOMAIN executed : /\ executed[k].deployment \in Deployments
                                    /\ \A s \in Slots : SpentWord(executed[k], s)
      /\ ElementSpentOnce
  BY DEF SpentInv, LogInv
<1>2. PICK n : n = Len(executed) + 1
  OBVIOUS
<1>3. /\ DOMAIN executed' = DOMAIN executed \cup {n}
      /\ \A k \in DOMAIN executed : executed'[k] = executed[k]
      /\ executed'[n] = e /\ n \notin DOMAIN executed
  BY <1>1, <1>2, AppendLog DEF Spends
<1>4. ASSUME NEW k \in DOMAIN executed'
      PROVE  /\ executed'[k].deployment \in Deployments
             /\ \A s \in Slots :
                   /\ IsCanonicalField(executed'[k].args.nullifiers[s])
                   /\ NullifierAddress(Config[executed'[k].deployment],
                                       executed'[k].args.nullifiers[s])
                        \in records'[executed'[k].deployment]
  <2>1. CASE k = n
    BY <2>1, <1>3 DEF Spends
  <2>2. CASE k \in DOMAIN executed
    <3>1. PICK f : f = executed[k] /\ f = executed'[k]
      BY <2>2, <1>3
    <3>2. f.deployment \in Deployments /\ \A s \in Slots : SpentWord(f, s)
      BY <2>2, <3>1, <1>1
    <3>3. records[f.deployment] \subseteq records'[f.deployment]
      BY <3>2 DEF Spends
    <3> QED BY <3>1, <3>2, <3>3 DEF SpentWord
  <2> QED BY <1>3, <2>1, <2>2
<1>5. \A k \in DOMAIN executed :
         executed[k].deployment = d => NullifierValues(executed[k]) \cap NullifierValues(e) = {}
  <2> SUFFICES ASSUME NEW k \in DOMAIN executed, executed[k].deployment = d,
                      NEW s \in Slots, NEW t \in Slots,
                      ModOrder(executed[k].args.nullifiers[s]) = ModOrder(e.args.nullifiers[t])
               PROVE FALSE
    BY DEF NullifierValues
  <2>1. SpentWord(executed[k], s)
    BY <1>1
  <2>2. executed[k].args.nullifiers[s] = e.args.nullifiers[t]
    BY <2>1, CanonicalIsUnique DEF SpentWord, Spends
  <2>3. NullifierAddress(Config[d], e.args.nullifiers[t]) \in records[d]
    BY <2>1, <2>2 DEF SpentWord
  <2> QED BY <2>3 DEF Spends
<1>6. Cardinality(NullifierValues(e)) = 2
  <2>1. NullifierValues(e) = {ModOrder(e.args.nullifiers[1]), ModOrder(e.args.nullifiers[2])}
    BY DEF NullifierValues, Slots
  <2>2. 1 \in Slots /\ 2 \in Slots
    BY DEF Slots
  <2>3. ModOrder(e.args.nullifiers[1]) # ModOrder(e.args.nullifiers[2])
    BY <2>2, CanonicalIsUnique DEF Spends
  <2>4. \A a, b : a # b => Cardinality({a, b}) = 2
    <3> SUFFICES ASSUME NEW a, NEW b, a # b PROVE Cardinality({a, b}) = 2
      OBVIOUS
    <3>1. IsFiniteSet({a}) /\ Cardinality({a}) = 1
      BY FS_Singleton
    <3>2. Cardinality({a} \cup {b}) = 2
      BY <3>1, FS_AddElement
    <3>3. {a} \cup {b} = {a, b}
      OBVIOUS
    <3> QED BY <3>2, <3>3
  <2>5. PICK a, b : /\ a = ModOrder(e.args.nullifiers[1]) /\ b = ModOrder(e.args.nullifiers[2])
    OBVIOUS
  <2> QED BY <2>1, <2>3, <2>4, <2>5
<1>7. ElementSpentOnce'
  <2> SUFFICES ASSUME NEW i \in DOMAIN executed', NEW j \in DOMAIN executed'
               PROVE /\ i # j /\ executed'[i].deployment = executed'[j].deployment
                          => NullifierValues(executed'[i]) \cap NullifierValues(executed'[j]) = {}
                     /\ Cardinality(NullifierValues(executed'[i])) = 2
    BY DEF ElementSpentOnce, NullifierValues
  <2>1. \A k \in DOMAIN executed : Cardinality(NullifierValues(executed[k])) = 2
    BY <1>1 DEF ElementSpentOnce
  <2>2. Cardinality(NullifierValues(executed'[i])) = 2
    BY <1>3, <1>6, <2>1
  <2>3. ASSUME i # j, executed'[i].deployment = executed'[j].deployment
        PROVE  NullifierValues(executed'[i]) \cap NullifierValues(executed'[j]) = {}
    <3>1. CASE i = n
      BY <3>1, <2>3, <1>3, <1>5 DEF Spends
    <3>2. CASE j = n
      BY <3>2, <2>3, <1>3, <1>5 DEF Spends
    <3>3. CASE i # n /\ j # n
      <4>1. i \in DOMAIN executed /\ j \in DOMAIN executed
        BY <3>3, <1>3
      <4> QED BY <4>1, <2>3, <1>1, <1>3 DEF ElementSpentOnce
    <3> QED BY <3>1, <3>2, <3>3
  <2> QED BY <2>2, <2>3
<1>8. LogInv'
  BY DEF Spends
<1> QED BY <1>4, <1>7, <1>8 DEF SpentInv, SpentWord

LEMMA SpentInit == Init => SpentInv
<1> SUFFICES ASSUME Init PROVE SpentInv
  OBVIOUS
<1>1. executed = << >> /\ records = [d \in Deployments |-> {}]
  BY DEF Init
<1>2. executed \in Seq(Range(executed)) /\ DOMAIN executed = {}
  BY <1>1
<1> QED BY <1>1, <1>2 DEF SpentInv, LogInv, ElementSpentOnce

LEMMA SpentNext == SpentInv /\ [Next]_vars => SpentInv'
<1> SUFFICES ASSUME SpentInv, [Next]_vars PROVE SpentInv'
  OBVIOUS
<1>1. ASSUME UNCHANGED <<records, executed>> PROVE SpentInv'
  <2>1. LogInv' /\ ElementSpentOnce'
    BY <1>1 DEF SpentInv, LogInv, ElementSpentOnce
  <2> QED BY <1>1, <2>1 DEF SpentInv, SpentWord
<1>2. CASE DoProve
  BY <1>1, <1>2 DEF DoProve, Prove
<1>3. CASE DoTransact
  <2>1. PICK d \in Deployments : \E instruction : Transact(d, instruction)
    BY <1>3 DEF DoTransact
  <2>2. PICK instruction : Transact(d, instruction)
    BY <2>1
  <2>3. \E e : Spends(d, e)
    BY <2>2, TransactSpends DEF SpentInv
  <2> QED BY <2>3, SpentTransact
<1>4. CASE UNCHANGED vars
  BY <1>1, <1>4 DEF vars
<1> QED BY <1>2, <1>3, <1>4 DEF Next

(* No element is recorded twice in a pool, in whatever words it comes, and each
   executed transaction records two, for every width and field. *)
THEOREM ElementsSpentOnce == Spec => []ElementSpentOnce
<1>1. Spec => []SpentInv
  BY SpentInit, SpentNext, PTL DEF Spec
<1>2. SpentInv => ElementSpentOnce
  BY DEF SpentInv
<1> QED BY <1>1, <1>2, PTL

-----------------------------------------------------------------------------
(* Strings put together from parts. *)

(* A is how Z begins. *)
Begins(A, Z) == Len(A) <= Len(Z) /\ \A i \in 1 .. Len(A) : Z[i] = A[i]

LEMMA BeginsSelf == ASSUME NEW S, NEW A \in Seq(S) PROVE Begins(A, A)
BY DEF Begins

LEMMA BeginsMore ==
    ASSUME NEW S, NEW A \in Seq(S), NEW B \in Seq(S), NEW Z, Begins(A \o B, Z)
    PROVE  Begins(A, Z)
<1>1. /\ Len(A \o B) = Len(A) + Len(B) /\ Len(A) \in Nat /\ Len(B) \in Nat
      /\ \A i \in 1 .. Len(A) : (A \o B)[i] = A[i]
  OBVIOUS
<1>2. Z \in Seq(S) => Len(Z) \in Nat
  OBVIOUS
<1> QED BY <1>1 DEF Begins

(* B is what Z has from place n on. *)
Found(Z, n, B) ==
    /\ SubSeq(Z, n + 1, n + Len(B)) = B
    /\ \A k \in 1 .. Len(B) : Z[n + k] = B[k]

(* The part that follows A is found again. *)
LEMMA PartFound ==
    ASSUME NEW S, NEW A \in Seq(S), NEW B \in Seq(S), NEW Z \in Seq(S), Begins(A \o B, Z)
    PROVE  Found(Z, Len(A), B)
<1>1. /\ Len(A \o B) = Len(A) + Len(B) /\ Len(A) \in Nat /\ Len(B) \in Nat /\ Len(Z) \in Nat
      /\ \A k \in 1 .. Len(B) : (A \o B)[Len(A) + k] = B[k]
  OBVIOUS
<1>2. \A k \in 1 .. Len(B) : Z[Len(A) + k] = B[k]
  BY <1>1 DEF Begins
<1>3. Len(A) + Len(B) <= Len(Z)
  BY <1>1 DEF Begins
<1>4. SubSeq(Z, Len(A) + 1, Len(A) + Len(B)) = [k \in 1 .. Len(B) |-> Z[Len(A) + k]]
  BY <1>1, <1>3
<1>5. B = [k \in 1 .. Len(B) |-> B[k]]
  OBVIOUS
<1> QED BY <1>2, <1>4, <1>5 DEF Found

(* Six parts in a row, as the fold of FlattenSeq leaves them. *)
LEMMA FlattenSix ==
    ASSUME NEW parts, Len(parts) = 6
    PROVE  FlattenSeq(parts)
             = parts[1] \o parts[2] \o parts[3] \o parts[4] \o parts[5] \o parts[6]
<1> DEFINE IsFlat(f) == f = [i \in 1 .. Len(parts) |->
                                IF i = 1 THEN parts[i] ELSE f[i - 1] \o parts[i]]
           q2 == parts[1] \o parts[2]
           q3 == q2 \o parts[3]
           q4 == q3 \o parts[4]
           q5 == q4 \o parts[5]
           q6 == q5 \o parts[6]
           g == <<parts[1], q2, q3, q4, q5, q6>>
<1>1. Len(parts) = 6
  OBVIOUS
<1>2. FlattenSeq(parts) = (CHOOSE f : IsFlat(f))[Len(parts)]
  BY <1>1 DEF FlattenSeq
<1>3. ASSUME NEW f, IsFlat(f)
      PROVE  f[6] = q6
  <2>1. \A i \in 1 .. 6 : f[i] = IF i = 1 THEN parts[i] ELSE f[i - 1] \o parts[i]
    BY <1>1, <1>3
  <2> HIDE DEF IsFlat
  <2>2. /\ f[1] = parts[1] /\ f[2] = f[1] \o parts[2] /\ f[3] = f[2] \o parts[3]
        /\ f[4] = f[3] \o parts[4] /\ f[5] = f[4] \o parts[5] /\ f[6] = f[5] \o parts[6]
    <3>1. f[1] = parts[1]
      BY <2>1
    <3>2. f[2] = f[1] \o parts[2]
      <4>1. 2 \in 1 .. 6 /\ 2 # 1 /\ 2 - 1 = 1
        OBVIOUS
      <4> QED BY <4>1, <2>1
    <3>3. f[3] = f[2] \o parts[3]
      <4>1. 3 \in 1 .. 6 /\ 3 # 1 /\ 3 - 1 = 2
        OBVIOUS
      <4> QED BY <4>1, <2>1
    <3>4. f[4] = f[3] \o parts[4]
      <4>1. 4 \in 1 .. 6 /\ 4 # 1 /\ 4 - 1 = 3
        OBVIOUS
      <4> QED BY <4>1, <2>1
    <3>5. f[5] = f[4] \o parts[5]
      <4>1. 5 \in 1 .. 6 /\ 5 # 1 /\ 5 - 1 = 4
        OBVIOUS
      <4> QED BY <4>1, <2>1
    <3>6. f[6] = f[5] \o parts[6]
      <4>1. 6 \in 1 .. 6 /\ 6 # 1 /\ 6 - 1 = 5
        OBVIOUS
      <4> QED BY <4>1, <2>1
    <3> QED BY <3>1, <3>2, <3>3, <3>4, <3>5, <3>6
  <2> QED BY <2>2
<1>4. IsFlat(g)
  <2>1. g = [i \in 1 .. 6 |-> g[i]]
    OBVIOUS
  <2>2. ASSUME NEW i \in 1 .. 6
        PROVE  g[i] = IF i = 1 THEN parts[i] ELSE g[i - 1] \o parts[i]
    <3>1. i = 1 \/ i = 2 \/ i = 3 \/ i = 4 \/ i = 5 \/ i = 6
      OBVIOUS
    <3>2. /\ g[1] = parts[1] /\ g[2] = q2 /\ g[3] = q3 /\ g[4] = q4 /\ g[5] = q5 /\ g[6] = q6
      OBVIOUS
    <3>3. /\ q2 = parts[1] \o parts[2] /\ q3 = q2 \o parts[3] /\ q4 = q3 \o parts[4]
          /\ q5 = q4 \o parts[5] /\ q6 = q5 \o parts[6]
      OBVIOUS
    <3> HIDE DEF g, q2, q3, q4, q5, q6
    <3>4. CASE i = 1
      BY <3>4, <3>2, <3>3
    <3>5. CASE i = 2
      <4>1. i # 1 /\ i - 1 = 1
        BY <3>5
      <4>2. g[i] = g[i - 1] \o parts[i]
        BY <4>1, <3>5, <3>2, <3>3, Zenon
      <4> QED BY <4>1, <4>2, Zenon
    <3>6. CASE i = 3
      <4>1. i # 1 /\ i - 1 = 2
        BY <3>6
      <4>2. g[i] = g[i - 1] \o parts[i]
        BY <4>1, <3>6, <3>2, <3>3, Zenon
      <4> QED BY <4>1, <4>2, Zenon
    <3>7. CASE i = 4
      <4>1. i # 1 /\ i - 1 = 3
        BY <3>7
      <4>2. g[i] = g[i - 1] \o parts[i]
        BY <4>1, <3>7, <3>2, <3>3, Zenon
      <4> QED BY <4>1, <4>2, Zenon
    <3>8. CASE i = 5
      <4>1. i # 1 /\ i - 1 = 4
        BY <3>8
      <4>2. g[i] = g[i - 1] \o parts[i]
        BY <4>1, <3>8, <3>2, <3>3, Zenon
      <4> QED BY <4>1, <4>2, Zenon
    <3>9. CASE i = 6
      <4>1. i # 1 /\ i - 1 = 5
        BY <3>9
      <4>2. g[i] = g[i - 1] \o parts[i]
        BY <4>1, <3>9, <3>2, <3>3, Zenon
      <4> QED BY <4>1, <4>2, Zenon
    <3> QED BY <3>1, <3>4, <3>5, <3>6, <3>7, <3>8, <3>9
  <2> HIDE DEF g
  <2> QED BY <1>1, <2>1, <2>2
<1> HIDE DEF IsFlat, g
<1>5. IsFlat(CHOOSE f : IsFlat(f))
  BY <1>4
<1> QED BY <1>1, <1>2, <1>3, <1>5

-----------------------------------------------------------------------------
(* Borsh is read back as it was written. *)

IsSequence(w) == w \in Seq(Range(w))

IsWord(w) == IsSequence(w) /\ Len(w) = Width

(* Arguments of the shapes that Borsh has types for. *)
Shaped(args) ==
    /\ IsWord(args.root)
    /\ \A s \in Slots : /\ IsWord(args.nullifiers[s]) /\ IsWord(args.commitments[s])
                        /\ IsSequence(args.notes[s])

LEMMA Widened == ASSUME NEW w, IsSequence(w), NEW S, Range(w) \subseteq S PROVE w \in Seq(S)
BY DEF IsSequence

LEMMA DecodesEncoded ==
    ASSUME NEW args, Shaped(args)
    PROVE  LET back == Decoded(Encoded(args)) IN
           /\ back.proof = args.proof /\ back.root = args.root
           /\ \A s \in Slots : /\ back.nullifiers[s] = args.nullifiers[s]
                               /\ back.commitments[s] = args.commitments[s]
           /\ back.amount = args.amount /\ back.recipient = args.recipient
           /\ back.notes = <<args.notes[1], args.notes[2]>>
<1>1. PICK w1, w2, w3, w4, w5, n1, n2 :
         /\ w1 = args.root /\ w2 = args.nullifiers[1] /\ w3 = args.nullifiers[2]
         /\ w4 = args.commitments[1] /\ w5 = args.commitments[2]
         /\ n1 = args.notes[1] /\ n2 = args.notes[2]
  OBVIOUS
<1>2. /\ IsWord(w1) /\ IsWord(w2) /\ IsWord(w3) /\ IsWord(w4) /\ IsWord(w5)
      /\ IsSequence(n1) /\ IsSequence(n2)
  BY <1>1 DEF Shaped, Slots
<1>3. PICK S : /\ w1 \in Seq(S) /\ w2 \in Seq(S) /\ w3 \in Seq(S) /\ w4 \in Seq(S) /\ w5 \in Seq(S)
               /\ n1 \in Seq(S) /\ n2 \in Seq(S)
               /\ args.proof \in S /\ args.amount \in S /\ args.recipient \in S
               /\ Len(n1) \in S /\ Len(n2) \in S
  <2>1. PICK S : S = Range(w1) \cup Range(w2) \cup Range(w3) \cup Range(w4) \cup Range(w5)
                       \cup Range(n1) \cup Range(n2)
                       \cup {args.proof, args.amount, args.recipient, Len(n1), Len(n2)}
    OBVIOUS
  <2>2. /\ Range(w1) \subseteq S /\ Range(w2) \subseteq S /\ Range(w3) \subseteq S
        /\ Range(w4) \subseteq S /\ Range(w5) \subseteq S
        /\ Range(n1) \subseteq S /\ Range(n2) \subseteq S
    BY <2>1
  <2>3. /\ w1 \in Seq(S) /\ w2 \in Seq(S) /\ w3 \in Seq(S) /\ w4 \in Seq(S) /\ w5 \in Seq(S)
        /\ n1 \in Seq(S) /\ n2 \in Seq(S)
    BY <2>2, <1>2, Widened DEF IsWord
  <2>4. /\ args.proof \in S /\ args.amount \in S /\ args.recipient \in S
        /\ Len(n1) \in S /\ Len(n2) \in S
    BY <2>1
  <2> QED BY <2>3, <2>4, Zenon
<1>4. /\ Len(w1) = Width /\ Len(w2) = Width /\ Len(w3) = Width /\ Len(w4) = Width /\ Len(w5) = Width
      /\ Width \in Nat /\ Len(n1) \in Nat /\ Len(n2) \in Nat
  BY <1>2, <1>3, WireAssumption DEF IsWord
<1> DEFINE e1 == <<args.proof>>
           e2 == e1 \o w1
           e3 == e2 \o w2
           e4 == e3 \o w3
           e5 == e4 \o w4
           e6 == e5 \o w5
           head == <<args.amount, args.recipient, Len(n1)>>
           e7 == e6 \o head
           e8 == e7 \o n1
           e9 == e8 \o <<Len(n2)>>
           Z  == e9 \o n2
<1>5. Encoded(args) = Z
  BY <1>1 DEF Encoded
<1>6. /\ e1 \in Seq(S) /\ Len(e1) = 1 /\ e1[1] = args.proof
      /\ head \in Seq(S) /\ Len(head) = 3
      /\ head[1] = args.amount /\ head[2] = args.recipient /\ head[3] = Len(n1)
      /\ <<Len(n2)>> \in Seq(S) /\ Len(<<Len(n2)>>) = 1
  BY <1>3
<1> HIDE DEF e1, head
<1>7. /\ e2 \in Seq(S) /\ e3 \in Seq(S) /\ e4 \in Seq(S) /\ e5 \in Seq(S) /\ e6 \in Seq(S)
      /\ e7 \in Seq(S) /\ e8 \in Seq(S) /\ e9 \in Seq(S) /\ Z \in Seq(S)
  BY <1>3, <1>6
<1>8. /\ Len(e2) = 1 + Width /\ Len(e3) = 1 + 2 * Width /\ Len(e4) = 1 + 3 * Width
      /\ Len(e5) = 1 + 4 * Width /\ Len(e6) = 1 + 5 * Width /\ Len(e7) = 4 + 5 * Width
      /\ Len(e8) = 4 + 5 * Width + Len(n1) /\ Len(e9) = 5 + 5 * Width + Len(n1)
  <2>1. \A A, B \in Seq(S) : Len(A \o B) = Len(A) + Len(B)
    OBVIOUS
  <2>2. /\ Len(e2) = Len(e1) + Len(w1) /\ Len(e3) = Len(e2) + Len(w2) /\ Len(e4) = Len(e3) + Len(w3)
        /\ Len(e5) = Len(e4) + Len(w4) /\ Len(e6) = Len(e5) + Len(w5) /\ Len(e7) = Len(e6) + Len(head)
        /\ Len(e8) = Len(e7) + Len(n1) /\ Len(e9) = Len(e8) + Len(<<Len(n2)>>)
    BY <2>1, <1>3, <1>6, <1>7
  <2> QED BY <2>2, <1>4, <1>6
<1>9. /\ Begins(e9 \o n2, Z) /\ Begins(e8 \o <<Len(n2)>>, Z) /\ Begins(e7 \o n1, Z)
      /\ Begins(e6 \o head, Z) /\ Begins(e5 \o w5, Z) /\ Begins(e4 \o w4, Z)
      /\ Begins(e3 \o w3, Z) /\ Begins(e2 \o w2, Z) /\ Begins(e1 \o w1, Z)
      /\ Begins(e1, Z)
  <2> HIDE DEF e2, e3, e4, e5, e6, e7, e8, e9, Z
  <2>0. /\ Z = e9 \o n2 /\ e9 = e8 \o <<Len(n2)>> /\ e8 = e7 \o n1 /\ e7 = e6 \o head
        /\ e6 = e5 \o w5 /\ e5 = e4 \o w4 /\ e4 = e3 \o w3 /\ e3 = e2 \o w2 /\ e2 = e1 \o w1
    BY DEF e2, e3, e4, e5, e6, e7, e8, e9, Z
  <2>a. \A A, B \in Seq(S) : Begins(A \o B, Z) => Begins(A, Z)
    BY BeginsMore
  <2>1. Begins(Z, Z)
    BY <1>7, BeginsSelf
  <2>2. Begins(e9 \o n2, Z) /\ Begins(e9, Z)
    BY <2>1, <2>0, <2>a, <1>3, <1>6, <1>7
  <2>3. Begins(e8 \o <<Len(n2)>>, Z) /\ Begins(e8, Z)
    BY <2>2, <2>0, <2>a, <1>3, <1>6, <1>7
  <2>4. Begins(e7 \o n1, Z) /\ Begins(e7, Z)
    BY <2>3, <2>0, <2>a, <1>3, <1>6, <1>7
  <2>5. Begins(e6 \o head, Z) /\ Begins(e6, Z)
    BY <2>4, <2>0, <2>a, <1>3, <1>6, <1>7
  <2>6. Begins(e5 \o w5, Z) /\ Begins(e5, Z)
    BY <2>5, <2>0, <2>a, <1>3, <1>6, <1>7
  <2>7. Begins(e4 \o w4, Z) /\ Begins(e4, Z)
    BY <2>6, <2>0, <2>a, <1>3, <1>6, <1>7
  <2>8. Begins(e3 \o w3, Z) /\ Begins(e3, Z)
    BY <2>7, <2>0, <2>a, <1>3, <1>6, <1>7
  <2>9. Begins(e2 \o w2, Z) /\ Begins(e2, Z)
    BY <2>8, <2>0, <2>a, <1>3, <1>6, <1>7
  <2>10. Begins(e1 \o w1, Z) /\ Begins(e1, Z)
    BY <2>9, <2>0, <2>a, <1>3, <1>6, <1>7
  <2> QED BY <2>2, <2>3, <2>4, <2>5, <2>6, <2>7, <2>8, <2>9, <2>10
<1> HIDE DEF e2, e3, e4, e5, e6, e7, e8, e9, Z
<1>10. /\ Found(Z, Len(e1), w1) /\ Found(Z, Len(e2), w2) /\ Found(Z, Len(e3), w3)
       /\ Found(Z, Len(e4), w4) /\ Found(Z, Len(e5), w5) /\ Found(Z, Len(e6), head)
       /\ Found(Z, Len(e7), n1) /\ Found(Z, Len(e8), <<Len(n2)>>) /\ Found(Z, Len(e9), n2)
  BY <1>3, <1>6, <1>7, <1>9, PartFound
<1>11. /\ SubSeq(Z, 2, 1 + Width) = w1
       /\ SubSeq(Z, 2 + Width, 1 + 2 * Width) = w2
       /\ SubSeq(Z, 2 + 2 * Width, 1 + 3 * Width) = w3
       /\ SubSeq(Z, 2 + 3 * Width, 1 + 4 * Width) = w4
       /\ SubSeq(Z, 2 + 4 * Width, 1 + 5 * Width) = w5
       /\ SubSeq(Z, 5 + 5 * Width, 4 + 5 * Width + Len(n1)) = n1
       /\ SubSeq(Z, 6 + 5 * Width + Len(n1), 5 + 5 * Width + Len(n1) + Len(n2)) = n2
  <2>1. /\ Len(e1) + 1 = 2 /\ Len(e1) + Len(w1) = 1 + Width
        /\ Len(e2) + 1 = 2 + Width /\ Len(e2) + Len(w2) = 1 + 2 * Width
        /\ Len(e3) + 1 = 2 + 2 * Width /\ Len(e3) + Len(w3) = 1 + 3 * Width
        /\ Len(e4) + 1 = 2 + 3 * Width /\ Len(e4) + Len(w4) = 1 + 4 * Width
        /\ Len(e5) + 1 = 2 + 4 * Width /\ Len(e5) + Len(w5) = 1 + 5 * Width
        /\ Len(e7) + 1 = 5 + 5 * Width /\ Len(e7) + Len(n1) = 4 + 5 * Width + Len(n1)
        /\ Len(e9) + 1 = 6 + 5 * Width + Len(n1)
        /\ Len(e9) + Len(n2) = 5 + 5 * Width + Len(n1) + Len(n2)
    BY <1>4, <1>6, <1>8
  <2>2. /\ SubSeq(Z, Len(e1) + 1, Len(e1) + Len(w1)) = w1
        /\ SubSeq(Z, Len(e2) + 1, Len(e2) + Len(w2)) = w2
        /\ SubSeq(Z, Len(e3) + 1, Len(e3) + Len(w3)) = w3
        /\ SubSeq(Z, Len(e4) + 1, Len(e4) + Len(w4)) = w4
        /\ SubSeq(Z, Len(e5) + 1, Len(e5) + Len(w5)) = w5
        /\ SubSeq(Z, Len(e7) + 1, Len(e7) + Len(n1)) = n1
        /\ SubSeq(Z, Len(e9) + 1, Len(e9) + Len(n2)) = n2
    BY <1>10, Zenon DEF Found
  <2> QED BY <2>1, <2>2
<1>12. /\ Z[1] = args.proof
       /\ Z[2 + 5 * Width] = args.amount /\ Z[3 + 5 * Width] = args.recipient
       /\ Z[4 + 5 * Width] = Len(n1) /\ Z[5 + 5 * Width + Len(n1)] = Len(n2)
  <2>1. Z[1] = args.proof
    BY <1>6, <1>9 DEF Begins
  <2>2. \A k \in 1 .. 3 : Z[Len(e6) + k] = head[k]
    BY <1>6, <1>10 DEF Found
  <2>3. \A k \in 1 .. 1 : Z[Len(e8) + k] = <<Len(n2)>>[k]
    BY <1>6, <1>10 DEF Found
  <2>4. /\ Len(e6) + 1 = 2 + 5 * Width /\ Len(e6) + 2 = 3 + 5 * Width /\ Len(e6) + 3 = 4 + 5 * Width
        /\ Len(e8) + 1 = 5 + 5 * Width + Len(n1)
    BY <1>4, <1>8
  <2>5. Z[Len(e6) + 1] = head[1] /\ Z[Len(e6) + 2] = head[2] /\ Z[Len(e6) + 3] = head[3]
    BY <2>2
  <2>6. Z[Len(e8) + 1] = Len(n2)
    BY <2>3
  <2> QED BY <2>1, <2>4, <2>5, <2>6, <1>6
<1>13. /\ 2 + 0 * Width = 2 /\ 1 + (0 + 1) * Width = 1 + Width
       /\ 2 + 1 * Width = 2 + Width /\ 1 + (1 + 1) * Width = 1 + 2 * Width
       /\ 1 + (2 + 1) * Width = 1 + 3 * Width /\ 1 + (3 + 1) * Width = 1 + 4 * Width
       /\ 1 + (4 + 1) * Width = 1 + 5 * Width
       /\ 2 + 5 * Width + 1 = 3 + 5 * Width /\ 2 + 5 * Width + 2 = 4 + 5 * Width
       /\ 2 + 5 * Width + 3 = 5 + 5 * Width
       /\ 2 + 5 * Width + 3 + Len(n1) = 5 + 5 * Width + Len(n1)
       /\ 2 + 5 * Width + 2 + Len(n1) = 4 + 5 * Width + Len(n1)
       /\ 2 + 5 * Width + 4 + Len(n1) = 6 + 5 * Width + Len(n1)
       /\ 2 + 5 * Width + 3 + Len(n1) + Len(n2) = 5 + 5 * Width + Len(n1) + Len(n2)
  BY <1>4
<1>14. PICK back : back = Decoded(Z)
  OBVIOUS
<1>15. /\ back.proof = args.proof /\ back.root = w1
       /\ back.nullifiers = <<w2, w3>> /\ back.commitments = <<w4, w5>>
       /\ back.amount = args.amount /\ back.recipient = args.recipient
       /\ back.notes = <<n1, n2>>
  BY <1>11, <1>12, <1>13, <1>14 DEF Decoded
<1> QED BY <1>1, <1>5, <1>14, <1>15 DEF Slots

-----------------------------------------------------------------------------
(* The hash input and the public witness determine what went into them. *)

LEMMA IsSequenceOf == ASSUME NEW S, NEW w \in Seq(S) PROVE IsSequence(w)
<1>1. DOMAIN w = 1 .. Len(w) /\ Len(w) \in Nat /\ w = [k \in 1 .. Len(w) |-> w[k]]
  OBVIOUS
<1>2. w \in [1 .. Len(w) -> Range(w)]
  BY <1>1 DEF Range
<1> QED BY <1>1, <1>2 DEF IsSequence

(* Every part of the external data can be read off its string: the lengths say
   where a payload ends. *)
LEMMA ExternalParts ==
    ASSUME NEW config, NEW recipient, NEW amount, NEW notes,
           IsSequence(notes[1]), IsSequence(notes[2]),
           NEW Z, Z = External(config, recipient, amount, notes)
    PROVE  /\ Z[2] = config.domain /\ Z[3] = config.program
           /\ Z[7] = recipient /\ Z[8] = amount
           /\ notes[1] = SubSeq(Z, 10, 9 + Z[9])
           /\ notes[2] = SubSeq(Z, 11 + Z[9], 10 + Z[9] + Z[10 + Z[9]])
<1>1. PICK n1, n2 : n1 = notes[1] /\ n2 = notes[2]
  OBVIOUS
<1> DEFINE e1 == <<"veil402:transact:v4", config.domain, config.program, PoolAddress(config),
                   config.mint, config.verifier, recipient, amount, Len(n1)>>
           e2 == e1 \o n1
           e3 == e2 \o <<Len(n2)>>
           parts == {"veil402:transact:v4", config.domain, config.program, PoolAddress(config),
                     config.mint, config.verifier, recipient, amount, Len(n1), Len(n2)}
           S == Range(n1) \cup Range(n2) \cup parts
<1>2. Z = e3 \o n2
  BY <1>1 DEF External
<1>3. n1 \in Seq(S) /\ n2 \in Seq(S)
  <2>1. Range(n1) \subseteq S /\ Range(n2) \subseteq S
    OBVIOUS
  <2> HIDE DEF S
  <2> QED BY <1>1, <2>1, Widened
<1>4. e1 \in Seq(S) /\ Len(e1) = 9 /\ <<Len(n2)>> \in Seq(S) /\ Len(<<Len(n2)>>) = 1
  <2>1. PICK T : T = S
    OBVIOUS
  <2>2. e1 \in Seq(T) /\ <<Len(n2)>> \in Seq(T)
    <3>1. parts \subseteq T
      BY <2>1
    <3> HIDE DEF S
    <3> QED BY <3>1
  <2> QED BY <2>1, <2>2
<1>5. /\ e1[2] = config.domain /\ e1[3] = config.program /\ e1[7] = recipient
      /\ e1[8] = amount /\ e1[9] = Len(n1)
  OBVIOUS
<1> HIDE DEF e1, S
<1>6. e2 \in Seq(S) /\ e3 \in Seq(S) /\ Z \in Seq(S)
  BY <1>2, <1>3, <1>4
<1>7. Len(n1) \in Nat /\ Len(n2) \in Nat /\ Len(e2) = 9 + Len(n1) /\ Len(e3) = 10 + Len(n1)
  <2>1. \A A, B \in Seq(S) : Len(A \o B) = Len(A) + Len(B) /\ Len(A) \in Nat
    OBVIOUS
  <2>2. Len(e2) = Len(e1) + Len(n1) /\ Len(e3) = Len(e2) + Len(<<Len(n2)>>)
    BY <2>1, <1>3, <1>4, <1>6
  <2>3. Len(n1) \in Nat /\ Len(n2) \in Nat
    BY <2>1, <1>3
  <2> QED BY <2>2, <2>3, <1>4
<1>8. /\ Begins(e3 \o n2, Z) /\ Begins(e2 \o <<Len(n2)>>, Z) /\ Begins(e1 \o n1, Z) /\ Begins(e1, Z)
  <2>1. Begins(e3 \o n2, Z)
    BY <1>2, <1>6, BeginsSelf
  <2>2. Begins(e3, Z)
    BY <2>1, <1>3, <1>6, BeginsMore
  <2>3. Begins(e2, Z)
    BY <2>2, <1>4, <1>6, BeginsMore
  <2>4. Begins(e1, Z)
    BY <2>3, <1>3, <1>4, BeginsMore
  <2> QED BY <2>1, <2>2, <2>3, <2>4
<1> HIDE DEF e2, e3
<1>9. Found(Z, Len(e1), n1) /\ Found(Z, Len(e2), <<Len(n2)>>) /\ Found(Z, Len(e3), n2)
  BY <1>3, <1>4, <1>6, <1>8, PartFound
<1>10. \A k \in 1 .. 9 : Z[k] = e1[k]
  BY <1>4, <1>8 DEF Begins
<1>11. Z[2] = e1[2] /\ Z[3] = e1[3] /\ Z[7] = e1[7] /\ Z[8] = e1[8] /\ Z[9] = e1[9]
  BY <1>10
<1>12. Z[10 + Len(n1)] = Len(n2)
  <2>1. \A k \in 1 .. 1 : Z[Len(e2) + k] = <<Len(n2)>>[k]
    BY <1>4, <1>9 DEF Found
  <2>2. Len(e2) + 1 = 10 + Len(n1)
    BY <1>7
  <2>3. Z[Len(e2) + 1] = Len(n2)
    BY <2>1
  <2> QED BY <2>2, <2>3
<1>13. /\ SubSeq(Z, 10, 9 + Len(n1)) = n1
       /\ SubSeq(Z, 11 + Len(n1), 10 + Len(n1) + Len(n2)) = n2
  <2>1. /\ SubSeq(Z, Len(e1) + 1, Len(e1) + Len(n1)) = n1
        /\ SubSeq(Z, Len(e3) + 1, Len(e3) + Len(n2)) = n2
    BY <1>9, Zenon DEF Found
  <2>2. Len(e1) + 1 = 10 /\ Len(e1) + Len(n1) = 9 + Len(n1)
        /\ Len(e3) + 1 = 11 + Len(n1) /\ Len(e3) + Len(n2) = 10 + Len(n1) + Len(n2)
    BY <1>4, <1>7
  <2> QED BY <2>1, <2>2
<1> QED BY <1>1, <1>5, <1>11, <1>12, <1>13

(* No two sets of external data share a hash input. *)
LEMMA ExternalInjective ==
    ASSUME NEW c, NEW r, NEW a, NEW n, IsSequence(n[1]), IsSequence(n[2]),
           NEW d, NEW q, NEW b, NEW m, IsSequence(m[1]), IsSequence(m[2]),
           External(c, r, a, n) = External(d, q, b, m)
    PROVE  /\ c.domain = d.domain /\ c.program = d.program /\ r = q /\ a = b
           /\ n[1] = m[1] /\ n[2] = m[2]
<1>1. PICK Z : Z = External(c, r, a, n) /\ Z = External(d, q, b, m)
  OBVIOUS
<1>2. /\ Z[2] = c.domain /\ Z[3] = c.program /\ Z[7] = r /\ Z[8] = a
      /\ n[1] = SubSeq(Z, 10, 9 + Z[9])
      /\ n[2] = SubSeq(Z, 11 + Z[9], 10 + Z[9] + Z[10 + Z[9]])
  BY <1>1, ExternalParts
<1>3. /\ Z[2] = d.domain /\ Z[3] = d.program /\ Z[7] = q /\ Z[8] = b
      /\ m[1] = SubSeq(Z, 10, 9 + Z[9])
      /\ m[2] = SubSeq(Z, 11 + Z[9], 10 + Z[9] + Z[10 + Z[9]])
  BY <1>1, ExternalParts
<1> QED BY <1>2, <1>3, Zenon

(* The last element of a public witness is its hash. *)
LEMMA WitnessHash ==
    ASSUME NEW S, NEW p1 \in Seq(S), NEW p2 \in Seq(S), NEW p3 \in Seq(S),
           NEW p4 \in Seq(S), NEW p5 \in Seq(S), NEW p6 \in Seq(S), NEW hash
    PROVE  ReadWitness(Witness(<<p1, p2, p3, p4, p5, p6>>, hash)).hash = hash
<1>0. FlattenSeq(<<p1, p2, p3, p4, p5, p6>>) = p1 \o p2 \o p3 \o p4 \o p5 \o p6
  <2>1. PICK parts : parts = <<p1, p2, p3, p4, p5, p6>>
    OBVIOUS
  <2>2. /\ Len(parts) = 6
        /\ parts[1] = p1 /\ parts[2] = p2 /\ parts[3] = p3
        /\ parts[4] = p4 /\ parts[5] = p5 /\ parts[6] = p6
    BY <2>1
  <2>3. FlattenSeq(parts) = p1 \o p2 \o p3 \o p4 \o p5 \o p6
    BY <2>2, FlattenSix
  <2> QED BY <2>1, <2>3
<1> DEFINE flat == p1 \o p2 \o p3 \o p4 \o p5 \o p6
           T == S \cup {hash, 7, 0}
           all == Header \o flat
<1>1. flat \in Seq(S)
  OBVIOUS
<1>2. FlattenSeq(<<p1, p2, p3, p4, p5, p6>>) = flat
  BY <1>0
<1> HIDE DEF flat
<1>3. flat \in Seq(T) /\ Header \in Seq(T)
  BY <1>1 DEF Header
<1>4. all \in Seq(T) /\ hash \in T
  BY <1>3
<1> HIDE DEF all, T
<1>5. all \o <<hash>> = Append(all, hash)
  BY <1>4
<1>6. Last(Append(all, hash)) = hash
  BY <1>4 DEF Last
<1>7. Witness(<<p1, p2, p3, p4, p5, p6>>, hash) = Append(all, hash)
  BY <1>2, <1>5 DEF Witness, all
<1> QED BY <1>6, <1>7 DEF ReadWitness

-----------------------------------------------------------------------------
(* An executed instruction is the one its proof was bound to. *)

(* e is executed as its proof was bound. *)
AsBound(e) ==
    /\ e.deployment = e.proof.plan.deployment
    /\ e.args.recipient = e.proof.plan.recipient
    /\ e.args.amount = e.proof.plan.amount
    /\ e.args.notes = e.proof.plan.notes
    /\ e.proof.plan.amount < 0 => e.account.owner = e.proof.plan.recipient

(* A proof's hash is that of its plan. *)
ProofBound(proof) ==
    LET plan == proof.plan IN
    /\ plan \in Plans
    /\ proof.hash = External(Config[plan.deployment], plan.recipient, plan.amount, plan.notes)

(* The inductive invariant behind ExecutesAsBound. *)
BoundInv ==
    /\ LogInv
    /\ \A proof \in proofs : ProofBound(proof)
    /\ \A k \in DOMAIN executed : AsBound(executed[k])

LEMMA FieldBytesIsWord == ASSUME NEW v PROVE IsWord(FieldBytes(v))
<1>1. PICK w : w = FieldBytes(v)
  OBVIOUS
<1>2. DOMAIN w = 1 .. Width /\ w = [k \in 1 .. Width |-> w[k]]
  BY <1>1 DEF FieldBytes
<1>3. w \in [1 .. Width -> Range(w)] /\ Width \in Nat
  BY <1>2, WireAssumption DEF Range
<1>4. w \in Seq(Range(w)) /\ Len(w) = Width
  BY <1>3
<1> QED BY <1>1, <1>4 DEF IsWord, IsSequence

LEMMA WordIsWord == ASSUME NEW w \in Word PROVE IsWord(w)
<1>1. w \in Seq(Bytes) /\ Len(w) = Width
  BY WireAssumption DEF Word
<1> QED BY <1>1, IsSequenceOf DEF IsWord

(* What may be submitted has the shapes Borsh has types for, and its proof. *)
LEMMA RewrittenShaped ==
    ASSUME NEW proof, proof.plan \in Plans, NEW args \in Rewritten(proof)
    PROVE  Shaped(args) /\ args.proof = proof
<1>1. PICK root \in Spellings(proof.fields[1]),
           first \in Spellings(proof.fields[2]), second \in Spellings(proof.fields[3]),
           notes \in Resplits(proof.plan.notes), amount \in Amounts,
           recipient \in Wallets \cup {proof.plan.recipient} :
         args = Rewrite(proof, root, <<first, second>>, notes, amount, recipient)
  BY DEF Rewritten
<1>2. /\ args.proof = proof /\ args.root = root /\ args.nullifiers = <<first, second>>
      /\ args.notes = notes
      /\ \A s \in Slots : args.commitments[s] = FieldBytes(proof.fields[3 + s])
  BY <1>1 DEF Rewrite, SdkArgs
<1>3. IsWord(root) /\ IsWord(first) /\ IsWord(second)
  BY WordIsWord DEF Spellings
<1>4. IsSequence(notes[1]) /\ IsSequence(notes[2])
  <2>1. PICK n : n = proof.plan.notes
    OBVIOUS
  <2>2. n[1] \in Seq(Bytes) /\ n[2] \in Seq(Bytes)
    BY <2>1, WireAssumption DEF Slots
  <2>3. PICK bytes : bytes = n[1] \o n[2]
    OBVIOUS
  <2>4. bytes \in Seq(Bytes) /\ Len(bytes) \in Nat
    <3>1. \A A, B \in Seq(Bytes) : A \o B \in Seq(Bytes)
      OBVIOUS
    <3>2. bytes \in Seq(Bytes)
      BY <2>2, <2>3, <3>1
    <3> QED BY <3>2
  <2>5. PICK k \in 0 .. Len(bytes) :
           notes = <<SubSeq(bytes, 1, k), SubSeq(bytes, k + 1, Len(bytes))>>
    BY <2>1, <2>3 DEF Resplits
  <2>6. SubSeq(bytes, 1, k) \in Seq(Bytes) /\ SubSeq(bytes, k + 1, Len(bytes)) \in Seq(Bytes)
    BY <2>4
  <2> QED BY <2>5, <2>6, IsSequenceOf
<1>5. \A s \in Slots : IsWord(args.commitments[s])
  BY <1>2, FieldBytesIsWord
<1> QED BY <1>2, <1>3, <1>4, <1>5 DEF Shaped, Slots

(* What executing an instruction says of it. *)
LEMMA TransactAsBound ==
    ASSUME BoundInv, NEW d \in Deployments, NEW proof \in proofs, NEW args \in Rewritten(proof),
           NEW account, NEW payer, Transact(d, Instruction(Config[d], args, account, payer))
    PROVE  \E e : AsBound(e) /\ executed' = Append(executed, e)
<1>1. /\ ProofBound(proof) /\ proof.plan \in Plans
      /\ Shaped(args) /\ args.proof = proof
  BY RewrittenShaped DEF BoundInv, ProofBound
<1>2. PICK back, plan, accounts, notes :
         /\ back = Decoded(Encoded(args)) /\ plan = proof.plan
         /\ accounts = Accounts(Config[d], args.nullifiers, account, payer)
         /\ notes = back.notes
  OBVIOUS
<1>3. /\ back.proof = proof /\ back.root = args.root
      /\ \A s \in Slots : /\ back.nullifiers[s] = args.nullifiers[s]
                          /\ back.commitments[s] = args.commitments[s]
      /\ back.amount = args.amount /\ back.recipient = args.recipient
      /\ notes = <<args.notes[1], args.notes[2]>>
  BY <1>1, <1>2, DecodesEncoded
<1>4. /\ ValidArguments(accounts, back) /\ VerifiedArgs(d, back)
      /\ executed' = Append(executed, [deployment |-> d, proof |-> back.proof, args |-> back,
                                       account |-> accounts[7]])
  BY <1>2 DEF Transact, Accepts, Instruction
<1>5. PICK hash : hash = External(Config[d], back.recipient, back.amount, notes)
  OBVIOUS
<1>6. hash = proof.hash
  <2>1. PICK p1, p2, p3, p4, p5, p6 :
           /\ p1 = back.root /\ p2 = back.nullifiers[1] /\ p3 = back.nullifiers[2]
           /\ p4 = back.commitments[1] /\ p5 = back.commitments[2]
           /\ p6 = PublicAmountField(back.amount)
    OBVIOUS
  <2>2. /\ IsSequence(p1) /\ IsSequence(p2) /\ IsSequence(p3) /\ IsSequence(p4)
        /\ IsSequence(p5) /\ IsSequence(p6)
    <3>1. IsWord(p6)
      BY <2>1, FieldBytesIsWord DEF PublicAmountField
    <3> QED BY <3>1, <2>1, <1>1, <1>3 DEF Shaped, IsWord, Slots
  <2>3. PICK S : S = Range(p1) \cup Range(p2) \cup Range(p3) \cup Range(p4) \cup Range(p5) \cup Range(p6)
    OBVIOUS
  <2>4. /\ p1 \in Seq(S) /\ p2 \in Seq(S) /\ p3 \in Seq(S) /\ p4 \in Seq(S)
        /\ p5 \in Seq(S) /\ p6 \in Seq(S)
    <3>1. /\ Range(p1) \subseteq S /\ Range(p2) \subseteq S /\ Range(p3) \subseteq S
          /\ Range(p4) \subseteq S /\ Range(p5) \subseteq S /\ Range(p6) \subseteq S
      BY <2>3
    <3> QED BY <3>1, <2>2, Widened
  <2>5. PICK witness : witness = Witness(<<p1, p2, p3, p4, p5, p6>>, hash)
    OBVIOUS
  <2>6. ReadWitness(witness).hash = hash
    BY <2>4, <2>5, WitnessHash
  <2>7. Verify(proof, witness)
    BY <1>2, <1>3, <1>4, <1>5, <2>1, <2>5 DEF VerifiedArgs
  <2>8. ReadWitness(witness).hash = proof.hash
    BY <2>7 DEF Verify
  <2> QED BY <2>6, <2>8
<1>7. PICK bound : bound = plan.notes
  OBVIOUS
<1>8. /\ plan.deployment \in Deployments /\ bound \in [Slots -> Seq(Bytes)]
      /\ hash = External(Config[plan.deployment], plan.recipient, plan.amount, bound)
  BY <1>1, <1>2, <1>6, <1>7, WireAssumption DEF ProofBound
<1>9. /\ IsSequence(notes[1]) /\ IsSequence(notes[2])
      /\ IsSequence(bound[1]) /\ IsSequence(bound[2])
  <2>1. bound[1] \in Seq(Bytes) /\ bound[2] \in Seq(Bytes)
    BY <1>8 DEF Slots
  <2>2. IsSequence(args.notes[1]) /\ IsSequence(args.notes[2])
    BY <1>1 DEF Shaped, Slots
  <2> QED BY <2>1, <2>2, <1>3, IsSequenceOf
<1>10. PICK mine, theirs : mine = Config[d] /\ theirs = Config[plan.deployment]
  OBVIOUS
<1>11. /\ mine.domain = theirs.domain /\ mine.program = theirs.program
       /\ back.recipient = plan.recipient /\ back.amount = plan.amount
       /\ notes[1] = bound[1] /\ notes[2] = bound[2]
  <2>1. External(mine, back.recipient, back.amount, notes)
          = External(theirs, plan.recipient, plan.amount, bound)
    BY <1>5, <1>8, <1>10
  <2> QED BY <2>1, <1>9, ExternalInjective
<1>12. d = plan.deployment
  BY <1>8, <1>10, <1>11, WireAssumption
<1>13. notes = bound
  <2>1. bound = <<bound[1], bound[2]>>
    BY <1>8 DEF Slots
  <2> QED BY <2>1, <1>3, <1>11
<1>14. plan.amount < 0 => accounts[7].owner = plan.recipient
  BY <1>4, <1>11 DEF ValidArguments
<1>15. PICK e : e = [deployment |-> d, proof |-> back.proof, args |-> back, account |-> accounts[7]]
  OBVIOUS
<1>16. AsBound(e)
  BY <1>2, <1>3, <1>7, <1>11, <1>12, <1>13, <1>14, <1>15 DEF AsBound
<1> QED BY <1>4, <1>15, <1>16

LEMMA BoundTransact ==
    ASSUME BoundInv, NEW e, AsBound(e), executed' = Append(executed, e),
           proofs' = proofs, LogInv'
    PROVE  BoundInv'
<1>1. /\ DOMAIN executed' = DOMAIN executed \cup {Len(executed) + 1}
      /\ \A k \in DOMAIN executed : executed'[k] = executed[k]
      /\ executed'[Len(executed) + 1] = e
  BY AppendLog DEF BoundInv, LogInv
<1>2. ASSUME NEW k \in DOMAIN executed'
      PROVE  AsBound(executed[k])'
  <2>1. PICK f : f = executed'[k]
    OBVIOUS
  <2>2. AsBound(f)
    BY <2>1, <1>1 DEF BoundInv
  <2> QED BY <2>1, <2>2 DEF AsBound
<1> QED BY <1>2 DEF BoundInv, ProofBound

LEMMA BoundInit == Init => BoundInv
BY SpentInit DEF Init, SpentInv, BoundInv

LEMMA BoundNext == BoundInv /\ [Next]_vars => BoundInv'
<1> SUFFICES ASSUME BoundInv, [Next]_vars PROVE BoundInv'
  OBVIOUS
<1>1. ASSUME UNCHANGED <<records, executed>>, \A proof \in proofs' : ProofBound(proof)
      PROVE  BoundInv'
  <2>1. LogInv' /\ \A proof \in proofs' : ProofBound(proof)'
    BY <1>1 DEF BoundInv, LogInv, ProofBound
  <2> QED BY <1>1, <2>1 DEF BoundInv, AsBound
<1>2. CASE DoProve
  <2>1. PICK plan \in Plans : Prove(plan)
    BY <1>2 DEF DoProve
  <2>2. PICK proof : /\ proof = [fields |-> Fields(plan),
                                 hash   |-> External(Config[plan.deployment], plan.recipient,
                                                     plan.amount, plan.notes),
                                 plan   |-> plan]
                     /\ proofs' = proofs \cup {proof} /\ UNCHANGED <<records, executed>>
    BY <2>1 DEF Prove
  <2>3. ProofBound(proof)
    BY <2>2 DEF ProofBound
  <2> QED BY <1>1, <2>2, <2>3 DEF BoundInv
<1>3. CASE DoTransact
  <2>1. PICK d \in Deployments, proof \in proofs : \E args \in Rewritten(proof), payer \in Wallets :
            \E account \in {RecipientAta(Config[d], args.amount, args.recipient),
                            RecipientAta(Config[d], args.amount, payer)} :
                Transact(d, Instruction(Config[d], args, account, payer))
    BY <1>3 DEF DoTransact
  <2>2. PICK args \in Rewritten(proof), payer \in Wallets : \E account :
           Transact(d, Instruction(Config[d], args, account, payer))
    BY <2>1
  <2>3. PICK account : Transact(d, Instruction(Config[d], args, account, payer))
    BY <2>2
  <2>4. \E e : AsBound(e) /\ executed' = Append(executed, e)
    BY <2>3, TransactAsBound
  <2>5. LogInv'
    BY <2>3, TransactSpends DEF BoundInv, Spends
  <2>6. proofs' = proofs
    BY <2>3 DEF Transact
  <2> QED BY <2>4, <2>5, <2>6, BoundTransact
<1>4. CASE UNCHANGED vars
  BY <1>1, <1>4 DEF vars, BoundInv
<1> QED BY <1>2, <1>3, <1>4 DEF Next

(* An instruction is executed only by the pool and on the cluster its proof was
   made for, with the recipient, amount and payloads its maker bound, for every
   width, field and set of deployments. *)
THEOREM AlwaysExecutesAsBound == Spec => []ExecutesAsBound
<1>1. Spec => []BoundInv
  BY BoundInit, BoundNext, PTL DEF Spec
<1>2. BoundInv => ExecutesAsBound
  BY DEF BoundInv, ExecutesAsBound, AsBound
<1> QED BY <1>1, <1>2, PTL

-----------------------------------------------------------------------------
(* The bytes of a number are read back as it.                              *)

(* Pairs of naturals, the first below the second. *)
Below == {p \in Nat \X Nat : p[1] < p[2]}

(* A set that holds 0 and, up to a limit, the successor of each of its numbers
   holds all numbers up to the limit. *)
LEMMA CountingTo ==
    ASSUME NEW limit \in Nat, NEW T, 0 \in T,
           \A n \in 0 .. limit - 1 : n \in T => n + 1 \in T
    PROVE  \A n \in 0 .. limit : n \in T
<1> SUFFICES ASSUME NEW k \in 0 .. limit, k \notin T PROVE FALSE
  OBVIOUS
<1> DEFINE U == {n \in 0 .. limit : n \notin T}
<1>1. U \in SUBSET Nat /\ U # {}
  OBVIOUS
<1> HIDE DEF U
<1>2. PICK n \in U : \A m \in U : ~ (<<m, n>> \in Below)
  <2>1. IsWellFoundedOn(Below, Nat)
    BY NatLessThanWellFounded DEF OpToRel, Below
  <2> QED BY <1>1, <2>1, WFMin
<1>3. n \in 0 .. limit /\ n \notin T
  BY <1>2 DEF U
<1>4. n - 1 \in 0 .. limit - 1 /\ n - 1 \in T
  <2>1. n # 0
    BY <1>3
  <2>2. n - 1 \in 0 .. limit - 1 /\ n - 1 \in 0 .. limit /\ <<n - 1, n>> \in Below
    BY <2>1, <1>3 DEF Below
  <2> QED BY <2>2, <1>2 DEF U
<1> QED BY <1>3, <1>4

LEMMA WidthType == Width \in Nat /\ Base \in Nat /\ P \in 2 .. Power[Width] - 1
BY WireAssumption

(* Each recursive function is what its definition says: there is one that agrees
   with itself, made step by step. *)

LEMMA PowerDef == Power[0] = 1 /\ \A n \in 1 .. Width : Power[n] = Base * Power[n - 1]
<1> DEFINE Is(f, m) == f = [n \in 0 .. m |-> IF n = 0 THEN 1 ELSE Base * f[n - 1]]
           T == {m \in Nat : \E f : Is(f, m)}
<1>1. 0 \in T
  <2>1. Is([n \in 0 .. 0 |-> 1], 0)
    OBVIOUS
  <2> QED BY <2>1
<1>2. ASSUME NEW m \in 0 .. Width - 1, m \in T PROVE m + 1 \in T
  <2>1. PICK f : Is(f, m)
    BY <1>2
  <2> DEFINE g == [n \in 0 .. m + 1 |-> IF n <= m THEN f[n] ELSE Base * f[m]]
  <2>2. Is(g, m + 1)
    BY <2>1
  <2> HIDE DEF Is, g
  <2>3. \E k : Is(k, m + 1)
    BY <2>2
  <2> QED BY <2>3
<1> HIDE DEF T
<1>3. Width \in T
  BY <1>1, <1>2, CountingTo, WidthType
<1>4. Is(Power, Width)
  BY <1>3 DEF T, Power
<1>5. \A n \in 0 .. Width : Power[n] = IF n = 0 THEN 1 ELSE Base * Power[n - 1]
  BY <1>4
<1> HIDE DEF Is
<1> QED BY <1>5, WidthType

LEMMA ShiftedDef ==
    ASSUME NEW value
    PROVE  /\ Shifted(value)[0] = value
           /\ \A n \in 1 .. Width : Shifted(value)[n] = Shifted(value)[n - 1] \div Base
<1> DEFINE Is(f, m) == f = [n \in 0 .. m |-> IF n = 0 THEN value ELSE f[n - 1] \div Base]
           T == {m \in Nat : \E f : Is(f, m)}
<1>1. 0 \in T
  <2>1. Is([n \in 0 .. 0 |-> value], 0)
    OBVIOUS
  <2> QED BY <2>1
<1>2. ASSUME NEW m \in 0 .. Width - 1, m \in T PROVE m + 1 \in T
  <2>1. PICK f : Is(f, m)
    BY <1>2
  <2> DEFINE g == [n \in 0 .. m + 1 |-> IF n <= m THEN f[n] ELSE f[m] \div Base]
  <2>2. Is(g, m + 1)
    BY <2>1
  <2> HIDE DEF Is, g
  <2>3. \E k : Is(k, m + 1)
    BY <2>2
  <2> QED BY <2>3
<1> HIDE DEF T
<1>3. Width \in T
  BY <1>1, <1>2, CountingTo, WidthType
<1>4. Is(Shifted(value), Width)
  BY <1>3 DEF T, Shifted
<1>5. \A n \in 0 .. Width :
         Shifted(value)[n] = IF n = 0 THEN value ELSE Shifted(value)[n - 1] \div Base
  BY <1>4
<1> HIDE DEF Is
<1> QED BY <1>5, WidthType

LEMMA NumberDef ==
    ASSUME NEW word, NEW length \in Nat, length = Len(word)
    PROVE  /\ Number(word)[0] = 0
           /\ \A k \in 1 .. length : Number(word)[k] = Number(word)[k - 1] * Base + word[k]
<1> DEFINE Is(f, m) == f = [k \in 0 .. m |-> IF k = 0 THEN 0 ELSE f[k - 1] * Base + word[k]]
           T == {m \in Nat : \E f : Is(f, m)}
<1>1. 0 \in T
  <2>1. Is([k \in 0 .. 0 |-> 0], 0)
    OBVIOUS
  <2> QED BY <2>1
<1>2. ASSUME NEW m \in 0 .. length - 1, m \in T PROVE m + 1 \in T
  <2>1. PICK f : Is(f, m)
    BY <1>2
  <2> DEFINE g == [k \in 0 .. m + 1 |-> IF k <= m THEN f[k] ELSE f[m] * Base + word[m + 1]]
  <2>2. Is(g, m + 1)
    BY <2>1
  <2> HIDE DEF Is, g
  <2>3. \E k : Is(k, m + 1)
    BY <2>2
  <2> QED BY <2>3
<1> HIDE DEF T
<1>3. length \in T
  BY <1>1, <1>2, CountingTo
<1>4. Is(Number(word), length)
  BY <1>3 DEF T, Number
<1>5. \A k \in 0 .. length :
         Number(word)[k] = IF k = 0 THEN 0 ELSE Number(word)[k - 1] * Base + word[k]
  BY <1>4
<1> HIDE DEF Is
<1> QED BY <1>5

LEMMA PowerType == Base \in Nat \ {0} /\ \A n \in 0 .. Width : Power[n] \in Nat
<1> DEFINE T == {n \in Nat : n <= Width => Power[n] \in Nat}
<1>1. 0 \in T
  BY PowerDef
<1>2. ASSUME NEW n \in 0 .. Width - 1, n \in T PROVE n + 1 \in T
  <2>1. Power[n + 1] = Base * Power[n] /\ n <= Width /\ n \in Nat
    BY PowerDef, WidthType
  <2> QED BY <1>2, <2>1, WidthType
<1> HIDE DEF T
<1>3. \A n \in 0 .. Width : n \in T
  BY <1>1, <1>2, CountingTo, WidthType
<1>4. \A n \in 0 .. Width : Power[n] \in Nat
  BY <1>3 DEF T
<1>5. Base # 0
  <2>1. Power[Width] > 2
    BY <1>4, WidthType
  <2>2. Width # 0
    BY <2>1, PowerDef
  <2>3. Power[Width] = Base * Power[Width - 1] /\ Power[Width - 1] \in Nat
    BY <2>2, <1>4, PowerDef, WidthType
  <2> QED BY <2>1, <2>3
<1> QED BY <1>4, <1>5, WidthType

(* One digit off a number. *)
LEMMA OneDigit ==
    ASSUME NEW x \in Nat, NEW b \in Nat \ {0}
    PROVE  x \div b \in Nat /\ x % b \in Nat /\ (x \div b) * b + (x % b) = x
OBVIOUS

LEMMA OneDigitLess ==
    ASSUME NEW x \in Nat, NEW b \in Nat \ {0}, NEW p \in Nat, x < b * p
    PROVE  x \div b < p
OBVIOUS

LEMMA ShiftedLess ==
    ASSUME NEW v \in Field
    PROVE  \A n \in 0 .. Width : Shifted(v)[n] \in Nat /\ Shifted(v)[n] < Power[Width - n]
<1> DEFINE Less(n) == Shifted(v)[n] \in Nat /\ Shifted(v)[n] < Power[Width - n]
           T == {n \in Nat : n <= Width => Less(n)}
<1>1. 0 \in T
  <2>1. v \in Nat /\ v < Power[Width] /\ Width - 0 = Width
    BY WidthType, PowerType DEF Field
  <2> QED BY <2>1, ShiftedDef
<1>2. ASSUME NEW n \in 0 .. Width - 1, n \in T PROVE n + 1 \in T
  <2>1. /\ n + 1 \in 1 .. Width /\ (n + 1) - 1 = n /\ n \in Nat /\ n <= Width
        /\ Width - n \in 1 .. Width /\ (Width - n) - 1 = Width - (n + 1)
        /\ Width - (n + 1) \in 0 .. Width
    BY WidthType
  <2> DEFINE x == Shifted(v)[n]
             p == Power[Width - (n + 1)]
  <2>2. x \in Nat /\ x < Power[Width - n]
    BY <1>2, <2>1
  <2>3. Power[Width - n] = Base * p /\ p \in Nat
    BY <2>1, PowerDef, PowerType
  <2>4. Shifted(v)[n + 1] = x \div Base
    BY <2>1, ShiftedDef
  <2> HIDE DEF x, p
  <2>5. x \div Base \in Nat /\ x \div Base < p
    BY <2>2, <2>3, OneDigit, OneDigitLess, PowerType
  <2>6. Less(n + 1)
    BY <2>4, <2>5 DEF p
  <2> QED BY <2>1, <2>6
<1> HIDE DEF T, Less
<1>3. \A n \in 0 .. Width : n \in T
  BY <1>1, <1>2, CountingTo, WidthType
<1>4. \A n \in 0 .. Width : Less(n)
  BY <1>3 DEF T
<1> QED BY <1>4 DEF Less

(* The program reads the element whose bytes the SDK wrote. *)
LEMMA ReadBack == ASSUME NEW v \in Field PROVE ModOrder(FieldBytes(v)) = v
<1> DEFINE w == FieldBytes(v)
           rest == Shifted(v)
<1>1. Len(w) = Width /\ \A k \in 1 .. Width : w[k] = rest[Width - k] % Base
  BY FieldBytesIsWord DEF FieldBytes, IsWord
<1>2. /\ Number(w)[0] = 0
      /\ \A k \in 1 .. Width : Number(w)[k] = Number(w)[k - 1] * Base + w[k]
  BY <1>1, NumberDef, WidthType
<1>3. \A n \in 0 .. Width : rest[n] \in Nat /\ rest[n] < Power[Width - n]
  BY ShiftedLess
<1>4. rest[0] = v /\ \A n \in 1 .. Width : rest[n] = rest[n - 1] \div Base
  BY ShiftedDef
<1> HIDE DEF w, rest
<1> DEFINE T == {k \in Nat : k <= Width => Number(w)[k] = rest[Width - k]}
<1>5. 0 \in T
  <2>1. rest[Width] = 0
    <3>1. Width \in 0 .. Width /\ Width - Width = 0
      BY WidthType
    <3> QED BY <3>1, <1>3, PowerDef
  <2> QED BY <2>1, <1>2, WidthType
<1>6. ASSUME NEW k \in 0 .. Width - 1, k \in T PROVE k + 1 \in T
  <2>1. /\ k + 1 \in 1 .. Width /\ (k + 1) - 1 = k /\ k \in Nat /\ k <= Width
        /\ Width - k \in 1 .. Width /\ (Width - k) - 1 = Width - (k + 1)
        /\ Width - (k + 1) \in 0 .. Width
    BY WidthType
  <2> DEFINE x == rest[Width - (k + 1)]
  <2>2. x \in Nat /\ rest[Width - k] = x \div Base
    BY <2>1, <1>3, <1>4
  <2>3. Number(w)[k] = rest[Width - k]
    BY <1>6, <2>1
  <2>4. Number(w)[k + 1] = Number(w)[k] * Base + w[k + 1] /\ w[k + 1] = x % Base
    BY <2>1, <1>1, <1>2
  <2> HIDE DEF x
  <2>5. Number(w)[k + 1] = x
    BY <2>2, <2>3, <2>4, OneDigit, PowerType
  <2> QED BY <2>5 DEF x
<1> HIDE DEF T
<1>7. Width \in T
  BY <1>5, <1>6, CountingTo, WidthType
<1>8. Number(w)[Width] = v
  <2>1. Width <= Width /\ Width - Width = 0
    BY WidthType
  <2> QED BY <2>1, <1>4, <1>7 DEF T
<1>9. v % P = v
  BY WidthType DEF Field
<1> QED BY <1>1, <1>8, <1>9 DEF ModOrder, w

(* Hence what the SDK writes is canonical, and no two elements share their bytes. *)
LEMMA WrittenCanonical ==
    ASSUME NEW v \in Field
    PROVE  IsCanonicalField(FieldBytes(v)) /\ \A u \in Field : FieldBytes(u) = FieldBytes(v) => u = v
<1>1. ModOrder(FieldBytes(v)) = v /\ \A u \in Field : ModOrder(FieldBytes(u)) = u
  BY ReadBack
<1> QED BY <1>1 DEF IsCanonicalField

-----------------------------------------------------------------------------
(* What the SDK builds, the program accepts. *)

(* Two parts in a row, as the fold of FlattenSeq leaves them. *)
LEMMA FlattenTwo ==
    ASSUME NEW parts, Len(parts) = 2
    PROVE  FlattenSeq(parts) = parts[1] \o parts[2]
<1> DEFINE IsFlat(f) == f = [i \in 1 .. Len(parts) |->
                                IF i = 1 THEN parts[i] ELSE f[i - 1] \o parts[i]]
           g == <<parts[1], parts[1] \o parts[2]>>
<1>1. FlattenSeq(parts) = (CHOOSE f : IsFlat(f))[Len(parts)]
  BY DEF FlattenSeq
<1>2. ASSUME NEW f, IsFlat(f)
      PROVE  f[2] = parts[1] \o parts[2]
  <2>1. \A i \in 1 .. 2 : f[i] = IF i = 1 THEN parts[i] ELSE f[i - 1] \o parts[i]
    BY <1>2
  <2> HIDE DEF IsFlat
  <2>2. f[1] = parts[1]
    BY <2>1
  <2>3. f[2] = f[1] \o parts[2]
    <3>1. 2 \in 1 .. 2 /\ 2 # 1 /\ 2 - 1 = 1
      OBVIOUS
    <3> QED BY <3>1, <2>1
  <2> QED BY <2>2, <2>3
<1>3. IsFlat(g)
  <2>1. g = [i \in 1 .. 2 |-> g[i]] /\ g[1] = parts[1] /\ g[2] = parts[1] \o parts[2]
    OBVIOUS
  <2> HIDE DEF g
  <2>2. ASSUME NEW i \in 1 .. 2
        PROVE  g[i] = IF i = 1 THEN parts[i] ELSE g[i - 1] \o parts[i]
    <3>1. CASE i = 1
      BY <3>1, <2>1
    <3>2. CASE i = 2
      <4>1. i # 1 /\ i - 1 = 1
        BY <3>2
      <4>2. g[i] = g[i - 1] \o parts[i]
        BY <4>1, <3>2, <2>1, Zenon
      <4> QED BY <4>1, <4>2, Zenon
    <3> QED BY <3>1, <3>2
  <2> QED BY <2>1, <2>2
<1> HIDE DEF IsFlat, g
<1>4. IsFlat(CHOOSE f : IsFlat(f))
  BY <1>3
<1> QED BY <1>1, <1>2, <1>4

(* Different words have different record addresses. *)
LEMMA AddressesDiffer ==
    ASSUME NEW config, NEW u, NEW w, IsSequence(u), IsSequence(w), Len(u) = Len(w),
           NullifierAddress(config, u) = NullifierAddress(config, w)
    PROVE  u = w
<1> DEFINE tag == <<"nullifier", PoolAddress(config)>>
           S == Range(u) \cup Range(w) \cup {"nullifier", PoolAddress(config)}
<1>1. FlattenSeq(<<tag, u>>) = FlattenSeq(<<tag, w>>)
  BY DEF NullifierAddress, FindProgramAddress
<1>2. FlattenSeq(<<tag, u>>) = tag \o u /\ FlattenSeq(<<tag, w>>) = tag \o w
  <2>1. \A x : FlattenSeq(<<tag, x>>) = tag \o x
    <3> SUFFICES ASSUME NEW x PROVE FlattenSeq(<<tag, x>>) = tag \o x
      OBVIOUS
    <3>1. PICK parts : parts = <<tag, x>>
      OBVIOUS
    <3>2. Len(parts) = 2 /\ parts[1] = tag /\ parts[2] = x
      BY <3>1
    <3> HIDE DEF tag
    <3>3. FlattenSeq(parts) = tag \o x
      BY <3>2, FlattenTwo
    <3> QED BY <3>1, <3>3
  <2> QED BY <2>1
<1>3. u \in Seq(S) /\ w \in Seq(S) /\ tag \in Seq(S)
  <2>1. Range(u) \subseteq S /\ Range(w) \subseteq S
    OBVIOUS
  <2>2. tag \in Seq(S)
    OBVIOUS
  <2> HIDE DEF S
  <2> QED BY <2>1, <2>2, Widened
<1> HIDE DEF tag, S
<1>4. PICK Z : Z = tag \o u /\ Z = tag \o w
  BY <1>1, <1>2
<1>5. Z \in Seq(S)
  BY <1>3, <1>4
<1>6. Found(Z, Len(tag), u) /\ Found(Z, Len(tag), w)
  BY <1>3, <1>4, <1>5, BeginsSelf, PartFound
<1> QED BY <1>6, Zenon DEF Found

(* Strings put one after the other, under a name so that the provers reason
   by the laws below alone. *)
Chained(A, B) == A \o B

LEMMA ChainedLaws ==
    ASSUME NEW S, NEW A \in Seq(S), NEW B \in Seq(S), NEW C \in Seq(S)
    PROVE  Chained(A, B) \in Seq(S) /\ Chained(A, Chained(B, C)) = Chained(Chained(A, B), C)
BY DEF Chained

(* The verifier reads the words it was given. *)
LEMMA WitnessFields ==
    ASSUME NEW p1, NEW p2, NEW p3, NEW p4, NEW p5, NEW p6,
           IsWord(p1), IsWord(p2), IsWord(p3), IsWord(p4), IsWord(p5), IsWord(p6), NEW hash
    PROVE  ReadWitness(Witness(<<p1, p2, p3, p4, p5, p6>>, hash))
             = [fields |-> <<ModOrder(p1), ModOrder(p2), ModOrder(p3),
                             ModOrder(p4), ModOrder(p5), ModOrder(p6)>>,
                hash   |-> hash]
<1>1. PICK parts : parts = <<p1, p2, p3, p4, p5, p6>>
  OBVIOUS
<1>2. /\ Len(parts) = 6
      /\ parts[1] = p1 /\ parts[2] = p2 /\ parts[3] = p3
      /\ parts[4] = p4 /\ parts[5] = p5 /\ parts[6] = p6
  BY <1>1
<1>3. FlattenSeq(parts) = p1 \o p2 \o p3 \o p4 \o p5 \o p6
  BY <1>2, FlattenSix
<1>4. PICK S : /\ p1 \in Seq(S) /\ p2 \in Seq(S) /\ p3 \in Seq(S)
               /\ p4 \in Seq(S) /\ p5 \in Seq(S) /\ p6 \in Seq(S)
               /\ hash \in S /\ Header \in Seq(S)
  <2>1. PICK S : S = Range(p1) \cup Range(p2) \cup Range(p3) \cup Range(p4) \cup Range(p5)
                       \cup Range(p6) \cup {hash, 7, 0}
    OBVIOUS
  <2>2. /\ Range(p1) \subseteq S /\ Range(p2) \subseteq S /\ Range(p3) \subseteq S
        /\ Range(p4) \subseteq S /\ Range(p5) \subseteq S /\ Range(p6) \subseteq S
        /\ hash \in S /\ 7 \in S /\ 0 \in S
    BY <2>1
  <2>3. /\ p1 \in Seq(S) /\ p2 \in Seq(S) /\ p3 \in Seq(S)
        /\ p4 \in Seq(S) /\ p5 \in Seq(S) /\ p6 \in Seq(S)
    BY <2>2, Widened DEF IsWord
  <2>4. Header \in Seq(S)
    BY <2>2 DEF Header
  <2> QED BY <2>2, <2>3, <2>4, Zenon
<1>5. /\ Len(p1) = Width /\ Len(p2) = Width /\ Len(p3) = Width
      /\ Len(p4) = Width /\ Len(p5) = Width /\ Len(p6) = Width /\ Len(Header) = 3
  BY DEF IsWord, Header
<1>6. Width \in Nat
  BY WidthType
<1> DEFINE flat == p1 \o p2 \o p3 \o p4 \o p5 \o p6
           e1 == Header \o p1
           e2 == e1 \o p2
           e3 == e2 \o p3
           e4 == e3 \o p4
           e5 == e4 \o p5
           e6 == e5 \o p6
           Z  == e6 \o <<hash>>
<1>7. /\ e1 \in Seq(S) /\ e2 \in Seq(S) /\ e3 \in Seq(S) /\ e4 \in Seq(S)
      /\ e5 \in Seq(S) /\ e6 \in Seq(S) /\ Z \in Seq(S) /\ <<hash>> \in Seq(S)
  BY <1>4
<1> HIDE DEF flat
<1>8. /\ Z = e6 \o <<hash>> /\ e6 = e5 \o p6 /\ e5 = e4 \o p5 /\ e4 = e3 \o p4
      /\ e3 = e2 \o p3 /\ e2 = e1 \o p2 /\ e1 = Header \o p1
  OBVIOUS
<1> HIDE DEF e1, e2, e3, e4, e5, e6, Z
<1>9. Witness(parts, hash) = Z
  <2> DEFINE q2 == Chained(p1, p2)
             q3 == Chained(q2, p3)
             q4 == Chained(q3, p4)
             q5 == Chained(q4, p5)
  <2>1. q2 \in Seq(S) /\ q3 \in Seq(S) /\ q4 \in Seq(S) /\ q5 \in Seq(S)
    BY <1>4, ChainedLaws
  <2> HIDE DEF q2, q3, q4, q5
  <2>2. Chained(Header, q2) = e2
    <3>1. Chained(Header, q2) = Chained(Chained(Header, p1), p2)
      BY <1>4, ChainedLaws DEF q2
    <3> QED BY <3>1, <1>8, Zenon DEF Chained
  <2>3. Chained(Header, q3) = Chained(Chained(Header, q2), p3)
    BY <1>4, <2>1, ChainedLaws DEF q3
  <2>4. Chained(Header, q4) = Chained(Chained(Header, q3), p4)
    BY <1>4, <2>1, ChainedLaws DEF q4
  <2>5. Chained(Header, q5) = Chained(Chained(Header, q4), p5)
    BY <1>4, <2>1, ChainedLaws DEF q5
  <2>6. Chained(Header, Chained(q5, p6)) = Chained(Chained(Header, q5), p6)
    BY <1>4, <2>1, ChainedLaws
  <2>7. /\ e3 = Chained(e2, p3) /\ e4 = Chained(e3, p4)
        /\ e5 = Chained(e4, p5) /\ e6 = Chained(e5, p6)
    BY <1>8 DEF Chained
  <2>8. Chained(Header, Chained(q5, p6)) = e6
    BY <2>2, <2>3, <2>4, <2>5, <2>6, <2>7
  <2>9. Header \o flat = e6
    BY <2>8, Zenon DEF Chained, flat, q2, q3, q4, q5
  <2> QED BY <1>3, <1>8, <2>9 DEF Witness, flat
<1>10. /\ Len(e1) = 3 + Width /\ Len(e2) = 3 + 2 * Width /\ Len(e3) = 3 + 3 * Width
       /\ Len(e4) = 3 + 4 * Width /\ Len(e5) = 3 + 5 * Width
  <2>1. \A A, B \in Seq(S) : Len(A \o B) = Len(A) + Len(B)
    OBVIOUS
  <2>2. /\ Len(e1) = Len(Header) + Len(p1) /\ Len(e2) = Len(e1) + Len(p2)
        /\ Len(e3) = Len(e2) + Len(p3) /\ Len(e4) = Len(e3) + Len(p4)
        /\ Len(e5) = Len(e4) + Len(p5)
    BY <2>1, <1>4, <1>7, <1>8, Zenon
  <2>3. /\ Len(e1) = 3 + Width /\ Len(e2) = Len(e1) + Width /\ Len(e3) = Len(e2) + Width
        /\ Len(e4) = Len(e3) + Width /\ Len(e5) = Len(e4) + Width
    BY <2>2, <1>5, Zenon
  <2>4. ASSUME NEW a, NEW b, NEW c, NEW d, NEW e, a = 3 + Width, b = a + Width, c = b + Width,
               d = c + Width, e = d + Width
        PROVE  a = 3 + Width /\ b = 3 + 2 * Width /\ c = 3 + 3 * Width
               /\ d = 3 + 4 * Width /\ e = 3 + 5 * Width
    BY <2>4, <1>6
  <2> QED BY <2>3, <2>4
<1>11. /\ Begins(e5 \o p6, Z) /\ Begins(e4 \o p5, Z) /\ Begins(e3 \o p4, Z)
       /\ Begins(e2 \o p3, Z) /\ Begins(e1 \o p2, Z) /\ Begins(Header \o p1, Z)
  <2>a. \A A, B \in Seq(S) : Begins(A \o B, Z) => Begins(A, Z)
    BY BeginsMore
  <2>1. Begins(e6, Z)
    BY <2>a, <1>7, <1>8, BeginsSelf
  <2>2. Begins(e5 \o p6, Z) /\ Begins(e5, Z)
    BY <2>1, <2>a, <1>4, <1>7, <1>8
  <2>3. Begins(e4 \o p5, Z) /\ Begins(e4, Z)
    BY <2>2, <2>a, <1>4, <1>7, <1>8
  <2>4. Begins(e3 \o p4, Z) /\ Begins(e3, Z)
    BY <2>3, <2>a, <1>4, <1>7, <1>8
  <2>5. Begins(e2 \o p3, Z) /\ Begins(e2, Z)
    BY <2>4, <2>a, <1>4, <1>7, <1>8
  <2>6. Begins(e1 \o p2, Z) /\ Begins(e1, Z)
    BY <2>5, <2>a, <1>4, <1>7, <1>8
  <2> QED BY <2>2, <2>3, <2>4, <2>5, <2>6, <1>8
<1>12. /\ Found(Z, Len(Header), p1) /\ Found(Z, Len(e1), p2) /\ Found(Z, Len(e2), p3)
       /\ Found(Z, Len(e3), p4) /\ Found(Z, Len(e4), p5) /\ Found(Z, Len(e5), p6)
  BY <1>4, <1>7, <1>11, PartFound
<1> DEFINE At(k) == SubSeq(Z, Len(Header) + (k - 1) * Width + 1, Len(Header) + (k - 1) * Width + Width)
<1>13. At(1) = p1 /\ At(2) = p2 /\ At(3) = p3 /\ At(4) = p4 /\ At(5) = p5 /\ At(6) = p6
  <2>1. /\ SubSeq(Z, Len(Header) + 1, Len(Header) + Len(p1)) = p1
        /\ SubSeq(Z, Len(e1) + 1, Len(e1) + Len(p2)) = p2
        /\ SubSeq(Z, Len(e2) + 1, Len(e2) + Len(p3)) = p3
        /\ SubSeq(Z, Len(e3) + 1, Len(e3) + Len(p4)) = p4
        /\ SubSeq(Z, Len(e4) + 1, Len(e4) + Len(p5)) = p5
        /\ SubSeq(Z, Len(e5) + 1, Len(e5) + Len(p6)) = p6
    BY <1>12, Zenon DEF Found
  <2>2. /\ Len(Header) + (1 - 1) * Width = Len(Header)
        /\ Len(Header) + (2 - 1) * Width = Len(e1)
        /\ Len(Header) + (3 - 1) * Width = Len(e2)
        /\ Len(Header) + (4 - 1) * Width = Len(e3)
        /\ Len(Header) + (5 - 1) * Width = Len(e4)
        /\ Len(Header) + (6 - 1) * Width = Len(e5)
    BY <1>5, <1>6, <1>10
  <2> QED BY <2>1, <2>2, <1>5
<1> HIDE DEF At
<1>14. ReadWitness(Z).fields = [k \in 1 .. 6 |-> ModOrder(At(k))]
  BY DEF ReadWitness, At
<1>15. [k \in 1 .. 6 |-> ModOrder(At(k))]
         = <<ModOrder(p1), ModOrder(p2), ModOrder(p3), ModOrder(p4), ModOrder(p5), ModOrder(p6)>>
  BY <1>13
<1>16. ReadWitness(Z).hash = hash
  <2>1. \A A \in Seq(S) : A \o <<hash>> = Append(A, hash)
    BY <1>4
  <2>2. \A A \in Seq(S) : Last(Append(A, hash)) = hash
    BY <1>4 DEF Last
  <2>3. Last(Z) = hash
    BY <2>1, <2>2, <1>7, <1>8, Zenon
  <2> QED BY <2>3 DEF ReadWitness
<1>17. ReadWitness(Z) = [fields |-> ReadWitness(Z).fields, hash |-> ReadWitness(Z).hash]
  BY DEF ReadWitness
<1> QED BY <1>1, <1>9, <1>14, <1>15, <1>16, <1>17

(* A proof is made from its plan, as the SDK makes it. *)
Made(proof) ==
    /\ ProofBound(proof)
    /\ proof.fields = Fields(proof.plan)
    /\ \A s \in Slots : Len(proof.plan.notes[s]) <= MaxPayload

MadeInv == \A proof \in proofs : Made(proof)

LEMMA MadeNext == MadeInv /\ [Next]_vars => MadeInv'
<1> SUFFICES ASSUME MadeInv, [Next]_vars PROVE \A proof \in proofs' : Made(proof)
  BY DEF MadeInv, Made, ProofBound
<1>1. CASE DoProve
  <2>1. PICK plan \in Plans : Prove(plan)
    BY <1>1 DEF DoProve
  <2>2. PICK proof : /\ proof = [fields |-> Fields(plan),
                                 hash   |-> External(Config[plan.deployment], plan.recipient,
                                                     plan.amount, plan.notes),
                                 plan   |-> plan]
                     /\ proofs' = proofs \cup {proof}
                     /\ \A s \in Slots : Len(plan.notes[s]) <= MaxPayload
    BY <2>1 DEF Prove
  <2>3. Made(proof)
    BY <2>2 DEF Made, ProofBound
  <2> QED BY <2>2, <2>3 DEF MadeInv
<1>2. CASE DoTransact
  BY <1>2 DEF DoTransact, Transact, MadeInv
<1>3. CASE UNCHANGED vars
  BY <1>3 DEF vars, MadeInv
<1> QED BY <1>1, <1>2, <1>3 DEF Next

(* The arguments say what a plan says, element by element and byte by byte. *)
Spelled(args, plan) ==
    /\ args.root = FieldBytes(plan.root)
    /\ \A s \in Slots : /\ args.nullifiers[s] = FieldBytes(plan.nullifiers[s])
                        /\ args.commitments[s] = FieldBytes(plan.commitments[s])
    /\ args.amount = plan.amount /\ args.recipient = plan.recipient
    /\ args.notes = plan.notes

(* The arguments the SDK makes of a proof. *)
LEMMA SdkArgsOf ==
    ASSUME NEW proof, Made(proof), NEW plan, plan = proof.plan
    PROVE  Shaped(SdkArgs(proof)) /\ SdkArgs(proof).proof = proof /\ Spelled(SdkArgs(proof), plan)
<1>1. PICK args : args = SdkArgs(proof)
  OBVIOUS
<1>2. /\ args.proof = proof /\ args.root = FieldBytes(proof.fields[1])
      /\ \A s \in Slots : /\ args.nullifiers[s] = FieldBytes(proof.fields[1 + s])
                          /\ args.commitments[s] = FieldBytes(proof.fields[3 + s])
      /\ args.amount = plan.amount /\ args.recipient = plan.recipient /\ args.notes = plan.notes
  BY <1>1 DEF SdkArgs
<1>3. /\ proof.fields[1] = plan.root
      /\ proof.fields[2] = plan.nullifiers[1] /\ proof.fields[3] = plan.nullifiers[2]
      /\ proof.fields[4] = plan.commitments[1] /\ proof.fields[5] = plan.commitments[2]
  BY DEF Made, Fields
<1>4. \A s \in Slots : /\ proof.fields[1 + s] = plan.nullifiers[s]
                       /\ proof.fields[3 + s] = plan.commitments[s]
  <2>1. \A s \in Slots : (s = 1 /\ 1 + s = 2 /\ 3 + s = 4) \/ (s = 2 /\ 1 + s = 3 /\ 3 + s = 5)
    BY DEF Slots
  <2> QED BY <2>1, <1>3
<1>5. \A s \in Slots : IsSequence(plan.notes[s])
  <2>1. plan.notes \in [Slots -> Seq(Bytes)]
    BY WireAssumption DEF Made, ProofBound
  <2> QED BY <2>1, IsSequenceOf
<1>6. Shaped(args)
  BY <1>2, <1>5, FieldBytesIsWord DEF Shaped
<1>7. Spelled(args, plan)
  <2>1. args.root = FieldBytes(plan.root)
    BY <1>2, <1>3
  <2>2. \A s \in Slots : /\ args.nullifiers[s] = FieldBytes(plan.nullifiers[s])
                         /\ args.commitments[s] = FieldBytes(plan.commitments[s])
    BY <1>2, <1>4, Zenon
  <2>3. args.amount = plan.amount /\ args.recipient = plan.recipient /\ args.notes = plan.notes
    BY <1>2
  <2> QED BY <2>1, <2>2, <2>3, Zenon DEF Spelled
<1> QED BY <1>1, <1>2, <1>6, <1>7

(* The accounts the SDK passes are those the program asks for. *)
LEMMA AccountsAccepted ==
    ASSUME NEW d \in Deployments, NEW args, NEW back, NEW payer \in Wallets, NEW config,
           config = Config[d],
           IsWord(args.nullifiers[1]), IsWord(args.nullifiers[2]),
           args.nullifiers[1] # args.nullifiers[2],
           \A s \in Slots : /\ back.nullifiers[s] = args.nullifiers[s]
                            /\ NullifierAddress(config, args.nullifiers[s]) \notin records[d],
           args.amount < 0 => args.recipient \in Wallets
    PROVE  AccountsValid(d, Accounts(config, args.nullifiers,
                                     RecipientAta(config, args.amount, args.recipient), payer), back)
<1> DEFINE account == RecipientAta(config, args.amount, args.recipient)
<1>1. account \in TokenAccounts /\ account.mint = config.mint
  BY DEF RecipientAta, TokenAccounts, Ata
<1>2. NullifierAddress(config, args.nullifiers[1]) # NullifierAddress(config, args.nullifiers[2])
  BY AddressesDiffer DEF IsWord
<1> HIDE DEF account
<1>3. PICK accounts : accounts = Accounts(config, args.nullifiers, account, payer)
  OBVIOUS
<1>4. /\ accounts[1] = PoolAddress(config) /\ accounts[2] = TreeAddress(config)
      /\ accounts[3] = Ata(PoolAddress(config), config.mint) /\ accounts[4] = config.mint
      /\ accounts[5] = NullifierAddress(config, args.nullifiers[1])
      /\ accounts[6] = NullifierAddress(config, args.nullifiers[2])
      /\ accounts[7] = account /\ accounts[8] = config.verifier /\ accounts[9] = payer
      /\ accounts[10] = TokenProgram /\ accounts[11] = SystemProgram
  BY <1>3 DEF Accounts
<1>5. \A s \in Slots : /\ accounts[4 + s] = NullifierAddress(config, back.nullifiers[s])
                       /\ accounts[4 + s] \notin records[d]
  <2>1. \A s \in Slots : (s = 1 /\ 4 + s = 5) \/ (s = 2 /\ 4 + s = 6)
    BY DEF Slots
  <2>2. \A s \in Slots : accounts[4 + s] = NullifierAddress(config, args.nullifiers[s])
    BY <2>1, <1>4
  <2> QED BY <2>2
<1>6. AccountsValid(d, accounts, back)
  BY <1>1, <1>2, <1>4, <1>5 DEF AccountsValid
<1> QED BY <1>3, <1>6 DEF account

(* What the SDK wrote passes the program's checks of the arguments. *)
LEMMA ArgumentsAccepted ==
    ASSUME NEW plan \in Plans, NEW back, Spelled(back, plan),
           \A s \in Slots : Len(plan.notes[s]) <= MaxPayload,
           NEW config, plan.amount < 0 => plan.recipient # PoolAddress(config), NEW accounts,
           accounts[3] = Ata(PoolAddress(config), config.mint),
           accounts[7] = RecipientAta(config, plan.amount, plan.recipient)
    PROVE  ValidArguments(accounts, back) /\ back.nullifiers[1] # back.nullifiers[2]
<1>0. /\ back.root = FieldBytes(plan.root)
      /\ \A s \in Slots : /\ back.nullifiers[s] = FieldBytes(plan.nullifiers[s])
                          /\ back.commitments[s] = FieldBytes(plan.commitments[s])
      /\ back.amount = plan.amount /\ back.recipient = plan.recipient
      /\ back.notes = plan.notes
  BY DEF Spelled
<1>1. /\ plan.root \in Field /\ 0 \in Field
      /\ \A s \in Slots : /\ plan.nullifiers[s] \in Field /\ plan.nullifiers[s] # 0
                          /\ plan.commitments[s] \in Field
      /\ plan.nullifiers[1] # plan.nullifiers[2] /\ plan.amount <= 0
  <2>1. 0 \in Field
    BY WidthType DEF Field
  <2>2. /\ plan.nullifiers \in [Slots -> Field \ {0}] /\ plan.commitments \in [Slots -> Field]
    BY PlanAssumption
  <2> QED BY <2>1, <2>2, PlanAssumption
<1>2. Canonical(back)
  BY <1>0, <1>1, WrittenCanonical DEF Canonical
<1>3. \A s \in Slots : back.nullifiers[s] # ZeroWord
  BY <1>0, <1>1, WrittenCanonical DEF ZeroWord
<1>4. back.nullifiers[1] # back.nullifiers[2]
  <2>1. 1 \in Slots /\ 2 \in Slots
    BY DEF Slots
  <2> QED BY <2>1, <1>0, <1>1, WrittenCanonical
<1>5. plan.amount < 0 => accounts[7] # accounts[3] /\ accounts[7].owner = plan.recipient
  <2> SUFFICES ASSUME plan.amount < 0
               PROVE  accounts[7] # accounts[3] /\ accounts[7].owner = plan.recipient
    OBVIOUS
  <2>1. accounts[7].owner = plan.recipient
    BY DEF RecipientAta, Ata
  <2>2. accounts[3].owner = PoolAddress(config)
    BY DEF Ata
  <2>3. plan.recipient # PoolAddress(config)
    OBVIOUS
  <2> QED BY <2>1, <2>2, <2>3
<1>6. back.amount <= 0 /\ \A s \in Slots : Len(back.notes[s]) <= MaxPayload
  BY <1>0, <1>1
<1> QED BY <1>0, <1>2, <1>3, <1>4, <1>5, <1>6 DEF ValidArguments

(* The elements and the hash under the proof are those the program computes. *)
LEMMA ProofAccepted ==
    ASSUME NEW proof \in proofs, Made(proof), NEW plan, plan = proof.plan,
           NEW back, back.proof = proof, Spelled(back, plan)
    PROVE  VerifiedArgs(plan.deployment, back)
<1>1. PICK n1, n2, c1, c2 : /\ n1 = plan.nullifiers[1] /\ n2 = plan.nullifiers[2]
                            /\ c1 = plan.commitments[1] /\ c2 = plan.commitments[2]
  OBVIOUS
<1>2. /\ plan \in Plans /\ plan.root \in Field /\ n1 \in Field /\ n2 \in Field
      /\ c1 \in Field /\ c2 \in Field /\ plan.amount \in Int
  <2>1. plan \in Plans
    BY DEF Made, ProofBound
  <2>2. plan.root \in Field /\ plan.amount \in Int
    BY <2>1, PlanAssumption, WireAssumption
  <2>3. plan.nullifiers \in [Slots -> Field] /\ plan.commitments \in [Slots -> Field]
    <3>1. /\ plan.nullifiers \in [Slots -> Field \ {0}] /\ plan.commitments \in [Slots -> Field]
      BY <2>1, PlanAssumption
    <3> QED BY <3>1
  <2>4. 1 \in Slots /\ 2 \in Slots
    BY DEF Slots
  <2> QED BY <1>1, <2>1, <2>2, <2>3, <2>4
<1>3. PICK hash : hash = External(Config[plan.deployment], plan.recipient, plan.amount, plan.notes)
  OBVIOUS
<1>4. PublicAmountField(plan.amount) = FromSigned(plan.amount)
  BY <1>2 DEF PublicAmountField, FromSigned
<1>5. PICK p1, p2, p3, p4, p5, p6 :
         /\ p1 = FieldBytes(plan.root) /\ p2 = FieldBytes(n1) /\ p3 = FieldBytes(n2)
         /\ p4 = FieldBytes(c1) /\ p5 = FieldBytes(c2) /\ p6 = FromSigned(plan.amount)
  OBVIOUS
<1>6. IsWord(p1) /\ IsWord(p2) /\ IsWord(p3) /\ IsWord(p4) /\ IsWord(p5) /\ IsWord(p6)
  BY <1>5, FieldBytesIsWord DEF FromSigned
<1>7. PICK witness : witness = Witness(<<p1, p2, p3, p4, p5, p6>>, hash)
  OBVIOUS
<1>8. ReadWitness(witness)
        = [fields |-> <<ModOrder(p1), ModOrder(p2), ModOrder(p3),
                        ModOrder(p4), ModOrder(p5), ModOrder(p6)>>, hash |-> hash]
  BY <1>6, <1>7, WitnessFields
<1>9. /\ ModOrder(p1) = plan.root /\ ModOrder(p2) = n1 /\ ModOrder(p3) = n2
      /\ ModOrder(p4) = c1 /\ ModOrder(p5) = c2
  BY <1>2, <1>5, ReadBack
<1>10. proof.fields = <<ModOrder(p1), ModOrder(p2), ModOrder(p3),
                        ModOrder(p4), ModOrder(p5), ModOrder(p6)>>
  BY <1>1, <1>5, <1>9 DEF Made, Fields
<1>11. proof.hash = hash
  BY <1>3 DEF Made, ProofBound
<1>12. Verify(proof, witness)
  BY <1>8, <1>10, <1>11 DEF Verify
<1>13. /\ back.root = p1 /\ back.nullifiers[1] = p2 /\ back.nullifiers[2] = p3
       /\ back.commitments[1] = p4 /\ back.commitments[2] = p5
       /\ PublicAmountField(back.amount) = p6
  BY <1>1, <1>4, <1>5 DEF Slots, Spelled
<1>14. External(Config[plan.deployment], back.recipient, back.amount, back.notes) = hash
  BY <1>3 DEF Spelled
<1> QED BY <1>7, <1>12, <1>13, <1>14 DEF VerifiedArgs

LEMMA MadeAccepted ==
    ASSUME NEW proof \in proofs, Made(proof), NEW payer \in Wallets,
           NEW plan, plan = proof.plan, NEW args, args = SdkArgs(proof),
           NEW config, config = Config[plan.deployment], plan.root \in Roots,
           \A s \in Slots : NullifierAddress(config, args.nullifiers[s]) \notin records[plan.deployment]
    PROVE  Accepts(plan.deployment,
                   Instruction(config, args, RecipientAta(config, args.amount, args.recipient), payer))
<1>1. Shaped(args) /\ args.proof = proof /\ Spelled(args, plan)
  BY SdkArgsOf
<1>2. /\ plan \in Plans /\ plan.deployment \in Deployments
      /\ plan.notes \in [Slots -> Seq(Bytes)]
      /\ plan.amount < 0 => plan.recipient \in Wallets
  BY WireAssumption, PlanAssumption DEF Made, ProofBound
<1>3. PICK back, account, accounts, instruction :
         /\ back = Decoded(Encoded(args))
         /\ account = RecipientAta(config, args.amount, args.recipient)
         /\ accounts = Accounts(config, args.nullifiers, account, payer)
         /\ instruction = Instruction(config, args, account, payer)
  OBVIOUS
<1>4. /\ back.proof = proof /\ back.root = args.root
      /\ \A s \in Slots : /\ back.nullifiers[s] = args.nullifiers[s]
                          /\ back.commitments[s] = args.commitments[s]
      /\ back.amount = args.amount /\ back.recipient = args.recipient
      /\ back.notes = args.notes
  <2>1. \A notes \in [Slots -> Seq(Bytes)] : notes = <<notes[1], notes[2]>>
    BY DEF Slots
  <2>2. args.notes = <<args.notes[1], args.notes[2]>>
    BY <2>1, <1>1, <1>2 DEF Spelled
  <2>3. back.notes = <<args.notes[1], args.notes[2]>>
    BY <1>1, <1>3, DecodesEncoded
  <2>4. back.notes = args.notes
    BY <2>2, <2>3, Zenon
  <2> QED BY <2>4, <1>1, <1>3, DecodesEncoded
<1>5. Spelled(back, plan)
  BY <1>1, <1>4 DEF Spelled
<1>6. ValidArguments(accounts, back) /\ back.nullifiers[1] # back.nullifiers[2]
  <2>1. \A s \in Slots : Len(plan.notes[s]) <= MaxPayload
    BY DEF Made
  <2>2. /\ accounts[3] = Ata(PoolAddress(config), config.mint)
        /\ accounts[7] = RecipientAta(config, plan.amount, plan.recipient)
    BY <1>1, <1>3 DEF Accounts, Spelled
  <2>3. plan.amount < 0 => plan.recipient # PoolAddress(config)
    BY <1>2, PlanAssumption
  <2> QED BY <2>1, <2>2, <2>3, <1>2, <1>5, ArgumentsAccepted
<1>7. AccountsValid(plan.deployment, accounts, back)
  <2>1. IsWord(args.nullifiers[1]) /\ IsWord(args.nullifiers[2])
    BY <1>1 DEF Shaped, Slots
  <2>2. args.nullifiers[1] # args.nullifiers[2]
    BY <1>4, <1>6 DEF Slots
  <2>3. args.amount < 0 => args.recipient \in Wallets
    BY <1>1, <1>2 DEF Spelled
  <2>4. \A s \in Slots :
           /\ back.nullifiers[s] = args.nullifiers[s]
           /\ NullifierAddress(config, args.nullifiers[s]) \notin records[plan.deployment]
    BY <1>4
  <2> QED BY <2>1, <2>2, <2>3, <2>4, <1>2, <1>3, AccountsAccepted
<1>8. VerifiedArgs(plan.deployment, back)
  BY <1>4, <1>5, ProofAccepted
<1>9. ContainsRoot(back.root)
  BY <1>5 DEF ContainsRoot, Spelled
<1>10. instruction.data = Encoded(args) /\ instruction.accounts = accounts
       /\ instruction.program = config.program
  BY <1>3 DEF Instruction
<1>11. Accepts(plan.deployment, instruction)
  BY <1>3, <1>6, <1>7, <1>8, <1>9, <1>10 DEF Accepts
<1> QED BY <1>3, <1>11

(* What the SDK builds for a pool the pool accepts, by whomever it is paid for,
   while its root is known and neither nullifier is recorded: both sides write
   and read every element, payload and address alike, for every width of word
   and every field that fits in it. *)
THEOREM PreparedAlwaysAccepted == Spec => []PreparedAccepted
<1>1. Init => MadeInv
  BY DEF Init, MadeInv
<1>2. Spec => []MadeInv
  BY <1>1, MadeNext, PTL DEF Spec
<1>3. MadeInv => PreparedAccepted
  BY MadeAccepted DEF MadeInv, PreparedAccepted
<1> QED BY <1>2, <1>3, PTL

=============================================================================
