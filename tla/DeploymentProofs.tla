-------------------------- MODULE DeploymentProofs --------------------------
(***************************************************************************)
(* Proofs about Deployment, for any programs, users and configurations: a  *)
(* pool is created by the authority of the moment, once, and an abandoned  *)
(* program never has one.                                                  *)
(***************************************************************************)
EXTENDS Deployment, TLAPS

(* What each variable holds.  Nobody may be an authority, never a signer. *)
TypeOK ==
    /\ authority \in [Programs -> Users \cup {Nobody}]
    /\ signed \subseteq InitArgs
    /\ atas \subseteq Mints
    /\ pool \in Config \cup {NoPool}
    /\ initialiser \in Users \cup {Nobody}

(* A pool was created by a user, together with its vault. *)
PoolSound == pool # NoPool => initialiser \in Users /\ pool.mint \in atas

DeploymentInv == TypeOK /\ PoolSound

(* Every step is one of the loader, of a token account's creator, of a signer
   or an init_pool. *)
LEMMA DeploymentCases ==
    ASSUME Next,
           NEW G,
           \A program \in Programs, new \in Users \cup {Nobody} : SetAuthority(program, new) => G,
           \A mint \in Mints : CreateAta(mint) => G,
           \A args \in InitArgs : Sign(args) => G,
           \A args \in InitArgs : InitPool(args) => G
    PROVE  G
BY DEF Next

(* An init_pool that is signed names a user, a mint and a configuration. *)
LEMMA SignedArgs ==
    ASSUME NEW args \in InitArgs
    PROVE  args.signer \in Users /\ args.config \in Config /\ args.config.mint \in Mints
BY DEF InitArgs, Config

(* initialize.rs: whoever may have changed the authority meanwhile, a pool there
   is was created by a user, and never without its vault. *)
THEOREM DeploymentCorrect == Spec => []DeploymentInv
<1>1. Init => DeploymentInv
  BY DEF Init, DeploymentInv, TypeOK, PoolSound
<1>2. DeploymentInv /\ [Next]_vars => DeploymentInv'
  <2> SUFFICES ASSUME DeploymentInv, [Next]_vars PROVE DeploymentInv'
    OBVIOUS
  <2> USE DEF DeploymentInv, TypeOK, PoolSound
  <2>1. ASSUME NEW program \in Programs, NEW new \in Users \cup {Nobody},
               SetAuthority(program, new)
        PROVE  DeploymentInv'
    BY <2>1 DEF SetAuthority
  <2>2. ASSUME NEW mint \in Mints, CreateAta(mint) PROVE DeploymentInv'
    BY <2>2 DEF CreateAta
  <2>3. ASSUME NEW args \in InitArgs, Sign(args) PROVE DeploymentInv'
    BY <2>3 DEF Sign
  <2>4. ASSUME NEW args \in InitArgs, InitPool(args) PROVE DeploymentInv'
    BY <2>4, SignedArgs DEF InitPool
  <2>5. CASE UNCHANGED vars
    BY <2>5 DEF vars
  <2> QED BY <2>1, <2>2, <2>3, <2>4, <2>5, DeploymentCases
<1> QED BY <1>1, <1>2, PTL DEF Spec

(* initialize.rs:37-40.  Only init_pool makes a pool, and only where there is
   none; its signer is then the pool program's authority of that moment, since
   the account it was shown is constrained to be that program's. *)
THEOREM AlwaysAuthorityInitialises == Spec => OnlyAuthorityInitialises
<1> DEFINE Rightly == pool' # pool => pool = NoPool /\ initialiser' = authority[PoolProgram]
<1>1. [Next]_vars => [Rightly]_vars
  <2> SUFFICES ASSUME [Next]_vars PROVE Rightly
    OBVIOUS
  <2>1. ASSUME NEW program \in Programs, NEW new \in Users \cup {Nobody},
               SetAuthority(program, new)
        PROVE  Rightly
    BY <2>1 DEF SetAuthority
  <2>2. ASSUME NEW mint \in Mints, CreateAta(mint) PROVE Rightly
    BY <2>2 DEF CreateAta
  <2>3. ASSUME NEW args \in InitArgs, Sign(args) PROVE Rightly
    BY <2>3 DEF Sign
  <2>4. ASSUME NEW args \in InitArgs, InitPool(args) PROVE Rightly
    BY <2>4 DEF InitPool, AccountsAbsent, Authorized
  <2>5. CASE UNCHANGED vars
    BY <2>5 DEF vars
  <2> HIDE DEF Rightly
  <2> QED BY <2>1, <2>2, <2>3, <2>4, <2>5, DeploymentCases
<1> QED BY <1>1, PTL DEF Spec, OnlyAuthorityInitialises

(* The loader refuses to give an authority to an immutable program, and no
   signature of init_pool can be that of an authority that is nobody. *)
THEOREM AlwaysAbandonedForGood == Spec => AbandonedForGood
<1>1. DeploymentInv /\ [Next]_vars => [Abandoned => Abandoned']_vars
  <2> SUFFICES ASSUME DeploymentInv, [Next]_vars, Abandoned PROVE Abandoned'
    OBVIOUS
  <2> USE DEF Abandoned
  <2>1. ASSUME NEW program \in Programs, NEW new \in Users \cup {Nobody},
               SetAuthority(program, new)
        PROVE  Abandoned'
    <3>1. program # PoolProgram
      BY <2>1 DEF SetAuthority
    <3> QED BY <2>1, <3>1, DeploymentAssumption DEF SetAuthority, DeploymentInv, TypeOK
  <2>2. ASSUME NEW mint \in Mints, CreateAta(mint) PROVE Abandoned'
    BY <2>2 DEF CreateAta
  <2>3. ASSUME NEW args \in InitArgs, Sign(args) PROVE Abandoned'
    BY <2>3 DEF Sign
  <2>4. ASSUME NEW args \in InitArgs, InitPool(args) PROVE Abandoned'
    <3>1. args.signer \in Users
      BY SignedArgs
    <3>2. args.signer = Nobody
      BY <2>4 DEF InitPool, Authorized
    <3> QED BY <3>1, <3>2, DeploymentAssumption
  <2>5. CASE UNCHANGED vars
    BY <2>5 DEF vars
  <2> QED BY <2>1, <2>2, <2>3, <2>4, <2>5, DeploymentCases
<1> QED BY <1>1, DeploymentCorrect, PTL DEF Spec, AbandonedForGood

=============================================================================
