----------------------------- MODULE Deployment -----------------------------
(***************************************************************************)
(* How a pool comes to be.  Pool takes the upgrade authority as given; in  *)
(* fact the loader keeps one for every program, in an account of its own   *)
(* that whoever holds it may hand on or give up at any time, and init_pool *)
(* is shown such an account by its caller.  An instruction is signed long  *)
(* before it executes, so it meets the authority of that later moment.     *)
(***************************************************************************)
EXTENDS Naturals, FiniteSets

CONSTANTS
    Users,
    Programs, PoolProgram,  \* upgradeable programs, the pool's among them
    Nobody,                 \* the authority of an immutable program
    Mints, Domains,
    NoPool,
    MaxSigned               \* init_pool instructions signed in one behaviour

ASSUME DeploymentAssumption ==
    /\ PoolProgram \in Programs
    /\ Nobody \notin Users /\ MaxSigned \in Nat
    /\ NoPool \notin [verifier : Programs, mint : Mints, domain : Domains]

VARIABLES
    authority,   \* the authority in each program's ProgramData account
    signed,      \* init_pool instructions signed so far
    atas,        \* the mints for which the pool PDA has a token account
    pool,        \* the pool account
    initialiser  \* ghost: who created it

vars == <<authority, signed, atas, pool, initialiser>>

Config == [verifier : Programs, mint : Mints, domain : Domains]

InitArgs == [signer : Users, programData : Programs, config : Config]

Init ==
    /\ authority \in [Programs -> Users]
    /\ signed = {} /\ atas = {}
    /\ pool = NoPool /\ initialiser = Nobody

-----------------------------------------------------------------------------
(* The loader's SetAuthority, and the permissionless creation of an
   associated token account. *)

SetAuthority(program, new) ==
    /\ authority[program] # Nobody
    /\ authority' = [authority EXCEPT ![program] = new]
    /\ UNCHANGED <<signed, atas, pool, initialiser>>

CreateAta(mint) ==
    /\ atas' = atas \cup {mint}
    /\ UNCHANGED <<authority, signed, pool, initialiser>>

Sign(args) ==
    /\ Cardinality(signed) < MaxSigned
    /\ signed' = signed \cup {args}
    /\ UNCHANGED <<authority, atas, pool, initialiser>>

-----------------------------------------------------------------------------
(* init_pool *)

(* Seeded fault: any program's ProgramData account will do. *)
AnyProgramData(args) == authority[args.programData] = args.signer

(* Seeded fault: an absent authority objects to nobody. *)
AuthorityIfAny(args) ==
    /\ args.programData = PoolProgram
    /\ authority[args.programData] \in {args.signer, Nobody}

(* The two constraints on program_data. *)
Authorized(args) ==
    /\ args.programData = PoolProgram
    /\ authority[args.programData] = args.signer

(* Pool, tree and vault are created, so none may exist. *)
AccountsAbsent(args) == pool = NoPool /\ args.config.mint \notin atas

InitPool(args) ==
    /\ args \in signed
    /\ Authorized(args)
    /\ AccountsAbsent(args)
    /\ pool' = args.config
    /\ atas' = atas \cup {args.config.mint}
    /\ initialiser' = args.signer
    /\ UNCHANGED <<authority, signed>>

Next ==
    \/ \E program \in Programs, new \in Users \cup {Nobody} : SetAuthority(program, new)
    \/ \E mint \in Mints : CreateAta(mint)
    \/ \E args \in InitArgs : Sign(args) \/ InitPool(args)

Spec == Init /\ [][Next]_vars

-----------------------------------------------------------------------------
(* initialize.rs:37-40.  The pool is created by whoever is the pool program's
   own authority when the instruction executes: neither a former authority
   whose instruction arrives late, nor the authority of another program.  Then
   it has its configuration for good, whatever the authority becomes and
   whatever it signed before. *)
OnlyAuthorityInitialises ==
    [][pool' # pool => pool = NoPool /\ initialiser' = authority[PoolProgram]]_vars

(* A program made immutable before its pool exists never has one. *)
Abandoned == authority[PoolProgram] = Nobody /\ pool = NoPool
AbandonedForGood == [][Abandoned => Abandoned']_vars

=============================================================================
