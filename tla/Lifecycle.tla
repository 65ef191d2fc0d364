------------------------------- MODULE Lifecycle -------------------------------
(***************************************************************************)
(* Who initialises and finalises what in spdk-io: SpdkEnv (env.rs), the    *)
(* thread library behind SpdkThread (thread.rs) and SpdkApp::run (app.rs), *)
(* called from several OS threads.  Two process-wide atomic flags stand    *)
(* for the state of the C side; each step between two accesses to shared   *)
(* state is an action, with pc[p] naming the place in the code.            *)
(*                                                                         *)
(* External: spdk_env_init succeeds once per process at most;              *)
(* spdk_thread_lib_init needs an environment; spdk_app_start brings up     *)
(* environment, library and an app thread, and spdk_app_fini takes all     *)
(* three down.  What SpdkThread::drop does with messages is ThreadMsg.     *)
(***************************************************************************)
EXTENDS Naturals, FiniteSets

CONSTANTS
    Procs,   \* OS threads
    Main,    \* the one that runs main()
    Objs,    \* SpdkThread values, and the app thread of a run
    None,    \* no value
    Nested,  \* lifetimes nest in Main's, as in thread_test.rs
    WithApp  \* SpdkApp::run is used too

ASSUME MainAssumption == Main \in Procs /\ None \notin Procs /\ None \notin Objs
ASSUME ModeAssumption == Nested \in BOOLEAN /\ WithApp \in BOOLEAN

VARIABLES
    envFlag,  \* ENV_INITIALIZED
    env,      \* the C environment: "down", "up", "finished"
    envOwner, \* the OS thread that holds the SpdkEnv guard, or None
    libFlag,  \* THREAD_LIB_INITIALIZED
    lib,      \* the C thread library: "down", "up"
    obj,      \* [Objs -> {"none", "live", "gone"}]
    owner,    \* [Objs -> Procs \cup {None}]: the OS thread it lives on
    tls,      \* [Procs -> Objs \cup {None}]: spdk_set_thread / spdk_get_thread
    pc,       \* [Procs -> Places]
    making,   \* [Procs -> Objs \cup {None}]: the SpdkThread under construction
    app       \* [Procs -> Objs \cup {None}]: the app thread of a run in progress

envVars == <<envFlag, env, envOwner>>
objVars == <<obj, owner, tls>>
vars == <<envVars, libFlag, lib, objVars, pc, making, app>>

Places == {"user",       \* code of the crate's user
           "env_build",  \* SpdkEnvBuilder::build, the flag swapped
           "env_store",  \* SpdkEnv::drop, before the flag is cleared
           "lib_init",   \* thread_lib_init, the flag swapped
           "create",     \* before spdk_thread_create
           "count",      \* SpdkThread::drop, destroyed, before count()
           "lib_swap",   \* thread_lib_fini, before the flag is swapped
           "lib_fini"}   \* before spdk_thread_lib_fini

TypeOK ==
    /\ envFlag \in BOOLEAN /\ libFlag \in BOOLEAN
    /\ env \in {"down", "up", "finished"} /\ lib \in {"down", "up"}
    /\ envOwner \in Procs \cup {None}
    /\ obj \in [Objs -> {"none", "live", "gone"}]
    /\ owner \in [Objs -> Procs \cup {None}]
    /\ tls \in [Procs -> Objs \cup {None}]
    /\ pc \in [Procs -> Places]
    /\ making \in [Procs -> Objs \cup {None}]
    /\ app \in [Procs -> Objs \cup {None}]

Init ==
    /\ envFlag = FALSE /\ env = "down" /\ envOwner = None
    /\ libFlag = FALSE /\ lib = "down"
    /\ obj = [s \in Objs |-> "none"]
    /\ owner = [s \in Objs |-> None]
    /\ tls = [p \in Procs |-> None]
    /\ pc = [p \in Procs |-> "user"]
    /\ making = [p \in Procs |-> None]
    /\ app = [p \in Procs |-> None]

-------------------------------------------------------------------------------
LiveOn(p) == {s \in Objs : obj[s] = "live" /\ owner[s] = p}
Quiet(p) == pc[p] = "user" /\ LiveOn(p) = {}
Goto(p, place) == pc' = [pc EXCEPT ![p] = place]

SlipKeepThread(p, s) == IF s = None THEN UNCHANGED tls ELSE tls' = [tls EXCEPT ![p] = s]

(* spdk_set_thread on the OS thread p. *)
SetThread(p, s) == tls' = [tls EXCEPT ![p] = s]

SlipClearLibFlag == UNCHANGED libFlag
ClearLibFlag == libFlag' = FALSE

SlipNoneLeft == Cardinality({s \in Objs : obj[s] = "live"}) <= 1  \* off by one

(* SpdkThread::count() == 0. *)
NoneLeft == \A s \in Objs : obj[s] # "live"

(* Callers set up an environment before their first SpdkThread.  Nested is *)
(* the nesting of thread_test.rs: Main's first SpdkThread comes first and  *)
(* its last one goes last, after the join of every other thread; and there *)
(* is none after the end of the environment.                               *)
MayMake(p) ==
    /\ env # "down"
    /\ Nested => env = "up" /\ (p # Main => LiveOn(Main) # {})
MayDrop(p, s) ==
    (Nested /\ p = Main /\ LiveOn(p) = {s}) => \A q \in Procs \ {Main} : Quiet(q)
MayEndEnv(p) == Nested => \A q \in Procs : LiveOn(q) = {} /\ (q # p => pc[q] = "user")

-------------------------------------------------------------------------------
SlipEnvBuild(p) ==  \* the flag is set, not swapped and tested
    /\ pc[p] = "user"
    /\ envFlag' = TRUE
    /\ Goto(p, "env_build")
    /\ UNCHANGED <<env, envOwner, libFlag, lib, objVars, making, app>>

(* SpdkEnvBuilder::build wins the swap (otherwise it returns               *)
(* AlreadyInitialized and changes nothing).                                *)
EnvBuild(p) ==
    /\ pc[p] = "user" /\ ~envFlag
    /\ envFlag' = TRUE
    /\ Goto(p, "env_build")
    /\ UNCHANGED <<env, envOwner, libFlag, lib, objVars, making, app>>

(* A name with a NUL byte: CString::new fails and `?' returns.             *)
EnvBadString(p) ==
    /\ pc[p] = "env_build"
    /\ Goto(p, "user")
    /\ UNCHANGED <<envVars, libFlag, lib, objVars, making, app>>

EnvInit(p, ok) ==
    /\ pc[p] = "env_build"
    /\ ok => env = "down"
    /\ IF ok THEN env' = "up" /\ envOwner' = p /\ UNCHANGED envFlag
             ELSE envFlag' = FALSE /\ UNCHANGED <<env, envOwner>>
    /\ Goto(p, "user")
    /\ UNCHANGED <<libFlag, lib, objVars, making, app>>

(* SpdkEnv::drop: spdk_env_fini, then the store. *)
EnvDrop(p) ==
    /\ pc[p] = "user" /\ envOwner = p /\ MayEndEnv(p)
    /\ env' = "finished" /\ envOwner' = None
    /\ Goto(p, "env_store")
    /\ UNCHANGED <<envFlag, libFlag, lib, objVars, making, app>>

EnvStore(p) ==
    /\ pc[p] = "env_store"
    /\ envFlag' = FALSE
    /\ Goto(p, "user")
    /\ UNCHANGED <<env, envOwner, libFlag, lib, objVars, making, app>>

-------------------------------------------------------------------------------
(* SpdkThread::current: thread_lib_init believes a set flag.               *)
Current(p, s) ==
    /\ pc[p] = "user" /\ obj[s] = "none" /\ \A q \in Procs : making[q] # s
    /\ MayMake(p)
    /\ making' = [making EXCEPT ![p] = s]
    /\ libFlag' = TRUE
    /\ Goto(p, IF libFlag THEN "create" ELSE "lib_init")
    /\ UNCHANGED <<envVars, lib, objVars, app>>

(* The C initialisation, and the store that takes the flag back. *)
LibInit(p, ok) ==
    /\ pc[p] = "lib_init"
    /\ ok => env = "up"
    /\ IF ok THEN lib' = "up" /\ Goto(p, "create") /\ UNCHANGED <<libFlag, making>>
             ELSE /\ ClearLibFlag /\ Goto(p, "user")
                  /\ making' = [making EXCEPT ![p] = None]
                  /\ UNCHANGED lib
    /\ UNCHANGED <<envVars, objVars, app>>

(* SpdkThread::spawn attaches on a new OS thread and leaves the library to *)
(* its caller, who has an SpdkThread.                                      *)
Spawn(p, s) ==
    /\ pc[p] = "user" /\ obj[s] = "none" /\ \A q \in Procs : making[q] # s
    /\ p # Main /\ LiveOn(p) = {} /\ MayMake(p)
    /\ \E r \in Objs : obj[r] = "live"
    /\ making' = [making EXCEPT ![p] = s]
    /\ Goto(p, "create")
    /\ UNCHANGED <<envVars, libFlag, lib, objVars, app>>

(* spdk_thread_create, which may return NULL, and spdk_set_thread.         *)
(* Without the library it is undefined; here the thread then is live.      *)
Create(p, ok) ==
    /\ pc[p] = "create"
    /\ LET s == making[p] IN
       IF ok THEN /\ obj' = [obj EXCEPT ![s] = "live"]
                  /\ owner' = [owner EXCEPT ![s] = p]
                  /\ SetThread(p, s)
             ELSE UNCHANGED objVars
    /\ making' = [making EXCEPT ![p] = None]
    /\ Goto(p, "user")
    /\ UNCHANGED <<envVars, libFlag, lib, app>>

(* SpdkThread::drop up to spdk_thread_destroy: whichever SpdkThread it is, *)
(* the current thread of the OS thread is cleared.                         *)
Drop(p, s) ==
    /\ pc[p] = "user" /\ s \in LiveOn(p) /\ s # app[p] /\ MayDrop(p, s)
    /\ obj' = [obj EXCEPT ![s] = "gone"]
    /\ SetThread(p, None)
    /\ Goto(p, "count")
    /\ UNCHANGED <<envVars, libFlag, lib, owner, making, app>>

(* count() == 0, read apart from what follows from it. *)
Count(p) ==
    /\ pc[p] = "count"
    /\ Goto(p, IF NoneLeft THEN "lib_swap" ELSE "user")
    /\ UNCHANGED <<envVars, libFlag, lib, objVars, making, app>>

LibSwap(p) ==
    /\ pc[p] = "lib_swap"
    /\ ClearLibFlag
    /\ Goto(p, IF libFlag THEN "lib_fini" ELSE "user")
    /\ UNCHANGED <<envVars, lib, objVars, making, app>>

LibFini(p) ==
    /\ pc[p] = "lib_fini"
    /\ lib' = "down"
    /\ Goto(p, "user")
    /\ UNCHANGED <<envVars, libFlag, objVars, making, app>>

-------------------------------------------------------------------------------
(* SpdkApp::run up to the user's closure: spdk_app_start, then             *)
(* start_callback calls assume_thread_lib_initialized.                     *)
AppStart(p, s) ==
    /\ WithApp
    /\ p = Main /\ pc[p] = "user" /\ app[p] = None /\ LiveOn(p) = {}
    /\ env = "down" /\ lib = "down"
    /\ obj[s] = "none" /\ \A q \in Procs : making[q] # s
    /\ env' = "up" /\ lib' = "up" /\ libFlag' = TRUE
    /\ obj' = [obj EXCEPT ![s] = "live"]
    /\ owner' = [owner EXCEPT ![s] = p]
    /\ SetThread(p, s)
    /\ app' = [app EXCEPT ![p] = s]
    /\ UNCHANGED <<envFlag, envOwner, pc, making>>

(* spdk_app_start fails: run calls spdk_app_fini all the same.             *)
AppStartFails(p) ==
    /\ WithApp
    /\ p = Main /\ pc[p] = "user" /\ app[p] = None /\ LiveOn(p) = {}
    /\ env # "up" /\ lib = "down"
    /\ env' = "finished"
    /\ UNCHANGED <<envFlag, envOwner, libFlag, lib, objVars, pc, making, app>>

(* The reactors stop after SpdkApp::stop, and run calls spdk_app_fini.     *)
(* Neither flag is touched.                                                *)
AppFini(p) ==
    /\ pc[p] = "user" /\ app[p] # None /\ LiveOn(p) = {app[p]}
    /\ Nested => \A q \in Procs \ {p} : Quiet(q)
    /\ obj' = [obj EXCEPT ![app[p]] = "gone"]
    /\ SetThread(p, None)
    /\ app' = [app EXCEPT ![p] = None]
    /\ env' = "finished" /\ lib' = "down"
    /\ UNCHANGED <<envFlag, envOwner, libFlag, owner, pc, making>>

Next ==
    \/ \E p \in Procs : EnvBuild(p) \/ EnvBadString(p) \/ EnvDrop(p) \/ EnvStore(p)
    \/ \E p \in Procs, ok \in BOOLEAN : EnvInit(p, ok) \/ LibInit(p, ok) \/ Create(p, ok)
    \/ \E p \in Procs, s \in Objs : Current(p, s) \/ Spawn(p, s) \/ Drop(p, s) \/ AppStart(p, s)
    \/ \E p \in Procs : Count(p) \/ LibSwap(p) \/ LibFini(p)
    \/ \E p \in Procs : AppStartFails(p) \/ AppFini(p)

Spec == Init /\ [][Next]_vars
-------------------------------------------------------------------------------
(***************************************************************************)
(* Properties.                                                             *)
(***************************************************************************)

(* thread.rs:140: "The thread library is initialized automatically if      *)
(* needed", and the last drop finalises it: no SpdkThread lives without    *)
(* the library.  Two unsynchronised lifetimes can break it.                *)
LibUpWhileLive == \A s \in Objs : obj[s] = "live" => lib = "up"

(* thread.rs:51 "Global flag to track if thread library is initialized":   *)
(* whenever no call is under way the flag says what the C side is, as long *)
(* as the environment is up.                                               *)
LibFlagTracks ==
    (env = "up" /\ \A p \in Procs : pc[p] = "user") => (libFlag <=> lib = "up")

(* The swap of ENV_INITIALIZED (env.rs:202) admits one thread at a time    *)
(* between the start of an initialisation and the end of a finalisation.   *)
EnvBusy == {p \in Procs : pc[p] \in {"env_build", "env_store"} \/ envOwner = p}
EnvExclusive == \A p, q \in EnvBusy : p = q

(* get_current (thread.rs:249-255) dereferences what spdk_get_thread       *)
(* returns: it is never a destroyed thread, nor one of another OS thread.  *)
CurrentNeverDangles ==
    \A p \in Procs : tls[p] # None => obj[tls[p]] = "live" /\ owner[tls[p]] = p
===============================================================================
