--------------------------- MODULE Lifecycle_proofs ---------------------------
(***************************************************************************)
(* What Lifecycle guarantees for every number of OS threads and SpdkThread *)
(* values, with and without SpdkApp::run; and what it guarantees as long   *)
(* as the lifetimes nest.                                                  *)
(***************************************************************************)
EXTENDS Lifecycle, TLAPS

(* Who sits between the swap of ENV_INITIALIZED and the store that takes   *)
(* it back has the flag for itself, and so has the holder of the guard.    *)
Initialising == {p \in Procs : pc[p] \in {"env_build", "env_store"}}

EnvGuarded ==
    /\ \A p \in Initialising : envFlag /\ envOwner = None
    /\ \A p, q \in Initialising : p = q
    /\ envOwner # None => envFlag

(* An SpdkThread under construction is nobody else's and does not live; a  *)
(* current thread lives where it is current.                               *)
Constructing(p) == pc[p] \in {"lib_init", "create"}

Made ==
    /\ \A p \in Procs : IF Constructing(p) THEN making[p] \in Objs ELSE making[p] = None
    /\ \A p, q \in Procs : making[p] = making[q] /\ making[p] # None => p = q
    /\ \A p \in Procs : making[p] # None => obj[making[p]] = "none"
    /\ \A s \in Objs : obj[s] = "live" => owner[s] \in Procs

(* Where nested lifetimes keep the library.  Only Main ever initialises    *)
(* and finalises it; whatever another OS thread does with SpdkThreads, it  *)
(* does while Main has one.                                                *)
Busy(p) == pc[p] \in {"lib_init", "create", "count", "lib_swap", "lib_fini"}

LibAt(place) ==
    CASE place = "lib_init" -> libFlag /\ lib = "down" /\ NoneLeft
      [] place = "lib_swap" -> libFlag /\ lib = "up" /\ NoneLeft
      [] place = "lib_fini" -> ~libFlag /\ lib = "up" /\ NoneLeft
      [] place \in {"create", "count"} -> libFlag /\ lib = "up"
      [] OTHER -> libFlag <=> lib = "up"

Nesting ==
    /\ env = "down" => ~libFlag /\ lib = "down"
    /\ env # "up" => NoneLeft /\ \A p \in Procs : ~Busy(p)
    /\ env = "up" => LibAt(pc[Main]) /\ (NoneLeft \/ lib = "up")
    /\ \A p \in Procs \ {Main} :
          /\ pc[p] \notin {"lib_init", "lib_swap", "lib_fini"}
          /\ pc[p] \in {"create", "count"} \/ LiveOn(p) # {} => LiveOn(Main) # {}

IInv ==
    /\ TypeOK
    /\ EnvGuarded
    /\ Made
    /\ CurrentNeverDangles
    /\ Nested => Nesting

-------------------------------------------------------------------------------
LEMMA InitInv == Init => IInv
<1> SUFFICES ASSUME Init PROVE IInv
  OBVIOUS
<1>1. TypeOK
  BY DEF Init, TypeOK, Places
<1>2. EnvGuarded /\ Made /\ CurrentNeverDangles
  BY DEF Init, EnvGuarded, Initialising, Made, Constructing, CurrentNeverDangles
<1>3. Nesting
  BY MainAssumption DEF Init, Nesting, LibAt, NoneLeft, Busy, LiveOn
<1> QED
  BY <1>1, <1>2, <1>3 DEF IInv

LEMMA NextType == IInv /\ [Next]_vars => TypeOK'
<1> SUFFICES ASSUME IInv, [Next]_vars PROVE TypeOK'
  OBVIOUS
<1> USE DEF TypeOK, Places, Goto, envVars, objVars
<1>0. TypeOK
  BY DEF IInv
<1>1. ASSUME NEW p \in Procs, EnvBuild(p) \/ EnvBadString(p) \/ EnvDrop(p) \/ EnvStore(p)
      PROVE  TypeOK'
  BY <1>0, <1>1 DEF EnvBuild, EnvBadString, EnvDrop, EnvStore
<1>2. ASSUME NEW p \in Procs, NEW ok \in BOOLEAN, EnvInit(p, ok) PROVE TypeOK'
  BY <1>0, <1>2 DEF EnvInit
<1>3. ASSUME NEW p \in Procs, NEW ok \in BOOLEAN, LibInit(p, ok) PROVE TypeOK'
  BY <1>0, <1>3 DEF LibInit, ClearLibFlag
<1>4. ASSUME NEW p \in Procs, NEW ok \in BOOLEAN, Create(p, ok) PROVE TypeOK'
  <2>1. making[p] \in Objs
    BY <1>4 DEF IInv, Made, Constructing, Create
  <2> QED
    BY <1>0, <1>4, <2>1 DEF Create, SetThread
<1>5. ASSUME NEW p \in Procs, NEW s \in Objs, Current(p, s) \/ Spawn(p, s) PROVE TypeOK'
  BY <1>0, <1>5 DEF Current, Spawn
<1>6. ASSUME NEW p \in Procs, NEW s \in Objs, Drop(p, s) PROVE TypeOK'
  BY <1>0, <1>6 DEF Drop, SetThread
<1>7. ASSUME NEW p \in Procs, NEW s \in Objs, AppStart(p, s) PROVE TypeOK'
  BY <1>0, <1>7 DEF AppStart, SetThread
<1>8. ASSUME NEW p \in Procs, Count(p) \/ LibSwap(p) \/ LibFini(p) PROVE TypeOK'
  BY <1>0, <1>8 DEF Count, LibSwap, LibFini, ClearLibFlag
<1>9. ASSUME NEW p \in Procs, AppStartFails(p) PROVE TypeOK'
  BY <1>0, <1>9 DEF AppStartFails
<1>10. ASSUME NEW p \in Procs, AppFini(p) PROVE TypeOK'
  BY <1>0, <1>10 DEF AppFini, SetThread
<1>11. CASE UNCHANGED vars
  BY <1>0, <1>11 DEF vars
<1> HIDE DEF TypeOK
<1> QED
  BY <1>1, <1>2, <1>3, <1>4, <1>5, <1>6, <1>7, <1>8, <1>9, <1>10, <1>11 DEF Next

LEMMA NextEnvGuarded == IInv /\ [Next]_vars => EnvGuarded'
<1> SUFFICES ASSUME IInv, [Next]_vars PROVE EnvGuarded'
  OBVIOUS
<1> USE DEF EnvGuarded, Initialising, Goto, envVars, objVars
<1>0. EnvGuarded
  BY DEF IInv
<1>t. pc \in [Procs -> Places] /\ envOwner \in Procs \cup {None} /\ envFlag \in BOOLEAN
  BY DEF IInv, TypeOK
<1>1. ASSUME NEW p \in Procs, EnvBuild(p) \/ EnvBadString(p) \/ EnvDrop(p) \/ EnvStore(p)
      PROVE  EnvGuarded'
  BY <1>0, <1>1, <1>t, MainAssumption DEF EnvBuild, EnvBadString, EnvDrop, EnvStore
<1>2. ASSUME NEW p \in Procs, NEW ok \in BOOLEAN, EnvInit(p, ok) PROVE EnvGuarded'
  BY <1>0, <1>2, <1>t DEF EnvInit
(* Nobody else touches the flag or the guard. *)
<1>3. ASSUME NEW p \in Procs, UNCHANGED <<envFlag, envOwner>>, pc[p] \notin {"env_build", "env_store"},
             \/ UNCHANGED pc
             \/ \E place \in Places \ {"env_build", "env_store"} : Goto(p, place)
      PROVE  EnvGuarded'
  BY <1>0, <1>3, <1>t
<1>4. ASSUME NEW p \in Procs, NEW ok \in BOOLEAN, LibInit(p, ok) PROVE EnvGuarded'
  BY <1>3, <1>4 DEF LibInit, Places
<1>5. ASSUME NEW p \in Procs, NEW ok \in BOOLEAN, Create(p, ok) PROVE EnvGuarded'
  BY <1>3, <1>5 DEF Create, Places
<1>6. ASSUME NEW p \in Procs, NEW s \in Objs, Current(p, s) \/ Spawn(p, s) PROVE EnvGuarded'
  BY <1>3, <1>6 DEF Current, Spawn, Places
<1>7. ASSUME NEW p \in Procs, NEW s \in Objs, Drop(p, s) \/ AppStart(p, s) PROVE EnvGuarded'
  BY <1>3, <1>7 DEF Drop, AppStart, Places
<1>8. ASSUME NEW p \in Procs, Count(p) \/ LibSwap(p) \/ LibFini(p) PROVE EnvGuarded'
  BY <1>3, <1>8 DEF Count, LibSwap, LibFini, Places
<1>9. ASSUME NEW p \in Procs, AppStartFails(p) \/ AppFini(p) PROVE EnvGuarded'
  BY <1>3, <1>9 DEF AppStartFails, AppFini
<1>10. CASE UNCHANGED vars
  BY <1>0, <1>10 DEF vars
<1> HIDE DEF EnvGuarded
<1> QED
  BY <1>1, <1>2, <1>4, <1>5, <1>6, <1>7, <1>8, <1>9, <1>10 DEF Next

LEMMA NextMade == IInv /\ [Next]_vars => (Made /\ CurrentNeverDangles)'
<1> DEFINE Inv == Made /\ CurrentNeverDangles
<1> SUFFICES ASSUME IInv, [Next]_vars PROVE Inv'
  OBVIOUS
<1> USE DEF Made, CurrentNeverDangles, Constructing, Goto, envVars, objVars
<1>0. Made /\ CurrentNeverDangles
  BY DEF IInv
<1>t. /\ pc \in [Procs -> Places] /\ making \in [Procs -> Objs \cup {None}]
      /\ obj \in [Objs -> {"none", "live", "gone"}] /\ owner \in [Objs -> Procs \cup {None}]
      /\ tls \in [Procs -> Objs \cup {None}]
  BY DEF IInv, TypeOK
<1>n. None \notin Objs
  BY MainAssumption
(* Steps that touch no SpdkThread. *)
<1>s. ASSUME NEW p \in Procs, UNCHANGED <<objVars, making>>, ~Constructing(p),
             \/ UNCHANGED pc
             \/ \E place \in Places \ {"lib_init", "create"} : Goto(p, place)
      PROVE  Inv'
  BY <1>0, <1>s, <1>t
<1>1. ASSUME NEW p \in Procs, EnvBuild(p) \/ EnvBadString(p) \/ EnvDrop(p) \/ EnvStore(p)
      PROVE  Inv'
  BY <1>s, <1>1 DEF EnvBuild, EnvBadString, EnvDrop, EnvStore, Places
<1>2. ASSUME NEW p \in Procs, NEW ok \in BOOLEAN, EnvInit(p, ok) PROVE Inv'
  BY <1>s, <1>2 DEF EnvInit, Places
<1>3. ASSUME NEW p \in Procs, NEW ok \in BOOLEAN, LibInit(p, ok) PROVE Inv'
  BY <1>0, <1>3, <1>t, <1>n DEF LibInit
<1>4. ASSUME NEW p \in Procs, NEW ok \in BOOLEAN, Create(p, ok) PROVE Inv'
  BY <1>0, <1>4, <1>t, <1>n DEF Create, SetThread
<1>5. ASSUME NEW p \in Procs, NEW s \in Objs, Current(p, s) PROVE Inv'
  BY <1>0, <1>5, <1>t, <1>n DEF Current
<1>6. ASSUME NEW p \in Procs, NEW s \in Objs, Spawn(p, s) PROVE Inv'
  BY <1>0, <1>6, <1>t, <1>n DEF Spawn
<1>7. ASSUME NEW p \in Procs, NEW s \in Objs, Drop(p, s) PROVE Inv'
  BY <1>0, <1>7, <1>t, <1>n DEF Drop, LiveOn, SetThread
<1>8. ASSUME NEW p \in Procs, NEW s \in Objs, AppStart(p, s) PROVE Inv'
  BY <1>0, <1>8, <1>t, <1>n DEF AppStart, SetThread
<1>9. ASSUME NEW p \in Procs, Count(p) \/ LibSwap(p) \/ LibFini(p) PROVE Inv'
  BY <1>s, <1>9 DEF Count, LibSwap, LibFini, Places
<1>10. ASSUME NEW p \in Procs, AppStartFails(p) PROVE Inv'
  BY <1>s, <1>10 DEF AppStartFails
<1>11. ASSUME NEW p \in Procs, AppFini(p) PROVE Inv'
  <2>1. app[p] \in Objs /\ obj[app[p]] = "live" /\ owner[app[p]] = p
    BY <1>11 DEF AppFini, LiveOn
  <2> QED
    BY <1>0, <1>11, <1>t, <1>n, <2>1 DEF AppFini, SetThread
<1>12. CASE UNCHANGED vars
  BY <1>0, <1>12 DEF vars
<1> QED
  BY <1>1, <1>2, <1>3, <1>4, <1>5, <1>6, <1>7, <1>8, <1>9, <1>10, <1>11, <1>12 DEF Next

-------------------------------------------------------------------------------
LEMMA NextNesting == ASSUME Nested, IInv, [Next]_vars PROVE Nesting'
<1> USE DEF Nesting, LibAt, NoneLeft, Busy, LiveOn, Goto, envVars, objVars
<1>0. Nesting
  BY DEF IInv
<1>t. /\ pc \in [Procs -> Places] /\ making \in [Procs -> Objs \cup {None}]
      /\ obj \in [Objs -> {"none", "live", "gone"}] /\ owner \in [Objs -> Procs \cup {None}]
      /\ env \in {"down", "up", "finished"} /\ lib \in {"down", "up"} /\ libFlag \in BOOLEAN
      /\ Main \in Procs
  BY MainAssumption DEF IInv, TypeOK
<1>1. ASSUME NEW p \in Procs, EnvBuild(p) \/ EnvBadString(p) \/ EnvStore(p) PROVE Nesting'
  BY <1>0, <1>1, <1>t DEF EnvBuild, EnvBadString, EnvStore
<1>2. ASSUME NEW p \in Procs, NEW ok \in BOOLEAN, EnvInit(p, ok) PROVE Nesting'
  BY <1>0, <1>2, <1>t DEF EnvInit
(* The environment ends when no call is under way and no SpdkThread lives. *)
<1>3. ASSUME NEW p \in Procs, EnvDrop(p) PROVE Nesting'
  <2>1. /\ env' = "finished" /\ UNCHANGED <<libFlag, lib, obj, owner>>
        /\ \A q \in Procs : ~Busy(q)' /\ LiveOn(q) = {}
    BY <1>3, <1>t DEF EnvDrop, MayEndEnv
  <2>2. NoneLeft
    BY <2>1 DEF IInv, Made
  <2> QED
    BY <1>t, <2>1, <2>2
<1>4. ASSUME NEW p \in Procs, NEW s \in Objs, Current(p, s) PROVE Nesting'
  BY <1>0, <1>4, <1>t DEF Current, MayMake
<1>5. ASSUME NEW p \in Procs, NEW ok \in BOOLEAN, LibInit(p, ok) PROVE Nesting'
  BY <1>0, <1>5, <1>t DEF LibInit, ClearLibFlag
<1>6. ASSUME NEW p \in Procs, NEW s \in Objs, Spawn(p, s) PROVE Nesting'
  BY <1>0, <1>6, <1>t DEF Spawn, MayMake
<1>7. ASSUME NEW p \in Procs, NEW ok \in BOOLEAN, Create(p, ok) PROVE Nesting'
  <2>1. making[p] \in Objs /\ obj[making[p]] = "none"
    BY <1>7, MainAssumption DEF IInv, Made, Constructing, Create
  <2> QED
    BY <1>0, <1>7, <1>t, <2>1 DEF Create
<1>8. ASSUME NEW p \in Procs, NEW s \in Objs, Drop(p, s) PROVE Nesting'
  BY <1>0, <1>8, <1>t DEF Drop, MayDrop, Quiet
<1>9. ASSUME NEW p \in Procs, Count(p) \/ LibSwap(p) \/ LibFini(p) PROVE Nesting'
  BY <1>0, <1>9, <1>t DEF Count, LibSwap, LibFini, ClearLibFlag
<1>10. ASSUME NEW p \in Procs, NEW s \in Objs, AppStart(p, s) PROVE Nesting'
  BY <1>0, <1>10, <1>t DEF AppStart
<1>11. ASSUME NEW p \in Procs, AppStartFails(p) PROVE Nesting'
  BY <1>0, <1>11, <1>t DEF AppStartFails
<1>12. ASSUME NEW p \in Procs, AppFini(p) PROVE Nesting'
  <2>1. /\ env' = "finished" /\ lib' = "down" /\ UNCHANGED <<libFlag, pc, owner>>
        /\ pc[p] = "user" /\ LiveOn(p) = {app[p]} /\ app[p] \in Objs
        /\ \A q \in Procs \ {p} : pc[q] = "user" /\ LiveOn(q) = {}
        /\ obj' = [obj EXCEPT ![app[p]] = "gone"]
    BY <1>12 DEF AppFini, Quiet
  <2>2. ASSUME NEW s \in Objs PROVE obj'[s] # "live"
    BY <1>t, <2>1 DEF IInv, Made
  <2> QED
    BY <1>t, <2>1, <2>2
<1>13. CASE UNCHANGED vars
  BY <1>0, <1>13 DEF vars
<1> HIDE DEF Nesting
<1> QED
  BY <1>1, <1>2, <1>3, <1>4, <1>5, <1>6, <1>7, <1>8, <1>9, <1>10, <1>11, <1>12, <1>13 DEF Next

(* env.rs, thread.rs and app.rs: the invariant of the flags and of what    *)
(* they stand for is inductive, and so holds in every reachable state.     *)
THEOREM InvHolds == Spec => []IInv
<1>1. IInv /\ [Next]_vars => IInv'
  BY NextType, NextEnvGuarded, NextMade, NextNesting DEF IInv
<1> QED
  BY <1>1, InitInv, PTL DEF Spec

-------------------------------------------------------------------------------
(* env.rs:202: the swap lets one OS thread at a time initialise the        *)
(* environment, hold it or finalise it, however their steps interleave.    *)
THEOREM EnvExclusiveHolds == Spec => []EnvExclusive
<1>1. ASSUME IInv, NEW p \in EnvBusy, NEW q \in EnvBusy PROVE p = q
  BY <1>1, MainAssumption DEF IInv, EnvGuarded, Initialising, EnvBusy
<1>2. IInv => EnvExclusive
  BY <1>1 DEF EnvExclusive
<1> QED
  BY <1>2, InvHolds, PTL

(* thread.rs:249-255: get_current never returns a destroyed thread, nor    *)
(* one of another OS thread.                                               *)
THEOREM CurrentNeverDanglesHolds == Spec => []CurrentNeverDangles
<1>1. IInv => CurrentNeverDangles
  BY DEF IInv
<1> QED
  BY <1>1, InvHolds, PTL

(* thread.rs:140: as long as lifetimes nest, no SpdkThread lives without   *)
(* the library, ...                                                        *)
THEOREM LibUpWhileLiveHolds == ASSUME Nested PROVE Spec => []LibUpWhileLive
<1>1. IInv => LibUpWhileLive
  BY DEF IInv, Nesting, NoneLeft, LibUpWhileLive
<1> QED
  BY <1>1, InvHolds, PTL

(* ... thread.rs:51: the flag says what the C side is, ...                 *)
THEOREM LibFlagTracksHolds == ASSUME Nested PROVE Spec => []LibFlagTracks
<1>1. IInv => LibFlagTracks
  BY MainAssumption DEF IInv, Nesting, LibAt, LibFlagTracks
<1> QED
  BY <1>1, InvHolds, PTL

CreatesInLib == \A p \in Procs : pc[p] = "create" => env = "up" /\ lib = "up"

(* ... and SpdkThread::current and spawn (thread.rs:183, 383) call         *)
(* spdk_thread_create when the environment and the library are up, also    *)
(* when they were looked at several steps before.                          *)
THEOREM CreatesInLibHolds == ASSUME Nested PROVE Spec => []CreatesInLib
<1>1. IInv => CreatesInLib
  <2> SUFFICES ASSUME IInv, NEW p \in Procs, pc[p] = "create" PROVE env = "up" /\ lib = "up"
    BY DEF CreatesInLib
  <2>1. env = "up"
    BY DEF IInv, Nesting, Busy
  <2>2. CASE p = Main
    BY <2>1, <2>2 DEF IInv, Nesting, LibAt
  <2>3. CASE p # Main
    BY <2>1, <2>3 DEF IInv, Nesting, LiveOn, NoneLeft
  <2> QED
    BY <2>1, <2>2, <2>3
<1> QED
  BY <1>1, InvHolds, PTL
===============================================================================
