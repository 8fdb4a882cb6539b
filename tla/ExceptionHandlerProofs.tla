----------------------- MODULE ExceptionHandlerProofs -----------------------
(***************************************************************************)
(* Proofs about ExceptionHandler for any number of threads, signals and    *)
(* handlers: the mutex discipline behind g_handler_stack_ and              *)
(* g_crash_context_, the crash context's integrity, that an installed      *)
(* handler stays armed until it has dispatched a signal, and what becomes  *)
(* of one crash: one report, and the signal where it belongs.              *)
(***************************************************************************)
EXTENDS ExceptionHandler, TLAPS

\* Thread t is inside a constructor or a destructor, running or interrupted
\* by a signal.
InLifecycle(t) ==
    \/ pc[t] \in {"ctor_lock", "ctor_cs", "dtor_lock", "dtor_cs"}
    \/ pc[t] \in InHandler \cup {"faulted"} /\ frame[t].ret # "run"

\* Thread t is inside a critical section, running or interrupted.
InCritical(t) ==
    \/ pc[t] \in {"ctor_cs", "dtor_cs", "sh_check", "sh_loop", "sh_dump",
                  "stuck"}
    \/ /\ pc[t] \in {"faulted", "sh_first", "sh_lock"}
       /\ frame[t].ret \in {"ctor_cs", "dtor_cs"}

MutexInv == \A t \in Threads : InCritical(t) => mutex = t

RetInv ==
    \A t \in Threads :
        pc[t] \in {"sh_check", "sh_loop", "sh_dump", "sh_reraise"}
            => frame[t].ret \notin {"ctor_cs", "dtor_cs"}

ObjInv ==
    \A t \in Threads :
        InLifecycle(t) => obj[t] \in Handlers /\ t \in Owners

IdxInv == \A t \in Threads : pc[t] = "sh_dump" => idx[t] > 0

\* The inductive invariant behind the theorems of this module.
IndInv == TypeOK /\ MutexInv /\ RetInv /\ ObjInv /\ IdxInv

-----------------------------------------------------------------------------
\* The initial state: no thread is inside the library.
LEMMA InitIndInv == Init => IndInv
<1> SUFFICES ASSUME Init PROVE IndInv
  OBVIOUS
<1>1. SigType /\ AltType
  BY ConstantsAssumption DEF Init, SigType, AltType, Disp, AppDisp, AppStack
<1>2. LibType
  <2>1. stack \in Seq(Handlers)
    BY DEF Init
  <2> QED
    BY <2>1 DEF Init, LibType
<1>5. DumpType
  BY DEF Init, DumpType
<1>3. ThreadType
  BY ConstantsAssumption DEF Init, ThreadType, Frame, Disp, AppPc, Pc
<1>4. MutexInv /\ RetInv /\ ObjInv /\ IdxInv
  BY DEF Init, MutexInv, RetInv, ObjInv, IdxInv, InCritical, InLifecycle,
     InHandler
<1> QED
  BY <1>1, <1>2, <1>3, <1>4, <1>5 DEF IndInv, TypeOK

-----------------------------------------------------------------------------
\* Erasing an element of a sequence over S leaves a sequence over S.
LEMMA EraseType ==
    ASSUME NEW S, NEW s \in Seq(S), NEW k \in 1..Len(s)
    PROVE  Erase(s, k) \in Seq(S) /\ Len(Erase(s, k)) = Len(s) - 1
<1> DEFINE n == Len(s) - 1
<1>1. n \in Nat
  OBVIOUS
<1>2. \A i \in 1..n : (IF i < k THEN s[i] ELSE s[i + 1]) \in S
  OBVIOUS
<1> QED
  BY <1>1, <1>2 DEF Erase

\* Writing a dump leaves every dump file none, partial or complete.
LEMMA GenerateDumpType ==
    ASSUME NEW h, NEW result, DumpType, GenerateDump(h, result)
    PROVE  DumpType'
  BY DEF DumpType, GenerateDump

\* The update of a signal frame when the signal is queued again.
LEMMA FrameRequeued ==
    ASSUME NEW f \in Frame
    PROVE  [f EXCEPT !.user = TRUE] \in Frame
  BY Zenon DEF Frame

\* The update of a signal frame when a signal arrives.
LEMMA FrameArrival ==
    ASSUME NEW f \in Frame, NEW s \in Signals, NEW u \in BOOLEAN,
           NEW r \in AppPc
    PROVE  [f EXCEPT !.sig = s, !.user = u, !.ret = r] \in Frame
  BY Zenon DEF Frame

\* Every action keeps every variable in its domain.
LEMMA TypeStep == IndInv /\ [Next]_vars => TypeOK'
<1> SUFFICES ASSUME IndInv, [Next]_vars PROVE TypeOK'
  OBVIOUS
<1> USE ConstantsAssumption
<1> USE DEF IndInv
<1>1. CASE UNCHANGED vars
  BY <1>1 DEF vars, TypeOK, SigType, AltType, LibType, DumpType, ThreadType,
     sigVars, altVars, loopVars
<1>2. ASSUME NEW t \in Threads, Lock(t) PROVE TypeOK'
  <2>1. SigType' /\ AltType' /\ DumpType'
    BY <1>2 DEF Lock, TypeOK, SigType, AltType, DumpType, sigVars, altVars
  <2>2. LibType'
    BY <1>2 DEF Lock, TypeOK, LibType, Acquire
  <2>3. ThreadType'
    BY <1>2 DEF Lock, TypeOK, ThreadType, Goto, LockPc, AppPc, Pc,
       InHandler, loopVars
  <2> QED
    BY <2>1, <2>2, <2>3 DEF TypeOK
<1>3. ASSUME NEW t \in Threads, ConstructLocked(t) PROVE TypeOK'
  <2>1. DumpType'
    BY <1>3 DEF ConstructLocked, TypeOK, DumpType
  <2>2. SigType'
    BY <1>3 DEF ConstructLocked, TypeOK, SigType, InstallHandlersLocked,
       Disp, sigVars
  <2>3. AltType'
    BY <1>3 DEF ConstructLocked, TypeOK, AltType,
       InstallAlternateStackLocked, AppStack, altVars
  <2>4. LibType'
    BY <1>3 DEF ConstructLocked, TypeOK, LibType, Release, ObjInv,
       InLifecycle, ThreadType
  <2>5. ThreadType'
    BY <1>3 DEF ConstructLocked, TypeOK, ThreadType, Goto, Pc, AppPc,
       loopVars
  <2> QED
    BY <2>1, <2>2, <2>3, <2>4, <2>5 DEF TypeOK
<1>4. ASSUME NEW t \in Threads, DestroyLocked(t) PROVE TypeOK'
  <2>1. DumpType'
    BY <1>4 DEF DestroyLocked, TypeOK, DumpType
  <2>2. SigType'
    BY <1>4 DEF DestroyLocked, TypeOK, SigType, RestoreHandlersLocked, Disp,
       AppDisp, sigVars
  <2>3. AltType'
    BY <1>4 DEF DestroyLocked, TypeOK, AltType, RestoreAlternateStackLocked,
       RestoredStack, altVars
  <2>4. LibType'
    <3>1. stack \in Seq(Handlers)
      BY DEF TypeOK, LibType
    <3>2. stack' \in Seq(Handlers)
      BY <1>4, <3>1, EraseType DEF DestroyLocked
    <3> QED
      BY <1>4, <3>2 DEF DestroyLocked, TypeOK, LibType, Release
  <2>5. ThreadType'
    BY <1>4 DEF DestroyLocked, TypeOK, ThreadType, Goto, Pc, AppPc, loopVars
  <2> QED
    BY <2>1, <2>2, <2>3, <2>4, <2>5 DEF TypeOK
<1>5. ASSUME NEW t \in Threads, Deliver(t) PROVE TypeOK'
  <2>1. SigType' /\ AltType' /\ DumpType'
    BY <1>5 DEF Deliver, TypeOK, SigType, AltType, DumpType, sigVars,
       altVars
  <2>2. LibType'
    BY <1>5 DEF Deliver, TypeOK, LibType
  <2>3. ThreadType'
    BY <1>5 DEF Deliver, TypeOK, ThreadType, Goto, Frame, Pc, InHandler,
       loopVars, SigType
  <2> QED
    BY <2>1, <2>2, <2>3 DEF TypeOK
<1>6. ASSUME NEW t \in Threads, FirstChance(t) PROVE TypeOK'
  <2>1. SigType' /\ AltType' /\ DumpType'
    BY <1>6 DEF FirstChance, TypeOK, SigType, AltType, DumpType, sigVars,
       altVars
  <2>2. LibType'
    BY <1>6 DEF FirstChance, TypeOK, LibType
  <2>3. ThreadType'
    BY <1>6 DEF FirstChance, TypeOK, ThreadType, Goto, Frame, Pc, InHandler,
       loopVars
  <2> QED
    BY <2>1, <2>2, <2>3 DEF TypeOK
<1>7. ASSUME NEW t \in Threads, RepairHandler(t) PROVE TypeOK'
  <2>1. AltType' /\ DumpType'
    BY <1>7 DEF RepairHandler, TypeOK, AltType, DumpType, altVars
  <2>2. SigType'
    BY <1>7 DEF RepairHandler, TypeOK, SigType, RepairedDisposition, Disp,
       AppDisp
  <2>3. LibType'
    BY <1>7 DEF RepairHandler, TypeOK, LibType, Release
  <2>4. ThreadType'
    BY <1>7 DEF RepairHandler, TypeOK, ThreadType, Goto, Frame, Pc, loopVars
  <2> QED
    BY <2>1, <2>2, <2>3, <2>4 DEF TypeOK
<1>8. ASSUME NEW t \in Threads, BeginLoop(t) PROVE TypeOK'
  <2>1. SigType' /\ AltType' /\ DumpType'
    BY <1>8 DEF BeginLoop, TypeOK, SigType, AltType, DumpType, sigVars,
       altVars
  <2>2. LibType'
    BY <1>8 DEF BeginLoop, TypeOK, LibType, SegvInHandler
  <2>3. ThreadType'
    <3>1. pc' \in [Threads -> Pc]
      BY <1>8 DEF BeginLoop, TypeOK, ThreadType, SegvInHandler, Goto, Pc,
         InHandler
    <3>2. idx' \in [Threads -> Nat] /\ handled' \in [Threads -> BOOLEAN]
      BY <1>8 DEF BeginLoop, TypeOK, LibType, ThreadType
    <3> QED
      BY <1>8, <3>1, <3>2 DEF BeginLoop, TypeOK, ThreadType
  <2> QED
    BY <2>1, <2>2, <2>3 DEF TypeOK
<1>9. ASSUME NEW t \in Threads, HandleFilter(t) PROVE TypeOK'
  <2>1. SigType' /\ AltType' /\ DumpType'
    BY <1>9 DEF HandleFilter, TypeOK, SigType, AltType, DumpType, sigVars,
       altVars
  <2>2. LibType'
    BY <1>9 DEF HandleFilter, TypeOK, LibType, SegvInHandler
  <2>3. ThreadType'
    <3> USE DEF TypeOK, ThreadType
    <3>1. pc' \in [Threads -> Pc]
      <4>1. CASE UNCHANGED pc
        BY <4>1
      <4>2. CASE Goto(t, "sh_dump")
        BY <4>2 DEF Goto, Pc, InHandler
      <4>3. CASE SegvInHandler(t)
        BY <4>3 DEF SegvInHandler, Goto, Pc, InHandler
      <4> QED
        BY <1>9, <4>1, <4>2, <4>3 DEF HandleFilter
    <3>2. idx' \in [Threads -> Nat]
      <4>1. CASE UNCHANGED idx
        BY <4>1
      <4>2. CASE NextHandler(t)
        <5>1. idx[t] \in Nat /\ idx[t] > 0
          BY <1>9 DEF HandleFilter, LoopGoesOn
        <5>2. idx[t] - 1 \in Nat
          BY <5>1
        <5> QED
          BY <4>2, <5>2 DEF NextHandler
      <4> QED
        BY <1>9, <4>1, <4>2 DEF HandleFilter
    <3> QED
      BY <1>9, <3>1, <3>2 DEF HandleFilter, TypeOK, ThreadType
  <2> QED
    BY <2>1, <2>2, <2>3 DEF TypeOK
<1>10. ASSUME NEW t \in Threads, HandleDump(t) PROVE TypeOK'
  <2>1. SigType' /\ AltType'
    BY <1>10 DEF HandleDump, TypeOK, SigType, AltType, sigVars, altVars
  <2>2. LibType'
    BY <1>10 DEF HandleDump, TypeOK, LibType
  <2>3. DumpType'
    <3>1. CASE UNCHANGED dump
      BY <3>1 DEF TypeOK, DumpType
    <3>2. CASE \E result \in BOOLEAN : GenerateDump(stack[idx[t]], result)
      BY <3>2, GenerateDumpType DEF TypeOK
    <3> QED
      BY <1>10, <3>1, <3>2 DEF HandleDump
  <2>4. ThreadType'
    <3>1. idx' \in [Threads -> Nat]
      BY <1>10 DEF HandleDump, TypeOK, ThreadType, NextHandler, IdxInv
    <3>2. handled' \in [Threads -> BOOLEAN]
      BY <1>10 DEF HandleDump, TypeOK, ThreadType
    <3> QED
      BY <1>10, <3>1, <3>2 DEF HandleDump, TypeOK, ThreadType, Goto, Pc,
         InHandler
  <2> QED
    BY <2>1, <2>2, <2>3, <2>4 DEF TypeOK
<1>11. ASSUME NEW t \in Threads, Finish(t) PROVE TypeOK'
  <2>1. AltType' /\ DumpType'
    BY <1>11 DEF Finish, TypeOK, AltType, DumpType, altVars
  <2>2. SigType'
    BY <1>11 DEF Finish, TypeOK, SigType, InstallDefaultHandler,
       RestoreHandlersLocked, Disp, AppDisp, sigVars
  <2>3. LibType'
    BY <1>11 DEF Finish, TypeOK, LibType, Release
  <2>4. ThreadType'
    BY <1>11 DEF Finish, TypeOK, ThreadType, Goto, Pc, InHandler, loopVars
  <2> QED
    BY <2>1, <2>2, <2>3, <2>4 DEF TypeOK
<1>12. ASSUME NEW t \in Threads, Reraise(t) PROVE TypeOK'
  <2>1. SigType' /\ AltType' /\ DumpType'
    BY <1>12 DEF Reraise, TypeOK, SigType, AltType, DumpType, sigVars,
       altVars
  <2>2. LibType'
    BY <1>12 DEF Reraise, TypeOK, LibType
  <2>3. ThreadType'
    <3>1. pc' \in [Threads -> Pc]
      BY <1>12 DEF Reraise, TypeOK, ThreadType, Goto, Frame, Pc
    <3>2. frame' \in [Threads -> Frame]
      <4>1. [frame[t] EXCEPT !.user = TRUE] \in Frame
        BY FrameRequeued DEF TypeOK, ThreadType
      <4>2. CASE UNCHANGED frame
        BY <4>2 DEF TypeOK, ThreadType
      <4>3. CASE frame' = [frame EXCEPT ![t].user = TRUE]
        BY <4>1, <4>3 DEF TypeOK, ThreadType
      <4> QED
        BY <1>12, <4>2, <4>3 DEF Reraise
    <3> QED
      BY <1>12, <3>1, <3>2 DEF Reraise, TypeOK, ThreadType, loopVars
  <2> QED
    BY <2>1, <2>2, <2>3 DEF TypeOK
<1>13. ASSUME NEW t \in Threads, SimulateDump(t) PROVE TypeOK'
  <2>1. SigType' /\ AltType'
    BY <1>13 DEF SimulateDump, TypeOK, SigType, AltType, sigVars, altVars
  <2>2. LibType'
    BY <1>13 DEF SimulateDump, TypeOK, LibType
  <2>3. DumpType'
    <3>1. CASE UNCHANGED dump
      BY <3>1 DEF TypeOK, DumpType
    <3>2. CASE \E result \in BOOLEAN : GenerateDump(obj[t], result)
      BY <3>2, GenerateDumpType DEF TypeOK
    <3> QED
      BY <1>13, <3>1, <3>2 DEF SimulateDump
  <2>4. ThreadType'
    BY <1>13 DEF SimulateDump, TypeOK, ThreadType, Goto, Pc, AppPc, loopVars
  <2> QED
    BY <2>1, <2>2, <2>3, <2>4 DEF TypeOK
<1>14. ASSUME NEW t \in Owners, NEW h \in Handlers,
              Construct(t, h)
       PROVE  TypeOK'
  <2>1. SigType' /\ AltType' /\ DumpType'
    BY <1>14 DEF Construct, TypeOK, SigType, AltType, DumpType, sigVars,
       altVars
  <2>2. LibType'
    BY <1>14 DEF Construct, TypeOK, LibType
  <2>3. ThreadType'
    BY <1>14 DEF Construct, TypeOK, ThreadType, Goto, Pc, LockPc, loopVars
  <2> QED
    BY <2>1, <2>2, <2>3 DEF TypeOK
<1>15. ASSUME NEW t \in Owners, NEW h \in Destroyable,
              Destroy(t, h)
       PROVE  TypeOK'
  <2>1. SigType' /\ AltType' /\ DumpType'
    BY <1>15 DEF Destroy, TypeOK, SigType, AltType, DumpType, sigVars,
       altVars
  <2>2. LibType'
    BY <1>15 DEF Destroy, TypeOK, LibType
  <2>3. ThreadType'
    BY <1>15 DEF Destroy, TypeOK, ThreadType, Goto, Pc, LockPc, loopVars
  <2> QED
    BY <2>1, <2>2, <2>3 DEF TypeOK
<1>16. ASSUME NEW t \in Threads, NEW s \in Signals, NEW u \in BOOLEAN,
              Crash(t, s, u)
       PROVE  TypeOK'
  <2>1. SigType' /\ AltType' /\ DumpType'
    BY <1>16 DEF Crash, TypeOK, SigType, AltType, DumpType, sigVars,
       altVars
  <2>2. LibType'
    BY <1>16 DEF Crash, TypeOK, LibType
  <2>3. ThreadType'
    <3>1. pc[t] \in AppPc
      BY <1>16 DEF Crash, AppPc
    <3>2. frame' \in [Threads -> Frame]
      <4>1. [frame[t] EXCEPT !.sig = s, !.user = u, !.ret = pc[t]] \in Frame
        BY <3>1, FrameArrival DEF TypeOK, ThreadType
      <4> QED
        BY <1>16, <4>1 DEF Crash, TypeOK, ThreadType
    <3> QED
      BY <1>16, <3>2 DEF Crash, TypeOK, ThreadType, Goto, Pc, loopVars
  <2> QED
    BY <2>1, <2>2, <2>3 DEF TypeOK
<1>17. ASSUME NEW t \in Threads, NestedFault(t) PROVE TypeOK'
  <2>1. SigType' /\ AltType' /\ DumpType'
    BY <1>17 DEF NestedFault, TypeOK, SigType, AltType, DumpType, sigVars,
       altVars
  <2>2. LibType'
    BY <1>17 DEF NestedFault, TypeOK, LibType, SegvInHandler
  <2>3. ThreadType'
    BY <1>17 DEF NestedFault, TypeOK, ThreadType, SegvInHandler, Goto, Pc,
       InHandler, loopVars
  <2> QED
    BY <2>1, <2>2, <2>3 DEF TypeOK
<1>18. ASSUME NEW t \in Threads, NEW h \in Handlers,
              SimulateBegin(t, h)
       PROVE  TypeOK'
  <2>1. SigType' /\ AltType' /\ DumpType'
    BY <1>18 DEF SimulateBegin, TypeOK, SigType, AltType, DumpType, sigVars,
       altVars
  <2>2. LibType'
    BY <1>18 DEF SimulateBegin, TypeOK, LibType
  <2>3. ThreadType'
    BY <1>18 DEF SimulateBegin, TypeOK, ThreadType, Goto, Pc, loopVars
  <2> QED
    BY <2>1, <2>2, <2>3 DEF TypeOK
<1>19. ASSUME NEW s \in Signals, LoseSigInfo(s) PROVE TypeOK'
  <2>1. AltType' /\ DumpType'
    BY <1>19 DEF LoseSigInfo, TypeOK, AltType, DumpType, altVars
  <2>2. SigType'
    BY <1>19 DEF LoseSigInfo, TypeOK, SigType, Disp
  <2>3. LibType'
    BY <1>19 DEF LoseSigInfo, TypeOK, LibType
  <2>4. ThreadType'
    BY <1>19 DEF LoseSigInfo, TypeOK, ThreadType, loopVars
  <2> QED
    BY <2>1, <2>2, <2>3, <2>4 DEF TypeOK
<1> QED
  BY <1>1, <1>2, <1>3, <1>4, <1>5, <1>6, <1>7, <1>8, <1>9, <1>10, <1>11,
     <1>12, <1>13, <1>14, <1>15, <1>16, <1>17, <1>18, <1>19 DEF Next,
     ThreadStep, Rest

-----------------------------------------------------------------------------
LockInv == MutexInv /\ RetInv /\ ObjInv /\ IdxInv

\* Every action keeps the mutex discipline: who is in a critical section
\* holds the mutex, also when a signal has interrupted it there.
LEMMA LockStep == IndInv /\ [Next]_vars => LockInv'
<1> SUFFICES ASSUME IndInv, [Next]_vars PROVE LockInv'
  OBVIOUS
<1> USE ConstantsAssumption
<1> USE DEF IndInv, LockInv, TypeOK, ThreadType
<1>1. CASE UNCHANGED vars
  BY <1>1 DEF vars, loopVars, MutexInv, RetInv, ObjInv, IdxInv, InCritical,
     InLifecycle
<1>2. ASSUME NEW t \in Threads, Lock(t) PROVE LockInv'
  BY <1>2 DEF Lock, InCritical, InLifecycle, MutexInv, RetInv, ObjInv,
     IdxInv, Goto, InHandler, Acquire, LockPc, loopVars
<1>3. ASSUME NEW t \in Threads, ConstructLocked(t) PROVE LockInv'
  BY <1>3 DEF ConstructLocked, InCritical, InLifecycle, MutexInv, RetInv,
     ObjInv, IdxInv, Goto, InHandler, Release, loopVars
<1>4. ASSUME NEW t \in Threads, DestroyLocked(t) PROVE LockInv'
  BY <1>4 DEF DestroyLocked, InCritical, InLifecycle, MutexInv, RetInv,
     ObjInv, IdxInv, Goto, InHandler, Release, loopVars
<1>5. ASSUME NEW t \in Threads, Deliver(t) PROVE LockInv'
  <2>1. \A u \in Threads : frame'[u].ret = frame[u].ret
    BY <1>5 DEF Deliver, Frame
  <2>2. /\ \A u \in Threads \ {t} : pc'[u] = pc[u]
        /\ pc[t] = "faulted" /\ pc'[t] \in {"faulted", "sh_first"}
        /\ UNCHANGED <<mutex, obj, idx>>
    BY <1>5 DEF Deliver, Goto, loopVars
  <2> QED
    BY <2>1, <2>2 DEF InCritical, InLifecycle, MutexInv, RetInv, ObjInv,
       IdxInv, InHandler
<1>6. ASSUME NEW t \in Threads, FirstChance(t) PROVE LockInv'
  BY <1>6 DEF FirstChance, InCritical, InLifecycle, MutexInv, RetInv,
     ObjInv, IdxInv, Goto, InHandler, loopVars, Frame, AppPc
<1>7. ASSUME NEW t \in Threads, RepairHandler(t) PROVE LockInv'
  BY <1>7 DEF RepairHandler, InCritical, InLifecycle, MutexInv, RetInv,
     ObjInv, IdxInv, Goto, InHandler, loopVars, Release, Frame, AppPc
<1>8. ASSUME NEW t \in Threads, BeginLoop(t) PROVE LockInv'
  BY <1>8 DEF BeginLoop, InCritical, InLifecycle, MutexInv, RetInv, ObjInv,
     IdxInv, Goto, InHandler, SegvInHandler
<1>9. ASSUME NEW t \in Threads, HandleFilter(t) PROVE LockInv'
  <2>1. /\ \A u \in Threads \ {t} : pc'[u] = pc[u] /\ idx'[u] = idx[u]
        /\ pc[t] = "sh_loop" /\ pc'[t] \in {"sh_loop", "sh_dump", "stuck"}
        /\ UNCHANGED <<mutex, obj, frame>>
    <3>1. CASE UNCHANGED pc /\ NextHandler(t)
      BY <1>9, <3>1 DEF HandleFilter, NextHandler
    <3>2. CASE UNCHANGED idx /\ Goto(t, "sh_dump")
      BY <1>9, <3>2 DEF HandleFilter, Goto
    <3>3. CASE UNCHANGED idx /\ SegvInHandler(t)
      BY <1>9, <3>3 DEF HandleFilter, SegvInHandler, Goto
    <3> QED
      BY <1>9, <3>1, <3>2, <3>3 DEF HandleFilter
  <2>2. pc'[t] = "sh_dump" => idx'[t] > 0
    <3>1. CASE UNCHANGED pc
      BY <2>1, <3>1
    <3>2. CASE UNCHANGED idx
      BY <1>9, <3>2 DEF HandleFilter, LoopGoesOn
    <3> QED
      BY <1>9, <3>1, <3>2 DEF HandleFilter
  <2> QED
    BY <2>1, <2>2 DEF InCritical, InLifecycle, MutexInv, RetInv, ObjInv,
       IdxInv, InHandler
<1>10. ASSUME NEW t \in Threads, HandleDump(t) PROVE LockInv'
  BY <1>10 DEF HandleDump, InCritical, InLifecycle, MutexInv, RetInv,
     ObjInv, IdxInv, Goto, InHandler
<1>11. ASSUME NEW t \in Threads, Finish(t) PROVE LockInv'
  BY <1>11 DEF Finish, InCritical, InLifecycle, MutexInv, RetInv, ObjInv,
     IdxInv, Goto, InHandler, Release, loopVars
<1>12. ASSUME NEW t \in Threads, Reraise(t) PROVE LockInv'
  BY <1>12 DEF Reraise, InCritical, InLifecycle, MutexInv, RetInv, ObjInv,
     IdxInv, Goto, InHandler, loopVars, Frame, AppPc
<1>13. ASSUME NEW t \in Threads, SimulateDump(t) PROVE LockInv'
  BY <1>13 DEF SimulateDump, InCritical, InLifecycle, MutexInv, RetInv,
     ObjInv, IdxInv, Goto, InHandler, loopVars
<1>14. ASSUME NEW t \in Owners, NEW h \in Handlers,
              Construct(t, h)
       PROVE  LockInv'
  BY <1>14 DEF Construct, InCritical, InLifecycle, MutexInv, RetInv, ObjInv,
     IdxInv, Goto, InHandler, loopVars
<1>15. ASSUME NEW t \in Owners, NEW h \in Destroyable,
              Destroy(t, h)
       PROVE  LockInv'
  BY <1>15 DEF Destroy, InCritical, InLifecycle, MutexInv, RetInv, ObjInv,
     IdxInv, Goto, InHandler, loopVars
<1>16. ASSUME NEW t \in Threads, NEW s \in Signals, NEW u \in BOOLEAN,
              Crash(t, s, u)
       PROVE  LockInv'
  BY <1>16 DEF Crash, InCritical, InLifecycle, MutexInv, RetInv, ObjInv,
     IdxInv, Goto, InHandler, AppPc, loopVars
<1>17. ASSUME NEW t \in Threads, NestedFault(t) PROVE LockInv'
  BY <1>17 DEF NestedFault, InCritical, InLifecycle, MutexInv, RetInv,
     ObjInv, IdxInv, Goto, InHandler, SegvInHandler, loopVars
<1>18. ASSUME NEW t \in Threads, NEW h \in Handlers,
              SimulateBegin(t, h)
       PROVE  LockInv'
  BY <1>18 DEF SimulateBegin, InCritical, InLifecycle, MutexInv, RetInv,
     ObjInv, IdxInv, Goto, InHandler, loopVars
<1>19. ASSUME NEW s \in Signals, LoseSigInfo(s) PROVE LockInv'
  BY <1>19 DEF LoseSigInfo, InCritical, InLifecycle, MutexInv, RetInv,
     ObjInv, IdxInv, Goto, InHandler, loopVars
<1> QED
  BY <1>1, <1>2, <1>3, <1>4, <1>5, <1>6, <1>7, <1>8, <1>9, <1>10, <1>11,
     <1>12, <1>13, <1>14, <1>15, <1>16, <1>17, <1>18, <1>19 DEF Next,
     ThreadStep, Rest

-----------------------------------------------------------------------------
\* IndInv holds in every reachable state: types, and who is in a critical
\* section of exception_handler.cc holds g_handler_stack_mutex_.
THEOREM IndInvHolds == Spec => []IndInv
<1>1. IndInv /\ [Next]_vars => IndInv'
  BY TypeStep, LockStep DEF IndInv, LockInv
<1> QED
  BY <1>1, InitIndInv, PTL DEF Spec

\* The type invariant, for every choice of threads, signals and handlers.
THEOREM TypeCorrect == Spec => []TypeOK
<1>1. IndInv => TypeOK
  BY DEF IndInv
<1> QED
  BY <1>1, IndInvHolds, PTL

\* If no thread calls SimulateSignalDelivery, g_crash_context_ belongs to the
\* thread that writes a dump, for any number of threads that fault, receive
\* signals, construct and destroy handlers: the mutex protects the context
\* from HandleSignal's memset up to the end of GenerateDump.
THEOREM CrashContextIntegrity ==
    ASSUME Simulators = {}
    PROVE  Spec => []CtxIntegrity
<1>1. Init => CtxIntegrity
  BY DEF Init, CtxIntegrity
<1>2. IndInv /\ CtxIntegrity /\ [Next]_vars => CtxIntegrity'
  <2> SUFFICES ASSUME IndInv, CtxIntegrity, [Next]_vars,
                      NEW u \in Threads, pc'[u] = "sh_dump",
                      frame'[u].via # "bpnoinfo"
               PROVE  ctx' = u
    BY DEF CtxIntegrity
  <2> USE ConstantsAssumption DEF IndInv, TypeOK, ThreadType
  <2>1. CASE UNCHANGED vars
    BY <2>1 DEF vars, CtxIntegrity
  <2>2. ASSUME NEW t \in Threads, HandleFilter(t) PROVE ctx' = u
    <3>1. CASE t = u
      BY <2>2, <3>1 DEF HandleFilter, SegvInHandler, Goto
    <3>2. CASE t # u
      <4>1. pc[u] = "sh_dump" /\ pc[t] = "sh_loop"
        BY <2>2, <3>2 DEF HandleFilter, SegvInHandler, Goto
      <4> QED
        BY <3>2, <4>1 DEF MutexInv, InCritical
    <3> QED
      BY <3>1, <3>2
  <2>3. ASSUME NEW t \in Threads, ConstructLocked(t) PROVE ctx' = u
    <3>1. t # u /\ pc[u] = "sh_dump" /\ pc[t] = "ctor_cs"
      BY <2>3 DEF ConstructLocked, Goto
    <3> QED
      BY <3>1 DEF MutexInv, InCritical
  <2>4. ASSUME NEW t \in Threads,
               \/ Lock(t) \/ DestroyLocked(t) \/ FirstChance(t)
               \/ RepairHandler(t) \/ Finish(t) \/ SimulateDump(t)
        PROVE  ctx' = u
    <3>1. pc[u] = "sh_dump" /\ UNCHANGED <<ctx, frame>>
      <4>1. frame[t].ret # "sh_dump"
        BY DEF Frame, AppPc
      <4>2. CASE Lock(t) \/ DestroyLocked(t)
        BY <4>2 DEF Lock, DestroyLocked, Goto
      <4>3. CASE FirstChance(t) \/ RepairHandler(t)
        BY <4>1, <4>3 DEF FirstChance, RepairHandler, Goto
      <4>4. CASE Finish(t) \/ SimulateDump(t)
        BY <4>4 DEF Finish, SimulateDump, Goto
      <4> QED
        BY <2>4, <4>2, <4>3, <4>4
    <3> QED
      BY <3>1 DEF CtxIntegrity
  <2>5. ASSUME NEW t \in Threads,
               BeginLoop(t) \/ HandleDump(t) \/ NestedFault(t)
        PROVE  ctx' = u
    <3>1. pc[u] = "sh_dump" /\ UNCHANGED <<ctx, frame>>
      <4>1. CASE BeginLoop(t)
        BY <4>1 DEF BeginLoop, SegvInHandler, Goto
      <4>2. CASE HandleDump(t)
        BY <4>2 DEF HandleDump, Goto
      <4>3. CASE NestedFault(t)
        BY <4>3 DEF NestedFault, SegvInHandler, Goto
      <4> QED
        BY <2>5, <4>1, <4>2, <4>3
    <3> QED
      BY <3>1 DEF CtxIntegrity
  <2>6. ASSUME NEW t \in Threads, Deliver(t) \/ Reraise(t) PROVE ctx' = u
    <3>1. t # u /\ pc[u] = "sh_dump" /\ ctx' = ctx /\ frame'[u] = frame[u]
      BY <2>6 DEF Deliver, Reraise, Goto, Frame, AppPc
    <3> QED
      BY <3>1 DEF CtxIntegrity
  <2>7. ASSUME NEW t \in Threads, NEW s \in Signals, NEW x \in BOOLEAN,
               Crash(t, s, x)
        PROVE  ctx' = u
    <3>1. t # u /\ pc[u] = "sh_dump" /\ ctx' = ctx /\ frame'[u] = frame[u]
      BY <2>7 DEF Crash, Goto
    <3> QED
      BY <3>1 DEF CtxIntegrity
  <2>8. ASSUME NEW t \in Owners, NEW h \in Handlers,
               Construct(t, h) \/ Destroy(t, h)
        PROVE  ctx' = u
    <3>1. pc[u] = "sh_dump" /\ UNCHANGED <<ctx, frame>>
      BY <2>8 DEF Construct, Destroy, Goto
    <3> QED
      BY <3>1 DEF CtxIntegrity
  <2>9. ASSUME NEW s \in Signals, LoseSigInfo(s) PROVE ctx' = u
    BY <2>9 DEF LoseSigInfo, CtxIntegrity
  <2> QED
    BY <2>1, <2>2, <2>3, <2>4, <2>5, <2>6, <2>7, <2>8, <2>9
       DEF Next, ThreadStep, Rest, SimulateBegin
<1> QED
  BY <1>1, <1>2, IndInvHolds, PTL DEF Spec

-----------------------------------------------------------------------------
InstallerLive == \E k \in 1..Len(stack) : stack[k] \in Installers

\* Erasing a handler from the stack does not add an installing one to it.
LEMMA EraseInstaller ==
    ASSUME stack \in Seq(Handlers), NEW k \in 1..Len(stack),
           NEW i \in 1..(Len(stack) - 1), Erase(stack, k)[i] \in Installers
    PROVE  InstallerLive
<1>1. CASE i < k
  <2>1. i \in 1..Len(stack) /\ Erase(stack, k)[i] = stack[i]
    BY <1>1 DEF Erase
  <2> QED
    BY <2>1 DEF InstallerLive
<1>2. CASE ~(i < k)
  <2>1. i + 1 \in 1..Len(stack) /\ Erase(stack, k)[i] = stack[i + 1]
    BY <1>2 DEF Erase
  <2> QED
    BY <2>1 DEF InstallerLive
<1> QED
  BY <1>1, <1>2

\* The same for the step that erases it.
LEMMA EraseStep ==
    ASSUME stack \in Seq(Handlers), NEW k \in 1..Len(stack),
           stack' = Erase(stack, k), Len(stack') = Len(stack) - 1
    PROVE  InstallerLive' => InstallerLive
<1>1. SUFFICES ASSUME NEW i \in 1..(Len(stack) - 1),
                      Erase(stack, k)[i] \in Installers
               PROVE  InstallerLive
  BY DEF InstallerLive
<1> QED
  BY <1>1, EraseInstaller

\* The two halves of ArmedUntilDispatch: handlers_installed tells the truth
\* about the dispositions, and is set while an installing handler is alive.
ArmedInv ==
    /\ handlers_installed /\ ~dispatched
          => \A s \in Signals : IsBreakpad(disp[s])
    /\ InstallerLive /\ ~dispatched => handlers_installed

\* If sigaction never fails, every exception signal enters SignalHandler from
\* the construction of an installing handler to the end of the first
\* dispatch, whatever handlers other threads construct and destroy.
THEOREM StaysArmed ==
    ASSUME SyscallResults = {TRUE}
    PROVE  Spec => []ArmedUntilDispatch
<1>1. Changeable = {Signals}
  BY DEF Changeable
<1>2. Init => ArmedInv
  BY DEF Init, ArmedInv, InstallerLive
<1>3. IndInv /\ ArmedInv /\ [Next]_vars => ArmedInv'
  <2> SUFFICES ASSUME IndInv, ArmedInv, [Next]_vars PROVE ArmedInv'
    OBVIOUS
  <2> USE ConstantsAssumption DEF IndInv, TypeOK, SigType, LibType
  <2>1. CASE UNCHANGED <<sigVars, stack, dispatched>>
    BY <2>1 DEF sigVars, ArmedInv, InstallerLive
  <2>2. ASSUME NEW t \in Threads, ConstructLocked(t) PROVE ArmedInv'
    <3>1. obj[t] \in Handlers
      BY <2>2 DEF ConstructLocked, ObjInv, InLifecycle
    <3>2. CASE obj[t] \in Installers
      <4>1. handlers_installed' /\ UNCHANGED dispatched
        BY <2>2, <3>2, <1>1 DEF ConstructLocked, InstallHandlersLocked, sigVars
      <4>2. ~dispatched => \A s \in Signals : IsBreakpad(disp'[s])
        <5>1. CASE handlers_installed
          BY <2>2, <3>2, <5>1 DEF ConstructLocked, InstallHandlersLocked,
             sigVars, ArmedInv
        <5>2. CASE ~handlers_installed
          BY <2>2, <3>2, <5>2, <1>1 DEF ConstructLocked,
             InstallHandlersLocked, IsBreakpad
        <5> QED
          BY <5>1, <5>2
      <4> QED
        BY <4>1, <4>2 DEF ArmedInv
    <3>3. CASE obj[t] \notin Installers
      <4>1. UNCHANGED <<disp, handlers_installed, dispatched>>
        BY <2>2, <3>3 DEF ConstructLocked, sigVars
      <4>2. stack' = Append(stack, obj[t])
        BY <2>2 DEF ConstructLocked
      <4>3. InstallerLive' => InstallerLive
        BY <3>1, <3>3, <4>2 DEF InstallerLive
      <4> QED
        BY <4>1, <4>3 DEF ArmedInv
    <3> QED
      BY <3>2, <3>3
  <2>3. ASSUME NEW t \in Threads, DestroyLocked(t) PROVE ArmedInv'
    <3>0. stack \in Seq(Handlers)
      BY DEF IndInv, TypeOK, LibType
    <3>1. PICK k \in 1..Len(stack) : stack' = Erase(stack, k)
      BY <2>3 DEF DestroyLocked
    <3>2. stack' \in Seq(Handlers) /\ Len(stack') = Len(stack) - 1
      BY <3>0, <3>1, EraseType
    <3>3. CASE StackEmptied
      <4>1. ~InstallerLive'
        BY <3>2, <3>3 DEF StackEmptied, InstallerLive
      <4>2. ~handlers_installed'
        BY <2>3, <3>3 DEF DestroyLocked, RestoreHandlersLocked, sigVars
      <4> QED
        BY <4>1, <4>2 DEF ArmedInv
    <3>4. CASE ~StackEmptied
      <4>1. InstallerLive' => InstallerLive
        BY <3>0, <3>1, <3>2, EraseStep
      <4>2. UNCHANGED <<disp, handlers_installed, dispatched>>
        BY <2>3, <3>4 DEF DestroyLocked, sigVars
      <4> QED
        BY <4>1, <4>2 DEF ArmedInv
    <3> QED
      BY <3>3, <3>4
  <2>4. ASSUME NEW t \in Threads, RepairHandler(t) PROVE ArmedInv'
    BY <2>4 DEF RepairHandler, RepairedDisposition, ArmedInv, InstallerLive,
       IsBreakpad
  <2>5. ASSUME NEW t \in Threads, Finish(t) PROVE ArmedInv'
    BY <2>5 DEF Finish, ArmedInv
  <2>6. ASSUME NEW s \in Signals, LoseSigInfo(s) PROVE ArmedInv'
    BY <2>6 DEF LoseSigInfo, ArmedInv, InstallerLive, IsBreakpad
  <2>7. ASSUME NEW t \in Threads,
               \/ Lock(t) \/ Deliver(t) \/ FirstChance(t) \/ BeginLoop(t)
               \/ HandleFilter(t) \/ HandleDump(t) \/ Reraise(t)
               \/ SimulateDump(t) \/ NestedFault(t)
        PROVE  ArmedInv'
    BY <2>1, <2>7 DEF Lock, Deliver, FirstChance, BeginLoop, HandleFilter,
       HandleDump, Reraise, SimulateDump, NestedFault
  <2>8. ASSUME NEW t \in Threads, NEW h \in Handlers,
               Construct(t, h) \/ Destroy(t, h) \/ SimulateBegin(t, h)
        PROVE  ArmedInv'
    BY <2>1, <2>8 DEF Construct, Destroy, SimulateBegin
  <2>9. ASSUME NEW t \in Threads, NEW s \in Signals, NEW u \in BOOLEAN,
               Crash(t, s, u)
        PROVE  ArmedInv'
    BY <2>1, <2>9 DEF Crash
  <2>10. CASE UNCHANGED vars
    BY <2>1, <2>10 DEF vars
  <2> QED
    BY <2>2, <2>3, <2>4, <2>5, <2>6, <2>7, <2>8, <2>9, <2>10
       DEF Next, ThreadStep, Rest
<1>4. ArmedInv => ArmedUntilDispatch
  BY DEF ArmedInv, InstallerLive, ArmedUntilDispatch
<1> QED
  BY <1>2, <1>3, <1>4, IndInvHolds, PTL DEF Spec

-----------------------------------------------------------------------------
\* Breakpad's stack is installed on thread o at most, and is not freed there.
AltInv(o) ==
    /\ AltStackLive
    /\ old_stack # "freed"
    /\ \A t \in Threads : altstack[t] = "bp" => t = o

\* If one thread constructs and destroys all handlers, no thread is left with
\* a freed alternate signal stack, although every system call may fail.
THEOREM AltStackNeverFreed ==
    ASSUME NEW o, Owners = {o}
    PROVE  Spec => []AltStackLive
<1>1. Init => AltInv(o)
  BY ConstantsAssumption DEF Init, AltInv, AltStackLive, AppStack
<1>2. IndInv /\ AltInv(o) /\ [Next]_vars => AltInv(o)'
  <2> SUFFICES ASSUME IndInv, AltInv(o), [Next]_vars PROVE AltInv(o)'
    OBVIOUS
  <2> USE ConstantsAssumption DEF IndInv, TypeOK, AltType, AltInv, AltStackLive
  <2>1. CASE UNCHANGED altVars
    BY <2>1 DEF altVars
  <2>2. ASSUME NEW t \in Threads, ConstructLocked(t) PROVE AltInv(o)'
    <3>1. t = o
      BY <2>2 DEF ConstructLocked, ObjInv, InLifecycle
    <3>2. CASE InstallAlternateStackLocked(t)
      BY <3>1, <3>2 DEF InstallAlternateStackLocked, altVars
    <3> QED
      BY <2>1, <2>2, <3>2 DEF ConstructLocked
  <2>3. ASSUME NEW t \in Threads, DestroyLocked(t) PROVE AltInv(o)'
    <3>1. t = o
      BY <2>3 DEF DestroyLocked, ObjInv, InLifecycle
    <3>2. CASE RestoreAlternateStackLocked(t)
      BY <3>1, <3>2 DEF RestoreAlternateStackLocked, RestoredStack, altVars
    <3> QED
      BY <2>1, <2>3, <3>2 DEF DestroyLocked
  <2>4. ASSUME NEW t \in Threads,
               \/ Lock(t) \/ Deliver(t) \/ FirstChance(t) \/ RepairHandler(t)
               \/ BeginLoop(t) \/ HandleFilter(t) \/ HandleDump(t) \/ Finish(t)
               \/ Reraise(t) \/ SimulateDump(t) \/ NestedFault(t)
        PROVE  AltInv(o)'
    BY <2>1, <2>4 DEF Lock, Deliver, FirstChance, RepairHandler, BeginLoop,
       HandleFilter, HandleDump, Finish, Reraise, SimulateDump, NestedFault
  <2>5. ASSUME NEW t \in Threads, NEW h \in Handlers,
               Construct(t, h) \/ Destroy(t, h) \/ SimulateBegin(t, h)
        PROVE  AltInv(o)'
    BY <2>1, <2>5 DEF Construct, Destroy, SimulateBegin
  <2>6. ASSUME NEW t \in Threads, NEW s \in Signals, NEW u \in BOOLEAN,
               Crash(t, s, u)
        PROVE  AltInv(o)'
    BY <2>1, <2>6 DEF Crash
  <2>7. ASSUME NEW s \in Signals, LoseSigInfo(s) PROVE AltInv(o)'
    BY <2>1, <2>7 DEF LoseSigInfo
  <2>8. CASE UNCHANGED vars
    BY <2>1, <2>8 DEF vars
  <2> QED
    BY <2>2, <2>3, <2>4, <2>5, <2>6, <2>7, <2>8 DEF Next, ThreadStep, Rest
<1>3. AltInv(o) => AltStackLive
  BY DEF AltInv
<1> QED
  BY <1>1, <1>2, <1>3, IndInvHolds, PTL DEF Spec
-----------------------------------------------------------------------------
(***************************************************************************)
(* One thread crashes.  Its code faults or calls abort(); no signal is     *)
(* sent to a thread, no handler is destroyed and no other code uses        *)
(* signal().  The other threads construct handlers all the while.          *)
(***************************************************************************)
OneCrash ==
    /\ \A t, u \in Crashers : t = u
    /\ AsyncTargets = {} /\ Destroyable = {} /\ MaxRestores = 0

\* SignalHandler is installed as InstallHandlersLocked does it, and only while
\* handlers_installed says so; what it replaced is the application's.
DispInv ==
    /\ old_handlers \in [Signals -> AppDisp]
    /\ disp \in [Signals -> AppDisp \cup {"bp"}]
    /\ \A s \in Signals : disp[s] = "bp" => handlers_installed

\* Where the crash can interrupt a thread, and that the disposition through
\* which it entered SignalHandler stays until it has chosen another one.
EntryInv ==
    \A t \in Threads :
        /\ pc[t] \notin {"dtor_lock", "dtor_cs", "stuck"}
        /\ pc[t] \in InHandler \cup {"faulted"} =>
               t \in Crashers /\ frame[t].ret = "run"
        /\ pc[t] \in InHandler => frame[t].via = "bp"
        /\ pc[t] \in InHandler \ {"sh_reraise"} => disp[frame[t].sig] = "bp"

\* Who holds the mutex is in a critical section.
HolderInv == \A t \in Threads : mutex = t => InCritical(t)

\* Once a handler has taken the crash, the signal gets the default action, and
\* handlers_installed keeps constructors from installing SignalHandler again.
HandledInv ==
    \A t \in Threads :
        handled[t] =>
            /\ t \in Crashers
            /\ \/ pc[t] = "sh_loop"
               \/ /\ pc[t] \in {"sh_reraise", "faulted"}
                  /\ disp[frame[t].sig] = "dfl" /\ handlers_installed

CrashInv == DispInv /\ EntryInv /\ HolderInv /\ HandledInv

\* No dump is written by SimulateSignalDelivery.
NoSimulation == \A t \in Threads : pc[t] # "sim_dump"

\* A complete dump was written by a handler that took the crash.
ReportInv ==
    /\ NoSimulation
    /\ OneReport
    /\ \A h \in Handlers :
          dump[h] = "complete" => \E t \in Threads : handled[t]

\* After a dispatch: either nothing is installed and the dispositions are the
\* old ones, or only the signal of a crash that was taken is not caught.
AfterInv ==
    /\ dispatched /\ ~handlers_installed => disp = old_handlers
    /\ handlers_installed =>
          \A s \in Signals :
              disp[s] = "bp" \/ \E t \in Threads : handled[t]

ChosenInv == RedeliveredAsChosen /\ AfterInv

\* What cannot happen when one thread crashes.
LEMMA OneCrashSteps ==
    ASSUME OneCrash, IndInv, CrashInv, [Next]_vars
    PROVE  \/ UNCHANGED vars
           \/ \E t \in Threads :
                 \/ Lock(t) \/ ConstructLocked(t) \/ Deliver(t)
                 \/ FirstChance(t) \/ BeginLoop(t) \/ HandleFilter(t)
                 \/ HandleDump(t) \/ Finish(t) \/ Reraise(t)
                 \/ SimulateDump(t) \/ NestedFault(t)
                 \/ \E h \in Handlers : Construct(t, h) \/ SimulateBegin(t, h)
                 \/ \E s \in Signals, u \in BOOLEAN : Crash(t, s, u)
<1>1. ASSUME NEW t \in Threads, DestroyLocked(t) PROVE FALSE
  BY <1>1 DEF DestroyLocked, CrashInv, EntryInv
<1>2. ASSUME NEW t \in Threads, RepairHandler(t) PROVE FALSE
  BY <1>2 DEF RepairHandler, HasSigInfo, CrashInv, EntryInv, InHandler
<1>3. ASSUME NEW s \in Signals, LoseSigInfo(s) PROVE FALSE
  BY <1>3 DEF LoseSigInfo, OneCrash, IndInv, TypeOK, LibType
<1>4. ASSUME NEW t \in Owners, NEW h \in Destroyable, Destroy(t, h)
      PROVE  FALSE
  BY <1>4 DEF OneCrash
<1>5. Owners \subseteq Threads
  BY ConstantsAssumption
<1> QED
  BY <1>1, <1>2, <1>3, <1>4, <1>5 DEF Next, ThreadStep, Rest

\* A fault inside SignalHandler is fatal: the signal is blocked.
LEMMA NestedIsFatal ==
    ASSUME CrashInv, NEW t \in Threads, pc[t] \in InHandler, SegvInHandler(t)
    PROVE  UNCHANGED pc /\ fate' = "nested"
<1>1. Segv \in Masked(frame[t])
  BY ConstantsAssumption DEF CrashInv, EntryInv, Masked
<1> QED
  BY <1>1 DEF SegvInHandler

\* A thread that enters SignalHandler: what stays of its frame.
LEMMA DeliverFrame ==
    ASSUME IndInv, NEW t \in Threads, Deliver(t)
    PROVE  /\ \A u \in Threads : /\ frame'[u].ret = frame[u].ret
                                 /\ frame'[u].sig = frame[u].sig
           /\ \A u \in Threads \ {t} : frame'[u] = frame[u]
           /\ pc'[t] = "sh_first" => frame'[t].via = disp[frame[t].sig]
BY DEF Deliver, Goto, IndInv, TypeOK, ThreadType, Frame

\* Every step of any thread keeps what the crashing thread relies on.
LEMMA CrashStep == OneCrash /\ IndInv /\ CrashInv /\ [Next]_vars => CrashInv'
<1> SUFFICES ASSUME OneCrash, IndInv, CrashInv, [Next]_vars PROVE CrashInv'
  OBVIOUS
<1> USE ConstantsAssumption DEF IndInv, TypeOK, ThreadType, SigType, CrashInv,
        InHandler
<1>1. CASE UNCHANGED vars
  BY <1>1 DEF vars, sigVars, loopVars, InCritical, DispInv, EntryInv,
     HolderInv, HandledInv
<1>2. ASSUME NEW t \in Threads, Lock(t) PROVE CrashInv'
  <2>1. /\ UNCHANGED <<sigVars, frame, handled>> /\ mutex' = t
        /\ \A u \in Threads \ {t} : pc'[u] = pc[u]
    BY <1>2 DEF Lock, Acquire, Goto, loopVars
  <2>2. \/ pc[t] = "ctor_lock" /\ pc'[t] = "ctor_cs"
        \/ pc[t] = "sh_lock" /\ pc'[t] = "sh_check"
    BY <1>2 DEF Lock, LockPc, Goto, EntryInv
  <2>11. DispInv'
    BY <2>1 DEF DispInv, sigVars
  <2>12. EntryInv'
    BY <2>1, <2>2 DEF EntryInv, sigVars
  <2>13. HolderInv'
    BY <2>1, <2>2 DEF HolderInv, InCritical
  <2>14. HandledInv'
    BY <2>1, <2>2 DEF HandledInv, sigVars
  <2> QED
    BY <2>11, <2>12, <2>13, <2>14
<1>3. ASSUME NEW t \in Threads, ConstructLocked(t) PROVE CrashInv'
  <2>1. /\ \A u \in Threads \ {t} : pc'[u] = pc[u]
        /\ pc[t] = "ctor_cs" /\ pc'[t] = "run"
        /\ UNCHANGED <<frame, handled>> /\ mutex' = None
    BY <1>3 DEF ConstructLocked, Goto, Release, loopVars
  <2>2. InstallHandlersLocked \/ UNCHANGED sigVars
    BY <1>3 DEF ConstructLocked
  <2>3. /\ \A s \in Signals : disp[s] = "bp" => disp'[s] = "bp"
        /\ handlers_installed =>
              handlers_installed' /\ UNCHANGED <<disp, old_handlers>>
    BY <2>2 DEF InstallHandlersLocked, sigVars
  <2>4. \A u \in Threads : frame[u].sig \in Signals
    BY DEF Frame
  <2>11. DispInv'
    BY <2>2 DEF DispInv, InstallHandlersLocked, sigVars
  <2>12. EntryInv'
    BY <2>1, <2>3, <2>4 DEF EntryInv
  <2>13. HolderInv'
    BY <2>1 DEF HolderInv
  <2>14. HandledInv'
    BY <2>1, <2>3 DEF HandledInv
  <2> QED
    BY <2>11, <2>12, <2>13, <2>14
<1>4. ASSUME NEW t \in Threads, Deliver(t) PROVE CrashInv'
  <2>1. /\ \A u \in Threads \ {t} : pc'[u] = pc[u] /\ frame'[u] = frame[u]
        /\ UNCHANGED <<sigVars, handled, mutex>>
        /\ pc[t] = "faulted" /\ pc'[t] \in {"faulted", "sh_first"}
        /\ frame'[t].ret = frame[t].ret /\ frame'[t].sig = frame[t].sig
    BY <1>4, DeliverFrame DEF Deliver, Goto, loopVars
  <2>2. frame[t].sig \in Signals
    BY DEF Frame
  <2>3. /\ pc'[t] = "sh_first" => disp[frame[t].sig] = "bp"
        /\ pc'[t] = "sh_first" => frame'[t].via = "bp"
    BY <1>4, <2>1, <2>2, DeliverFrame
       DEF Deliver, Goto, IsBreakpad, DispInv, AppDisp
  <2>11. DispInv'
    BY <2>1 DEF DispInv, sigVars
  <2>12. EntryInv'
    BY <2>1, <2>3 DEF EntryInv, sigVars
  <2>13. HolderInv'
    BY <2>1 DEF HolderInv, InCritical
  <2>14. HandledInv'
    BY <2>1, <2>3 DEF HandledInv, sigVars
  <2> QED
    BY <2>11, <2>12, <2>13, <2>14
<1>5. ASSUME NEW t \in Threads, FirstChance(t) PROVE CrashInv'
  <2>1. /\ pc[t] = "sh_first"
        /\ UNCHANGED <<sigVars, frame, mutex, handled>>
    BY <1>5 DEF FirstChance, loopVars
  <2>2. /\ \A u \in Threads \ {t} : pc'[u] = pc[u]
        /\ pc'[t] \in {"run", "sh_lock"}
    BY <1>5, <2>1 DEF FirstChance, Goto, EntryInv
  <2>11. DispInv'
    BY <2>1 DEF DispInv, sigVars
  <2>12. EntryInv'
    BY <2>1, <2>2 DEF EntryInv, sigVars
  <2>13. HolderInv'
    BY <2>1, <2>2 DEF HolderInv, InCritical, EntryInv
  <2>14. HandledInv'
    BY <2>1, <2>2 DEF HandledInv, sigVars
  <2> QED
    BY <2>11, <2>12, <2>13, <2>14
<1>6. ASSUME NEW t \in Threads, BeginLoop(t) PROVE CrashInv'
  <2>1. /\ pc[t] = "sh_check"
        /\ UNCHANGED <<sigVars, frame, mutex>>
        /\ handled' = [handled EXCEPT ![t] = FALSE]
    BY <1>6 DEF BeginLoop
  <2>2. UNCHANGED pc \/ pc' = [pc EXCEPT ![t] = "sh_loop"]
    BY <1>6, <2>1, NestedIsFatal DEF BeginLoop, Goto
  <2>3. /\ \A u \in Threads \ {t} : pc'[u] = pc[u] /\ handled'[u] = handled[u]
        /\ pc'[t] \in {"sh_check", "sh_loop"} /\ ~handled'[t]
    BY <2>1, <2>2
  <2>11. DispInv'
    BY <2>1 DEF DispInv, sigVars
  <2>12. EntryInv'
    BY <2>1, <2>3 DEF EntryInv, sigVars
  <2>13. HolderInv'
    BY <2>1, <2>3 DEF HolderInv, InCritical
  <2>14. HandledInv'
    BY <2>1, <2>3 DEF HandledInv, sigVars
  <2> QED
    BY <2>11, <2>12, <2>13, <2>14
<1>7. ASSUME NEW t \in Threads, HandleFilter(t) PROVE CrashInv'
  <2>1. /\ pc[t] = "sh_loop" /\ ~handled[t]
        /\ UNCHANGED <<sigVars, frame, mutex, handled>>
    BY <1>7 DEF HandleFilter, LoopGoesOn
  <2>2. UNCHANGED pc \/ pc' = [pc EXCEPT ![t] = "sh_dump"]
    BY <1>7, <2>1, NestedIsFatal DEF HandleFilter, Goto
  <2>3. /\ \A u \in Threads \ {t} : pc'[u] = pc[u]
        /\ pc'[t] \in {"sh_loop", "sh_dump"}
    BY <2>1, <2>2
  <2>11. DispInv'
    BY <2>1 DEF DispInv, sigVars
  <2>12. EntryInv'
    BY <2>1, <2>3 DEF EntryInv, sigVars
  <2>13. HolderInv'
    BY <2>1, <2>3 DEF HolderInv, InCritical
  <2>14. HandledInv'
    BY <2>1, <2>3 DEF HandledInv, sigVars
  <2> QED
    BY <2>11, <2>12, <2>13, <2>14
<1>8. ASSUME NEW t \in Threads, HandleDump(t) PROVE CrashInv'
  <2>1. /\ pc[t] = "sh_dump" /\ pc'[t] = "sh_loop"
        /\ \A u \in Threads \ {t} : pc'[u] = pc[u]
        /\ UNCHANGED <<sigVars, frame, mutex>>
    BY <1>8 DEF HandleDump, Goto
  <2>2. \A u \in Threads \ {t} : handled'[u] = handled[u]
    BY <1>8 DEF HandleDump
  <2>3. t \in Crashers
    BY <2>1 DEF EntryInv
  <2>11. DispInv'
    BY <2>1 DEF DispInv, sigVars
  <2>12. EntryInv'
    BY <2>1 DEF EntryInv, sigVars
  <2>13. HolderInv'
    BY <2>1 DEF HolderInv, InCritical
  <2>14. HandledInv'
    BY <2>1, <2>2, <2>3 DEF HandledInv, sigVars
  <2> QED
    BY <2>11, <2>12, <2>13, <2>14
<1>9. ASSUME NEW t \in Threads, Finish(t) PROVE CrashInv'
  <2>1. /\ pc[t] = "sh_loop" /\ pc'[t] = "sh_reraise"
        /\ \A u \in Threads \ {t} : pc'[u] = pc[u]
        /\ UNCHANGED <<frame, handled>> /\ mutex' = None
        /\ IF handled[t] THEN InstallDefaultHandler(frame[t].sig)
                         ELSE RestoreHandlersLocked
    BY <1>9 DEF Finish, Goto, Release, loopVars
  <2>2. /\ t \in Crashers /\ frame[t].sig \in Signals
        /\ disp[frame[t].sig] = "bp" /\ handlers_installed
    BY <2>1 DEF EntryInv, DispInv, Frame
  <2>3. \A u \in Threads \ {t} : /\ pc[u] \notin InHandler \cup {"faulted"}
                                 /\ ~handled[u]
    BY <2>2 DEF OneCrash, EntryInv, HandledInv
  <2>4. handled[t] => disp'[frame[t].sig] = "dfl" /\ handlers_installed'
    BY <2>1, <2>2 DEF InstallDefaultHandler
  <2>11. DispInv'
    BY <2>1, <2>2 DEF DispInv, InstallDefaultHandler, RestoreHandlersLocked,
       AppDisp, sigVars
  <2>12. EntryInv'
    BY <2>1, <2>3 DEF EntryInv
  <2>13. HolderInv'
    BY <2>1 DEF HolderInv
  <2>14. HandledInv'
    BY <2>1, <2>2, <2>3, <2>4 DEF HandledInv
  <2> QED
    BY <2>11, <2>12, <2>13, <2>14
<1>10. ASSUME NEW t \in Threads, Reraise(t) PROVE CrashInv'
  <2>1. /\ pc[t] = "sh_reraise" /\ UNCHANGED <<sigVars, handled, mutex>>
        /\ t \in Crashers /\ frame[t].via = "bp" /\ frame[t].ret = "run"
    BY <1>10 DEF Reraise, loopVars, EntryInv
  <2>2. UNCHANGED pc \/ pc' = [pc EXCEPT ![t] = "faulted"]
    BY <1>10, <2>1 DEF Reraise, Goto
  <2>3. /\ \A u \in Threads \ {t} : pc'[u] = pc[u]
        /\ pc'[t] \in {"sh_reraise", "faulted"}
    BY <2>1, <2>2
  <2>4. UNCHANGED frame \/ frame' = [frame EXCEPT ![t].user = TRUE]
    BY <1>10 DEF Reraise
  <2>5. \A u \in Threads : /\ frame'[u].ret = frame[u].ret
                           /\ frame'[u].sig = frame[u].sig
                           /\ frame'[u].via = frame[u].via
    BY <2>4 DEF Frame
  <2>11. DispInv'
    BY <2>1 DEF DispInv, sigVars
  <2>12. EntryInv'
    BY <2>1, <2>3, <2>5 DEF EntryInv, sigVars
  <2>13. HolderInv'
    BY <2>1, <2>3, <2>5 DEF HolderInv, InCritical
  <2>14. HandledInv'
    BY <2>1, <2>3, <2>5 DEF HandledInv, sigVars
  <2> QED
    BY <2>11, <2>12, <2>13, <2>14
<1>11. ASSUME NEW t \in Threads, SimulateDump(t) PROVE CrashInv'
  <2>1. /\ \A u \in Threads \ {t} : pc'[u] = pc[u]
        /\ pc[t] \in {"sim_dump"} /\ pc'[t] \in {"run"}
        /\ UNCHANGED <<frame, handled, mutex, sigVars>>
    BY <1>11 DEF SimulateDump, Goto, sigVars, loopVars
  <2>11. DispInv'
    BY <2>1 DEF DispInv, sigVars
  <2>12. EntryInv'
    BY <2>1 DEF EntryInv, sigVars
  <2>13. HolderInv'
    BY <2>1 DEF HolderInv, InCritical
  <2>14. HandledInv'
    BY <2>1 DEF HandledInv, sigVars
  <2> QED
    BY <2>11, <2>12, <2>13, <2>14
<1>12. ASSUME NEW t \in Threads, NestedFault(t) PROVE CrashInv'
  <2>1. /\ pc[t] \in {"sh_dump", "sh_loop"}
        /\ UNCHANGED <<sigVars, frame, mutex, handled>>
    BY <1>12 DEF NestedFault, loopVars
  <2>2. UNCHANGED pc
    BY <1>12, <2>1, NestedIsFatal DEF NestedFault
  <2>11. DispInv'
    BY <2>1 DEF DispInv, sigVars
  <2>12. EntryInv'
    BY <2>1, <2>2 DEF EntryInv, sigVars
  <2>13. HolderInv'
    BY <2>1, <2>2 DEF HolderInv, InCritical
  <2>14. HandledInv'
    BY <2>1, <2>2 DEF HandledInv, sigVars
  <2> QED
    BY <2>11, <2>12, <2>13, <2>14
<1>13. ASSUME NEW t \in Threads, NEW h \in Handlers, Construct(t, h)
       PROVE  CrashInv'
  <2>1. /\ \A u \in Threads \ {t} : pc'[u] = pc[u]
        /\ pc[t] \in {"run"} /\ pc'[t] \in {"ctor_lock", "sim_dump"}
        /\ UNCHANGED <<frame, handled, mutex, sigVars>>
    BY <1>13 DEF Construct, Goto, loopVars
  <2>11. DispInv'
    BY <2>1 DEF DispInv, sigVars
  <2>12. EntryInv'
    BY <2>1 DEF EntryInv, sigVars
  <2>13. HolderInv'
    BY <2>1 DEF HolderInv, InCritical
  <2>14. HandledInv'
    BY <2>1 DEF HandledInv, sigVars
  <2> QED
    BY <2>11, <2>12, <2>13, <2>14
<1>14. ASSUME NEW t \in Threads, NEW h \in Handlers, SimulateBegin(t, h)
       PROVE  CrashInv'
  <2>1. /\ \A u \in Threads \ {t} : pc'[u] = pc[u]
        /\ pc[t] \in {"run"} /\ pc'[t] \in {"ctor_lock", "sim_dump"}
        /\ UNCHANGED <<frame, handled, mutex, sigVars>>
    BY <1>14 DEF SimulateBegin, Goto, loopVars
  <2>11. DispInv'
    BY <2>1 DEF DispInv, sigVars
  <2>12. EntryInv'
    BY <2>1 DEF EntryInv, sigVars
  <2>13. HolderInv'
    BY <2>1 DEF HolderInv, InCritical
  <2>14. HandledInv'
    BY <2>1 DEF HandledInv, sigVars
  <2> QED
    BY <2>11, <2>12, <2>13, <2>14
<1>15. ASSUME NEW t \in Threads, NEW s \in Signals, NEW u \in BOOLEAN,
              Crash(t, s, u)
       PROVE  CrashInv'
  <2>1. /\ UNCHANGED <<sigVars, handled, mutex>> /\ t \in Crashers
        /\ pc[t] = "run" /\ pc'[t] = "faulted"
        /\ \A v \in Threads \ {t} : pc'[v] = pc[v] /\ frame'[v] = frame[v]
    BY <1>15 DEF Crash, Goto, loopVars, OneCrash
  <2>2. frame'[t].ret = "run"
    BY <1>15, <2>1 DEF Crash, Frame
  <2>11. DispInv'
    BY <2>1 DEF DispInv, sigVars
  <2>12. EntryInv'
    BY <2>1, <2>2 DEF EntryInv, sigVars
  <2>13. HolderInv'
    BY <2>1 DEF HolderInv, InCritical
  <2>14. HandledInv'
    BY <2>1 DEF HandledInv, sigVars
  <2> QED
    BY <2>11, <2>12, <2>13, <2>14
<1> QED
  BY <1>1, <1>2, <1>3, <1>4, <1>5, <1>6, <1>7, <1>8, <1>9, <1>10, <1>11,
     <1>12, <1>13, <1>14, <1>15, OneCrashSteps

\* The invariant of one crash is inductive.
LEMMA CrashInvHolds ==
    ASSUME OneCrash
    PROVE  Spec => [](IndInv /\ CrashInv)
<1>1. Init => CrashInv
  <2> SUFFICES ASSUME Init PROVE CrashInv
    OBVIOUS
  <2>1. DispInv
    BY ConstantsAssumption DEF Init, DispInv, AppDisp
  <2>2. EntryInv /\ HolderInv /\ HandledInv
    BY ConstantsAssumption DEF Init, EntryInv, HolderInv, HandledInv,
       InHandler
  <2> QED
    BY <2>1, <2>2 DEF CrashInv
<1>2. IndInv /\ CrashInv /\ [Next]_vars => IndInv' /\ CrashInv'
  BY TypeStep, LockStep, CrashStep DEF IndInv, LockInv
<1> QED
  BY <1>1, <1>2, InitIndInv, PTL DEF Spec

\* One thread crashes: it never waits in SignalHandler for the mutex it holds
\* itself.  A callback of the application that faults kills the process, as
\* InstallHandlersLocked blocks all exception signals while SignalHandler
\* runs, and no constructor can be interrupted.
THEOREM NeverSelfDeadlocked ==
    ASSUME OneCrash
    PROVE  Spec => []NoSelfDeadlock
<1>1. CrashInv => NoSelfDeadlock
  BY DEF CrashInv, EntryInv, HolderInv, InCritical, NoSelfDeadlock, InHandler
<1> QED
  BY <1>1, CrashInvHolds, PTL

\* SimulateSignalDelivery is not called.
LEMMA NoSimulationStep ==
    ASSUME OneCrash, Simulators = {}, IndInv, CrashInv, NoSimulation,
           [Next]_vars
    PROVE  NoSimulation'
<1> USE DEF IndInv, TypeOK, ThreadType
<1>1. ASSUME NEW t \in Threads, NEW l, l # "sim_dump", Goto(t, l)
      PROVE  NoSimulation'
  BY <1>1 DEF Goto, NoSimulation
<1>2. CASE UNCHANGED pc
  BY <1>2 DEF NoSimulation
<1>3. ASSUME NEW t \in Threads, Lock(t) PROVE NoSimulation'
  BY <1>1, <1>3 DEF Lock
<1>4. ASSUME NEW t \in Threads, ConstructLocked(t) \/ HandleDump(t)
                                \/ Finish(t) \/ SimulateDump(t)
      PROVE  NoSimulation'
  BY <1>1, <1>4 DEF ConstructLocked, HandleDump, Finish, SimulateDump
<1>5. ASSUME NEW t \in Threads, Deliver(t) PROVE NoSimulation'
  BY <1>1, <1>2, <1>5 DEF Deliver
<1>6. ASSUME NEW t \in Threads, FirstChance(t) \/ Reraise(t)
      PROVE  NoSimulation'
  <2>1. frame[t].ret # "sim_dump"
    BY DEF Frame, AppPc
  <2> QED
    BY <1>1, <1>2, <1>6, <2>1 DEF FirstChance, Reraise
<1>7. ASSUME NEW t \in Threads, SegvInHandler(t) PROVE NoSimulation'
  BY <1>1, <1>2, <1>7 DEF SegvInHandler
<1>8. ASSUME NEW t \in Threads, BeginLoop(t) \/ HandleFilter(t)
                                \/ NestedFault(t)
      PROVE  NoSimulation'
  BY <1>1, <1>2, <1>7, <1>8 DEF BeginLoop, HandleFilter, NestedFault
<1>9. ASSUME NEW t \in Threads, NEW h \in Handlers,
             Construct(t, h) \/ SimulateBegin(t, h)
      PROVE  NoSimulation'
  BY <1>1, <1>9 DEF Construct, SimulateBegin
<1>10. ASSUME NEW t \in Threads, NEW s \in Signals, NEW u \in BOOLEAN,
              Crash(t, s, u)
       PROVE  NoSimulation'
  BY <1>1, <1>10 DEF Crash
<1>11. CASE UNCHANGED vars
  BY <1>2, <1>11 DEF vars
<1> QED
  BY <1>3, <1>4, <1>5, <1>6, <1>8, <1>9, <1>10, <1>11, OneCrashSteps

\* A crash that was taken stays taken.
LEMMA HandledStays ==
    ASSUME OneCrash, IndInv, CrashInv, [Next]_vars,
           NEW t \in Threads, handled[t]
    PROVE  handled'[t]
<1> USE DEF IndInv, TypeOK, ThreadType, CrashInv
<1>1. ~HandleDump(t) /\ ~BeginLoop(t)
  BY DEF HandleDump, BeginLoop, HandledInv
<1>2. ASSUME NEW u \in Threads, u # t, HandleDump(u) \/ BeginLoop(u)
      PROVE  handled'[t]
  BY <1>1, <1>2 DEF HandleDump, BeginLoop
<1>3. ASSUME NEW u \in Threads,
             \/ Lock(u) \/ ConstructLocked(u) \/ Deliver(u)
             \/ FirstChance(u) \/ HandleFilter(u) \/ Finish(u) \/ Reraise(u)
             \/ SimulateDump(u) \/ NestedFault(u)
      PROVE  handled' = handled
  BY <1>3 DEF Lock, ConstructLocked, Deliver, FirstChance, HandleFilter,
     Finish, Reraise, SimulateDump, NestedFault, loopVars
<1>4. ASSUME NEW u \in Threads, NEW h \in Handlers,
             Construct(u, h) \/ SimulateBegin(u, h)
      PROVE  handled' = handled
  BY <1>4 DEF Construct, SimulateBegin, loopVars
<1>5. ASSUME NEW u \in Threads, NEW s \in Signals, NEW b \in BOOLEAN,
             Crash(u, s, b)
      PROVE  handled' = handled
  BY <1>5 DEF Crash, loopVars
<1>6. CASE UNCHANGED vars
  BY <1>1, <1>6 DEF vars, loopVars
<1> QED
  BY <1>1, <1>2, <1>3, <1>4, <1>5, <1>6, OneCrashSteps

\* A dump is only written while no handler has taken the crash.
LEMMA ReportStep ==
    ASSUME OneCrash, Simulators = {}, FALSE \notin CallbackResults,
           IndInv, CrashInv, ReportInv, [Next]_vars
    PROVE  ReportInv'
<1> USE DEF IndInv, TypeOK, ThreadType, DumpType, CrashInv
<1>1. NoSimulation'
  BY NoSimulationStep DEF ReportInv
<1>2. CASE UNCHANGED dump
  BY <1>1, <1>2, HandledStays DEF ReportInv, OneReport
<1>3. ASSUME NEW t \in Threads, HandleDump(t) PROVE ReportInv'
  <2>1. \A u \in Threads : ~handled[u]
    <3>1. pc[t] = "sh_dump" /\ t \in Crashers
      BY <1>3 DEF HandleDump, EntryInv, InHandler
    <3> QED
      BY <3>1 DEF HandledInv, OneCrash
  <2>2. \A h \in Handlers : dump[h] # "complete"
    BY <2>1 DEF ReportInv
  <2>3. CASE ~UNCHANGED dump
    <3> DEFINE g == stack[idx[t]]
    <3>1. PICK result \in BOOLEAN :
              /\ GenerateDump(g, result)
              /\ handled' = [handled EXCEPT ![t] = result]
      BY <1>3, <2>3 DEF HandleDump
    <3>2. \A h \in Handlers : h # g => dump'[h] = dump[h]
      BY <3>1 DEF GenerateDump
    <3>3. g \in Handlers /\ dump'[g] = "complete" => result = TRUE
      BY <2>2, <3>1 DEF GenerateDump
    <3>4. result = TRUE => handled'[t]
      BY <3>1
    <3>5. \A h \in Handlers : dump'[h] = "complete" => h = g /\ handled'[t]
      BY <2>2, <3>2, <3>3, <3>4
    <3> QED
      BY <1>1, <3>5 DEF ReportInv, OneReport
  <2> QED
    BY <1>2, <2>3
<1>4. ASSUME NEW t \in Threads, SimulateDump(t) PROVE FALSE
  BY <1>4 DEF SimulateDump, ReportInv, NoSimulation
<1>5. ASSUME NEW t \in Threads,
             \/ Lock(t) \/ ConstructLocked(t) \/ Deliver(t) \/ FirstChance(t)
             \/ BeginLoop(t) \/ HandleFilter(t) \/ Finish(t) \/ Reraise(t)
             \/ NestedFault(t)
      PROVE  UNCHANGED dump
  BY <1>5 DEF Lock, ConstructLocked, Deliver, FirstChance, BeginLoop,
     HandleFilter, Finish, Reraise, NestedFault
<1>6. ASSUME NEW t \in Threads, NEW h \in Handlers,
             Construct(t, h) \/ SimulateBegin(t, h)
      PROVE  UNCHANGED dump
  BY <1>6 DEF Construct, SimulateBegin
<1>7. ASSUME NEW t \in Threads, NEW s \in Signals, NEW u \in BOOLEAN,
             Crash(t, s, u)
      PROVE  UNCHANGED dump
  BY <1>7 DEF Crash
<1>8. CASE UNCHANGED vars
  BY <1>2, <1>8 DEF vars
<1> QED
  BY <1>2, <1>3, <1>4, <1>5, <1>6, <1>7, <1>8, OneCrashSteps

\* One thread crashes, callbacks do not disown a dump that was written, and
\* SimulateSignalDelivery is not used: at most one handler's dump is complete.
\* That of the first handler that takes the crash; the signal that recurs has
\* the default action, which no constructor of another thread can replace.
THEOREM ReportedOnce ==
    ASSUME OneCrash, Simulators = {}, FALSE \notin CallbackResults
    PROVE  Spec => []OneReport
<1>1. Init => ReportInv
  BY DEF Init, ReportInv, OneReport, NoSimulation
<1>2. IndInv /\ CrashInv /\ ReportInv /\ [Next]_vars => ReportInv'
  BY ReportStep
<1>3. ReportInv => OneReport
  BY DEF ReportInv
<1> QED
  BY <1>1, <1>2, <1>3, CrashInvHolds, PTL DEF Spec

\* The dispositions are the ones the last dispatch chose.
LEMMA AfterStep ==
    ASSUME OneCrash, SyscallResults = {TRUE}, IndInv, CrashInv, AfterInv,
           [Next]_vars
    PROVE  AfterInv'
<1> USE DEF IndInv, TypeOK, ThreadType, SigType, CrashInv
<1>1. Changeable = {Signals}
  BY DEF Changeable
<1>2. CASE UNCHANGED <<sigVars, dispatched>>
  BY <1>2, HandledStays DEF AfterInv, sigVars
<1>3. ASSUME NEW t \in Threads, ConstructLocked(t) PROVE AfterInv'
  <2>1. InstallHandlersLocked \/ UNCHANGED sigVars
    BY <1>3 DEF ConstructLocked
  <2>2. UNCHANGED <<dispatched, handled>>
    BY <1>3 DEF ConstructLocked, loopVars
  <2>3. CASE InstallHandlersLocked
    BY <1>1, <2>2, <2>3 DEF InstallHandlersLocked, AfterInv, sigVars
  <2> QED
    BY <1>2, <2>1, <2>2, <2>3
<1>4. ASSUME NEW t \in Threads, Finish(t) PROVE AfterInv'
  <2>1. pc[t] = "sh_loop" /\ UNCHANGED handled
    BY <1>4 DEF Finish, loopVars
  <2>2. handlers_installed
    BY <2>1 DEF EntryInv, DispInv, InHandler, Frame
  <2>3. CASE handled[t]
    BY <1>4, <2>1, <2>2, <2>3 DEF Finish, InstallDefaultHandler, AfterInv
  <2>4. CASE ~handled[t]
    <3>1. RestoreHandlersLocked
      BY <1>4, <2>4 DEF Finish
    <3>2. /\ disp' = [s \in Signals |-> old_handlers[s]]
          /\ ~handlers_installed' /\ UNCHANGED old_handlers
      BY <1>1, <2>2, <3>1 DEF RestoreHandlersLocked
    <3>3. disp' = old_handlers
      BY <3>2
    <3> QED
      BY <3>2, <3>3 DEF AfterInv
  <2> QED
    BY <2>3, <2>4
<1>5. ASSUME NEW t \in Threads,
             \/ Lock(t) \/ Deliver(t) \/ FirstChance(t) \/ BeginLoop(t)
             \/ HandleFilter(t) \/ HandleDump(t) \/ Reraise(t)
             \/ SimulateDump(t) \/ NestedFault(t)
      PROVE  UNCHANGED <<sigVars, dispatched>>
  BY <1>5 DEF Lock, Deliver, FirstChance, BeginLoop, HandleFilter,
     HandleDump, Reraise, SimulateDump, NestedFault
<1>6. ASSUME NEW t \in Threads, NEW h \in Handlers,
             Construct(t, h) \/ SimulateBegin(t, h)
      PROVE  UNCHANGED <<sigVars, dispatched>>
  BY <1>6 DEF Construct, SimulateBegin
<1>7. ASSUME NEW t \in Threads, NEW s \in Signals, NEW u \in BOOLEAN,
             Crash(t, s, u)
      PROVE  UNCHANGED <<sigVars, dispatched>>
  BY <1>7 DEF Crash
<1>8. CASE UNCHANGED vars
  BY <1>2, <1>8 DEF vars
<1> QED
  BY <1>2, <1>3, <1>4, <1>5, <1>6, <1>7, <1>8, OneCrashSteps

\* Only the delivery of a signal ends the process by its disposition.
LEMMA EndedByDelivery ==
    ASSUME OneCrash, IndInv, CrashInv, [Next]_vars,
           fate' \in {"signal", "old"}
    PROVE  UNCHANGED vars \/ \E t \in Threads : Deliver(t)
<1>1. ASSUME NEW t \in Threads, SegvInHandler(t), pc[t] \in InHandler
      PROVE  FALSE
  BY <1>1, NestedIsFatal
<1>2. ASSUME NEW t \in Threads,
             \/ Lock(t) \/ ConstructLocked(t) \/ FirstChance(t)
             \/ HandleDump(t) \/ Finish(t) \/ SimulateDump(t)
      PROVE  FALSE
  BY <1>2 DEF Lock, ConstructLocked, FirstChance, HandleDump, Finish,
     SimulateDump, Running
<1>3. ASSUME NEW t \in Threads, BeginLoop(t) PROVE FALSE
  BY <1>1, <1>3 DEF BeginLoop, Running, InHandler
<1>4. ASSUME NEW t \in Threads, HandleFilter(t) PROVE FALSE
  BY <1>1, <1>4 DEF HandleFilter, Running, InHandler
<1>5. ASSUME NEW t \in Threads, NestedFault(t) PROVE FALSE
  BY <1>1, <1>5 DEF NestedFault, InHandler
<1>6. ASSUME NEW t \in Threads, Reraise(t) PROVE FALSE
  BY <1>6 DEF Reraise, Running
<1>7. ASSUME NEW t \in Threads, NEW h \in Handlers,
             Construct(t, h) \/ SimulateBegin(t, h)
      PROVE  FALSE
  BY <1>7 DEF Construct, SimulateBegin, Running
<1>8. ASSUME NEW t \in Threads, NEW s \in Signals, NEW u \in BOOLEAN,
             Crash(t, s, u)
      PROVE  FALSE
  BY <1>8 DEF Crash, Running
<1> QED
  BY <1>2, <1>3, <1>4, <1>5, <1>6, <1>7, <1>8, OneCrashSteps

\* The disposition that ends the process is the chosen one.
LEMMA RedeliveredStep ==
    ASSUME OneCrash, IndInv, CrashInv, ChosenInv, [Next]_vars
    PROVE  RedeliveredAsChosen'
<1> SUFFICES ASSUME NEW t \in Threads, dispatched', pc'[t] = "faulted",
                    fate' \in {"signal", "old"}
             PROVE  fate' = IF handled'[t]
                               \/ old_handlers'[frame'[t].sig] = "dfl"
                            THEN "signal" ELSE "old"
  BY DEF RedeliveredAsChosen
<1>1. CASE UNCHANGED vars
  BY <1>1 DEF vars, sigVars, loopVars, ChosenInv, RedeliveredAsChosen
<1>2. ASSUME NEW u \in Threads, Deliver(u)
      PROVE  fate' = IF handled'[t] \/ old_handlers'[frame'[t].sig] = "dfl"
                     THEN "signal" ELSE "old"
  <2>1. u = t
    <3>1. u \in Crashers
      BY <1>2 DEF Deliver, CrashInv, EntryInv
    <3>2. t \in Crashers
      BY CrashStep DEF CrashInv, EntryInv
    <3> QED
      BY <3>1, <3>2 DEF OneCrash
  <2> DEFINE s == frame[t].sig
  <2>2. /\ UNCHANGED <<disp, old_handlers, handled, frame, dispatched>>
        /\ ~IsBreakpad(disp[s])
        /\ fate' = IF disp[s] = "dfl" THEN "signal" ELSE "old"
    <3>1. fate' # fate
      BY <1>2 DEF Deliver, Running
    <3> QED
      BY <1>2, <2>1, <3>1 DEF Deliver, sigVars, loopVars
  <2>3. s \in Signals /\ disp[s] # "bp"
    BY <2>2 DEF IndInv, TypeOK, ThreadType, Frame, IsBreakpad
  <2>4. CASE handled[t]
    <3>1. pc[t] = "faulted"
      BY <1>2, <2>1 DEF Deliver
    <3>2. disp[s] = "dfl"
      BY <2>4, <3>1 DEF CrashInv, HandledInv
    <3> QED
      BY <2>2, <2>4, <3>2
  <2>5. CASE ~handled[t]
    <3>1. pc[t] = "faulted"
      BY <1>2, <2>1 DEF Deliver
    <3>2. \A v \in Threads : ~handled[v]
      BY <2>5, <3>1 DEF CrashInv, HandledInv, EntryInv, OneCrash
    <3>3. disp[s] = old_handlers[s]
      BY <2>2, <2>3, <3>2 DEF ChosenInv, AfterInv
    <3> QED
      BY <2>2, <2>5, <3>3
  <2> QED
    BY <2>4, <2>5
<1> QED
  BY <1>1, <1>2, EndedByDelivery

\* One thread crashes and no system call fails: the signal that recurs is
\* fatal if a handler took the crash, and otherwise does what it would have
\* done without Breakpad, whatever handlers other threads construct between
\* the end of SignalHandler and the new delivery.
THEOREM Redelivered ==
    ASSUME OneCrash, SyscallResults = {TRUE}
    PROVE  Spec => []RedeliveredAsChosen
<1>1. Init => ChosenInv
  BY DEF Init, ChosenInv, RedeliveredAsChosen, AfterInv
<1>2. IndInv /\ CrashInv /\ ChosenInv /\ [Next]_vars => ChosenInv'
  BY AfterStep, RedeliveredStep DEF ChosenInv
<1>3. ChosenInv => RedeliveredAsChosen
  BY DEF ChosenInv
<1> QED
  BY <1>1, <1>2, <1>3, CrashInvHolds, PTL DEF Spec
=============================================================================
