------------------------- MODULE GenerateDumpProofs -------------------------
(***************************************************************************)
(* Proofs about GenerateDump for any number of handlers, requests, clones  *)
(* and failures: that success is reported only for a finished dump, that   *)
(* the clone has the permission to trace when it is told to continue, that *)
(* no pipe is left open, and that the handshake implements DumpService.    *)
(***************************************************************************)
EXTENDS GenerateDump, TLAPS

\* A request in progress is a begun one that has not returned.
CallInv ==
    \A h \in Handlers :
        pc[h] # "idle" => call[h] \in 1..ncalls /\ outcome[call[h]] = "active"

\* Two requests in progress are two requests.
UniqueInv ==
    \A h, u \in Handlers :
        pc[h] # "idle" /\ pc[u] # "idle" /\ call[h] = call[u] => h = u

\* A request that has not begun has no clone; one without a clone or before
\* its clone has none either.
FreshInv ==
    /\ \A c \in Calls : c > ncalls => outcome[c] = "unused" /\ cpc[c] = "none"
    /\ \A h \in Handlers : pc[h] \in {"pipe", "clone"}
                               => cpc[call[h]] = "none"
    /\ \A c \in Calls : cpc[c] # "none" => outcome[c] # "unused"

Cloned == {"closeread", "allow", "send", "wait", "closewrite", "callback"}

\* The clone's copy of the path is the path of the handler: it was copied
\* before the next request could change it.
PathInv ==
    \A h \in Handlers : pc[h] \in Cloned => cpath[call[h]] = path[h]

CallPart == CallInv /\ UniqueInv /\ FreshInv /\ PathInv

\* A file belongs to the clone that created it, which has it at its path and
\* has not finished it, or has ended.
FileInv ==
    /\ \A p \in Paths : file[p].by = NoCall <=> file[p].state = "none"
    /\ \A p \in Paths : \A c \in Calls :
            file[p].by = c => cpath[c] = p /\ cpc[c] \in {"write", "exited"}
    /\ \A c \in Calls :
            cpc[c] = "write" =>
                file[cpath[c]] = [state |-> "partial", by |-> c]

\* Exit status 0 means that Dump came to its end on the clone's own file.
StatusInv ==
    \A c \in Calls :
        status[c] = "zero" =>
            /\ cpc[c] = "exited"
            /\ file[cpath[c]].by = c
            /\ file[cpath[c]].state \in Finished

\* |success| and a reported success mean exit status 0.
OkInv ==
    /\ \A h \in Handlers : pc[h] \in {"closewrite", "callback"} /\ ok[h]
                               => status[call[h]] = "zero"
    /\ \A c \in Calls : outcome[c] = "ok" => cpc[c] = "exited"

FilePart == FileInv /\ StatusInv /\ OkInv

\* The pipe of a request is its own, in the handler and in its clone.
OwnPipeInv ==
    /\ \A h \in Handlers :
            pc[h] \in Cloned \cup {"clone"} => fdes[h] \in {NoPipe, call[h]}
    /\ \A c \in Calls : cpc[c] # "none" => cfdes[c] \in {NoPipe, c}

\* Thread h has a descriptor open that it is still going to use.
Uses(h, end) ==
    /\ end[1] = call[h] /\ fdes[h] = call[h]
    /\ pc[h] \in {"clone", "closeread", "allow", "send", "wait", "closewrite"}
    /\ end[2] = "read" => pc[h] \in {"clone", "closeread"}

OpenInv == \A end \in fds : \E h \in Handlers : Uses(h, end)

PipePart == OwnPipeInv /\ OpenInv

\* Request c has given its clone the permission, and the byte.
Told(h, c) == call[h] = c /\ pc[h] \in {"wait", "closewrite", "callback"}

\* A byte is in a pipe, or was read from it, only after that.
ByteInv ==
    \A c \in Calls :
        /\ outcome[c] = "active" /\ (bytes[c] > 0 \/ told[c] = "byte")
               => \E h \in Handlers : Told(h, c)
        /\ cpc[c] = "none" => told[c] = "no"
        /\ c > ncalls => bytes[c] = 0

\* As long as requests do not overlap there is one, and the permission it has
\* given is the last one given.
PermitInv ==
    ~overlap =>
        /\ \A h, u \in Handlers :
               pc[h] # "idle" /\ pc[u] # "idle" => h = u
        /\ \A h \in Handlers :
               pc[h] \in {"send", "wait", "closewrite", "callback"}
                   => ptracer = call[h]

PermitPart == ByteInv /\ PermitInv

\* The inductive invariant behind the theorems of this module.
IndInv == TypeOK /\ CallPart /\ FilePart /\ PipePart /\ PermitPart

-----------------------------------------------------------------------------
\* A request in progress has a number.
LEMMA RequestType ==
    ASSUME IndInv, NEW h \in Handlers, pc[h] # "idle"
    PROVE  call[h] \in Calls
BY DumpAssumption DEF IndInv, TypeOK, ThreadType, CallPart, CallInv, Calls

\* A clone that ends keeps the types of the clones.
LEMMA ExitType ==
    ASSUME CloneType, NEW c \in Calls, NEW s \in {"zero", "one", "signal"},
           Exit(c, s), UNCHANGED <<cfdes, cpath, told>>
    PROVE  CloneType'
BY DEF CloneType, Exit, CGoto

\* Every step keeps every variable in its domain.
LEMMA TypeStep == IndInv /\ [Next]_vars => TypeOK'
<1> SUFFICES ASSUME IndInv, [Next]_vars PROVE TypeOK'
  OBVIOUS
<1> USE DumpAssumption DEF IndInv
<1>1. CASE UNCHANGED vars
  BY <1>1 DEF vars, parentVars, pipeVars, cloneVars, TypeOK, ThreadType,
     PipeType, CloneType, SystemType, CallInv, CallPart, Calls, NoPipe,
     NoCall, Descriptors, Paths, Close
<1>2. ASSUME NEW h \in Handlers, MakePipe(h)
      PROVE  TypeOK'
  <2>1. ThreadType'
    BY <1>2 DEF MakePipe, ReturnFalse, Fault, Goto, cloneVars, TypeOK,
       CallPart, CallInv, Calls, NoCall, ThreadType, Paths
  <2>2. PipeType'
    <3>1. call[h] \in Calls
      BY <1>2, RequestType DEF MakePipe
    <3>2. {ReadEnd(call[h]), WriteEnd(call[h])} \subseteq Descriptors
      BY <3>1 DEF ReadEnd, WriteEnd, Descriptors
    <3> QED
      BY <1>2, <3>1, <3>2 DEF MakePipe, TypeOK, PipeType
  <2>3. CloneType'
    BY <1>2 DEF MakePipe, ReturnFalse, Fault, Goto, cloneVars, TypeOK,
       CallPart, CallInv, Calls, NoCall, ThreadType, PipeType, CloneType,
       NoPipe, Descriptors, Close
  <2>4. SystemType'
    BY <1>2 DEF MakePipe, ReturnFalse, Fault, Goto, cloneVars, TypeOK,
       CallPart, CallInv, Calls, NoCall, ThreadType, CloneType, SystemType
  <2> QED
    BY <2>1, <2>2, <2>3, <2>4 DEF TypeOK
<1>3. ASSUME NEW h \in Handlers, CloneChild(h)
      PROVE  TypeOK'
  <2>1. ThreadType'
    BY <1>3 DEF CloneChild, DropPipe, ReturnFalse, Fault, Goto, cloneVars,
       TypeOK, CallPart, CallInv, Calls, NoCall, ThreadType, Paths
  <2>2. PipeType'
    BY <1>3 DEF CloneChild, DropPipe, ReturnFalse, Fault, Goto, cloneVars,
       TypeOK, CallPart, CallInv, Calls, NoCall, ThreadType, PipeType, NoPipe,
       Descriptors, Close
  <2>3. CloneType'
    <3>1. /\ call[h] \in Calls /\ fdes[h] \in Calls \cup {NoPipe}
          /\ path[h] \in Paths /\ fds \in SUBSET Descriptors
      BY <1>3, RequestType DEF CloneChild, TypeOK, ThreadType, PipeType
    <3> QED
      BY <1>3, <3>1 DEF CloneChild, cloneVars, TypeOK, CloneType
  <2>4. SystemType'
    BY <1>3 DEF CloneChild, DropPipe, ReturnFalse, Fault, Goto, cloneVars,
       TypeOK, CallPart, CallInv, Calls, NoCall, ThreadType, CloneType,
       SystemType
  <2> QED
    BY <2>1, <2>2, <2>3, <2>4 DEF TypeOK
<1>4. ASSUME NEW h \in Handlers, CloseReadEnd(h)
      PROVE  TypeOK'
  BY <1>4 DEF CloseReadEnd, Goto, cloneVars, TypeOK, ThreadType, PipeType,
     CloneType, SystemType, CallInv, CallPart, Calls, NoPipe, NoCall,
     Descriptors, Paths, Close
<1>5. ASSUME NEW h \in Handlers, AllowPtrace(h)
      PROVE  TypeOK'
  BY <1>5 DEF AllowPtrace, Allowed, Goto, pipeVars, cloneVars, TypeOK,
     ThreadType, PipeType, CloneType, SystemType, CallInv, CallPart, Calls,
     NoPipe, NoCall, Descriptors, Paths, Close
<1>6. ASSUME NEW h \in Handlers, SendContinue(h)
      PROVE  TypeOK'
  <2>1. ThreadType'
    BY <1>6 DEF SendContinue, Sent, Die, Goto, cloneVars, TypeOK, CallPart,
       CallInv, Calls, NoCall, ThreadType, Paths
  <2>2. PipeType'
    <3>1. fds' \subseteq Descriptors /\ fdes' = fdes
      BY <1>6 DEF SendContinue, Die, Goto, TypeOK, PipeType
    <3>2. WriteEnd(fdes[h]) \in fds => fdes[h] \in Calls
      BY DEF TypeOK, PipeType, WriteEnd, Descriptors
    <3>3. bytes' \in [Calls -> Nat]
      BY <1>6, <3>2 DEF SendContinue, Sent, TypeOK, PipeType
    <3> QED
      BY <3>1, <3>3 DEF TypeOK, PipeType
  <2>3. CloneType'
    BY <1>6 DEF SendContinue, Sent, Die, Goto, cloneVars, TypeOK, CallPart,
       CallInv, Calls, NoCall, ThreadType, PipeType, CloneType, NoPipe,
       Descriptors, Close
  <2>4. SystemType'
    BY <1>6 DEF SendContinue, Sent, Die, Goto, cloneVars, TypeOK, CallPart,
       CallInv, Calls, NoCall, ThreadType, CloneType, SystemType
  <2> QED
    BY <2>1, <2>2, <2>3, <2>4 DEF TypeOK
<1>7. ASSUME NEW h \in Handlers, WaitChild(h)
      PROVE  TypeOK'
  BY <1>7 DEF WaitChild, WaitReturns, WaitSucceeded, Goto, pipeVars,
     cloneVars, TypeOK, ThreadType, PipeType, CloneType, SystemType, CallInv,
     CallPart, Calls, NoPipe, NoCall, Descriptors, Paths, Close
<1>8. ASSUME NEW h \in Handlers, WaitFails(h)
      PROVE  TypeOK'
  <2>1. ThreadType'
    BY <1>8 DEF WaitFails, WaitReturns, Fault, Goto, pipeVars, cloneVars,
       TypeOK, CallPart, CallInv, Calls, NoCall, ThreadType, Paths
  <2>2. PipeType'
    BY <1>8 DEF WaitFails, WaitReturns, Fault, Goto, pipeVars, cloneVars,
       TypeOK, CallPart, CallInv, Calls, NoCall, ThreadType, PipeType, NoPipe,
       Descriptors, Close
  <2>3. CloneType'
    BY <1>8 DEF WaitFails, WaitReturns, Fault, Goto, pipeVars, cloneVars,
       TypeOK, CallPart, CallInv, Calls, NoCall, ThreadType, PipeType,
       CloneType, NoPipe, Descriptors, Close
  <2>4. SystemType'
    BY <1>8 DEF WaitFails, WaitReturns, Fault, Goto, pipeVars, cloneVars,
       TypeOK, CallPart, CallInv, Calls, NoCall, ThreadType, CloneType,
       SystemType
  <2> QED
    BY <2>1, <2>2, <2>3, <2>4 DEF TypeOK
<1>9. ASSUME NEW h \in Handlers, CloseWriteEnd(h)
      PROVE  TypeOK'
  BY <1>9 DEF CloseWriteEnd, Goto, cloneVars, TypeOK, ThreadType, PipeType,
     CloneType, SystemType, CallInv, CallPart, Calls, NoPipe, NoCall,
     Descriptors, Paths, Close
<1>10. ASSUME NEW h \in Handlers, Callback(h)
      PROVE  TypeOK'
  BY <1>10 DEF Callback, Goto, pipeVars, cloneVars, TypeOK, ThreadType,
     PipeType, CloneType, SystemType, CallInv, CallPart, Calls, NoPipe,
     NoCall, Descriptors, Paths, Close
<1>11. ASSUME NEW c \in Calls, StartClone(c)
      PROVE  TypeOK'
  BY <1>11 DEF StartClone, CloseInherited, CGoto, parentVars, pipeVars,
     TypeOK, ThreadType, PipeType, CloneType, SystemType, CallInv, CallPart,
     Calls, NoPipe, NoCall, Descriptors, Paths, Close
<1>12. ASSUME NEW c \in Calls, ReadContinue(c)
      PROVE  TypeOK'
  <2>1. ThreadType'
    BY <1>12 DEF ReadContinue, CGoto, parentVars, TypeOK, CallPart, CallInv,
       Calls, NoCall, ThreadType, Paths
  <2>2. PipeType'
    <3>1. cfdes[c] # NoPipe => cfdes[c] \in Calls
      BY DEF TypeOK, CloneType
    <3>2. CASE cfdes[c] # NoPipe /\ bytes[cfdes[c]] > 0
      <4>1. bytes[cfdes[c]] - 1 \in Nat
        BY <3>1, <3>2 DEF TypeOK, PipeType
      <4> QED
        BY <1>12, <3>2, <4>1 DEF ReadContinue, TypeOK, PipeType
    <3> QED
      BY <1>12, <3>2 DEF ReadContinue, TypeOK, PipeType
  <2>3. CloneType'
    BY <1>12 DEF ReadContinue, CGoto, parentVars, TypeOK, CallPart, CallInv,
       Calls, NoCall, ThreadType, PipeType, CloneType, NoPipe, Descriptors,
       Close
  <2>4. SystemType'
    BY <1>12 DEF ReadContinue, CGoto, parentVars, TypeOK, CallPart, CallInv,
       Calls, NoCall, ThreadType, CloneType, SystemType
  <2> QED
    BY <2>1, <2>2, <2>3, <2>4 DEF TypeOK
<1>13. ASSUME NEW c \in Calls, Attach(c)
      PROVE  TypeOK'
  <2>1. ThreadType'
    BY <1>13 DEF Attach, Exit, CGoto, parentVars, pipeVars, TypeOK, CallPart,
       CallInv, Calls, NoCall, ThreadType, Paths
  <2>2. PipeType'
    BY <1>13 DEF Attach, Exit, CGoto, parentVars, pipeVars, TypeOK, CallPart,
       CallInv, Calls, NoCall, ThreadType, PipeType, NoPipe, Descriptors,
       Close
  <2>3. CloneType'
    <3>1. CASE CGoto(c, "open") /\ UNCHANGED <<status, cfds>>
      BY <1>13, <3>1 DEF Attach, CGoto, TypeOK, CloneType
    <3>2. CASE Exit(c, "one")
      BY <1>13, <3>2, ExitType DEF Attach, TypeOK
    <3> QED
      BY <1>13, <3>1, <3>2 DEF Attach
  <2>4. SystemType'
    BY <1>13 DEF Attach, Exit, CGoto, parentVars, pipeVars, TypeOK, CallPart,
       CallInv, Calls, NoCall, ThreadType, CloneType, SystemType
  <2> QED
    BY <2>1, <2>2, <2>3, <2>4 DEF TypeOK
<1>14. ASSUME NEW c \in Calls, OpenFile(c)
      PROVE  TypeOK'
  <2>1. ThreadType'
    BY <1>14 DEF OpenFile, Opens, Exit, CGoto, parentVars, pipeVars, TypeOK,
       CallPart, CallInv, Calls, NoCall, ThreadType, Paths
  <2>2. PipeType'
    BY <1>14 DEF OpenFile, Opens, Exit, CGoto, parentVars, pipeVars, TypeOK,
       CallPart, CallInv, Calls, NoCall, ThreadType, PipeType, NoPipe,
       Descriptors, Close
  <2>3. CloneType'
    <3>1. CASE CGoto(c, "write") /\ UNCHANGED <<status, cfds>>
      BY <1>14, <3>1 DEF OpenFile, CGoto, TypeOK, CloneType
    <3>2. CASE Exit(c, "one")
      BY <1>14, <3>2, ExitType DEF OpenFile, TypeOK
    <3> QED
      BY <1>14, <3>1, <3>2 DEF OpenFile
  <2>4. SystemType'
    <3>1. tracer' \in Calls \cup {NoCall}
      BY <1>14 DEF OpenFile, Exit, TypeOK, SystemType
    <3>2. cpath[c] \in Paths
      BY DEF TypeOK, CloneType
    <3>3. [state |-> "partial", by |-> c]
            \in [state : {"none", "partial"} \cup Finished,
                 by : Calls \cup {NoCall}]
      BY DEF Finished
    <3>4. file' \in [Paths -> [state : {"none", "partial"} \cup Finished,
                               by : Calls \cup {NoCall}]]
      BY <1>14, <3>2, <3>3 DEF OpenFile, TypeOK, SystemType
    <3> QED
      BY <1>14, <3>1, <3>4 DEF OpenFile, TypeOK, SystemType
  <2> QED
    BY <2>1, <2>2, <2>3, <2>4 DEF TypeOK
<1>15. ASSUME NEW c \in Calls, WriteFile(c)
      PROVE  TypeOK'
  <2>1. ThreadType'
    BY <1>15 DEF WriteFile, Fault, Exit, CGoto, parentVars, pipeVars, TypeOK,
       CallPart, CallInv, Calls, NoCall, ThreadType, Paths
  <2>2. PipeType'
    BY <1>15 DEF WriteFile, Fault, Exit, CGoto, parentVars, pipeVars, TypeOK,
       CallPart, CallInv, Calls, NoCall, ThreadType, PipeType, NoPipe,
       Descriptors, Close
  <2>3. CloneType'
    BY <1>15, ExitType DEF WriteFile, TypeOK
  <2>4. SystemType'
    <3>1. tracer' \in Calls \cup {NoCall} /\ faults' \in 0..MaxFaults
      BY <1>15 DEF WriteFile, Exit, Fault, TypeOK, SystemType
    <3>2. file' \in [Paths -> [state : {"none", "partial"} \cup Finished,
                               by : Calls \cup {NoCall}]]
      BY <1>15 DEF WriteFile, TypeOK, SystemType, Finished
    <3> QED
      BY <1>15, <3>1, <3>2 DEF WriteFile, TypeOK, SystemType
  <2> QED
    BY <2>1, <2>2, <2>3, <2>4 DEF TypeOK
<1>16. ASSUME NEW c \in Calls, KillClone(c)
      PROVE  TypeOK'
  <2>1. ThreadType'
    BY <1>16 DEF KillClone, Fault, Exit, CGoto, parentVars, pipeVars, TypeOK,
       CallPart, CallInv, Calls, NoCall, ThreadType, Paths
  <2>2. PipeType'
    BY <1>16 DEF KillClone, Fault, Exit, CGoto, parentVars, pipeVars, TypeOK,
       CallPart, CallInv, Calls, NoCall, ThreadType, PipeType, NoPipe,
       Descriptors, Close
  <2>3. CloneType'
    BY <1>16, ExitType DEF KillClone, TypeOK
  <2>4. SystemType'
    BY <1>16 DEF KillClone, Fault, Exit, CGoto, parentVars, pipeVars, TypeOK,
       CallPart, CallInv, Calls, NoCall, ThreadType, CloneType, SystemType
  <2> QED
    BY <2>1, <2>2, <2>3, <2>4 DEF TypeOK
<1>17. ASSUME NEW h \in Handlers, NEW fresh \in BOOLEAN,
             Begin(h, fresh)
      PROVE  TypeOK'
  BY <1>17 DEF Begin, UpdatedPath, Goto, pipeVars, cloneVars, TypeOK,
     ThreadType, PipeType, CloneType, SystemType, CallInv, CallPart, Calls,
     NoPipe, NoCall, Descriptors, Paths, Close
<1>18. CASE KillParent
  BY <1>18 DEF KillParent, Die, parentVars, cloneVars, TypeOK, ThreadType,
     PipeType, CloneType, SystemType, CallInv, CallPart, Calls, NoPipe,
     NoCall, Descriptors, Paths, Close
<1> QED
  BY <1>1, <1>2, <1>3, <1>4, <1>5, <1>6, <1>7, <1>8, <1>9, <1>10, <1>11,
     <1>12, <1>13, <1>14, <1>15, <1>16, <1>17, <1>18 DEF Next, ThreadStep,
     CloneStep, Rest

-----------------------------------------------------------------------------
\* What a clone does not touch, and how far it may go in one step.
LEMMA CloneMoves ==
    ASSUME IndInv, NEW c \in Calls, CloneStep(c) \/ KillClone(c)
    PROVE  /\ UNCHANGED <<ncalls, overlap, parentVars, path, fdes, fds,
                          ptracer, cfdes, cpath>>
           /\ cpc[c] \notin {"none", "exited"}
           /\ \A d \in Calls : (d # c => cpc'[d] = cpc[d])
           /\ cpc'[c] # "none"
<1> USE DEF IndInv, TypeOK, CloneType
<1>1. CASE CloneStep(c)
  BY <1>1 DEF CloneStep, StartClone, ReadContinue, Attach, OpenFile,
     WriteFile, Exit, CGoto, parentVars, pipeVars
<1>2. CASE KillClone(c)
  BY <1>2 DEF KillClone, Exit, CGoto, parentVars, pipeVars
<1> QED
  BY <1>1, <1>2

\* A request that returns leaves the other requests as they are.
LEMMA RequestReturns ==
    ASSUME IndInv, NEW h \in Handlers, pc[h] # "idle", Goto(h, "idle"),
           NEW r \in {"ok", "failed"},
           outcome' = [outcome EXCEPT ![call[h]] = r],
           UNCHANGED <<ncalls, call, path, cpc, cpath>>
    PROVE  CallPart'
<1> USE DumpAssumption DEF IndInv, TypeOK, ThreadType, CallPart
<1> call[h] \in Calls
  BY RequestType
<1>1. CallInv'
  BY DEF CallInv, UniqueInv, Goto
<1>2. UniqueInv'
  BY DEF UniqueInv, Goto
<1>3. FreshInv'
  <2>1. \A c \in Calls : c > ncalls => c # call[h]
    BY DEF CallInv, Calls
  <2>2. \A c \in Calls : outcome[c] # "unused" => outcome'[c] # "unused"
    OBVIOUS
  <2> QED
    BY <2>1, <2>2 DEF FreshInv, Goto
<1>4. PathInv'
  BY DEF PathInv, Cloned, Goto
<1> QED
  BY <1>1, <1>2, <1>3, <1>4

\* Requests, clones and paths stay matched.
LEMMA CallStep == IndInv /\ [Next]_vars => CallPart'
<1> SUFFICES ASSUME IndInv, [Next]_vars PROVE CallPart'
  OBVIOUS
<1> USE DumpAssumption DEF IndInv
<1>1. CASE UNCHANGED vars
  BY <1>1 DEF vars, parentVars, cloneVars, CallPart, CallInv, UniqueInv,
     FreshInv, PathInv, Cloned
<1>2. ASSUME NEW h \in Handlers, MakePipe(h)
      PROVE  CallPart'
  <2>1. CASE ReturnFalse(h)
    BY <1>2, <2>1, RequestReturns DEF MakePipe, ReturnFalse, cloneVars
  <2>2. CASE Goto(h, "clone") /\ UNCHANGED outcome
    BY <1>2, <2>2 DEF MakePipe, Goto, cloneVars, TypeOK, ThreadType,
       CallPart, CallInv, UniqueInv, FreshInv, PathInv, Cloned
  <2> QED
    BY <1>2, <2>1, <2>2 DEF MakePipe
<1>3. ASSUME NEW h \in Handlers, CloneChild(h)
      PROVE  CallPart'
  <2>1. CASE ReturnFalse(h) /\ UNCHANGED cloneVars
    BY <1>3, <2>1, RequestReturns DEF CloneChild, ReturnFalse, cloneVars
  <2>2. CASE /\ Goto(h, "closeread") /\ UNCHANGED outcome
             /\ cpc' = [cpc EXCEPT ![call[h]] = "start"]
             /\ cpath' = [cpath EXCEPT ![call[h]] = path[h]]
    <3> /\ call[h] \in Calls /\ pc[h] = "clone" /\ outcome[call[h]] = "active"
        /\ UNCHANGED <<ncalls, call, path>>
      BY <1>3, RequestType DEF CloneChild, CallPart, CallInv
    <3> USE DEF TypeOK, ThreadType, CloneType, CallPart, Goto
    <3>1. CallInv' /\ UniqueInv'
      BY <2>2 DEF CallInv, UniqueInv
    <3>2. FreshInv'
      <4>1. ~(call[h] > ncalls)
        BY DEF CallInv
      <4>2. \A u \in Handlers : pc[u] \in {"pipe", "clone"} /\ u # h
                                    => call[u] # call[h]
        BY DEF UniqueInv
      <4> QED
        BY <2>2, <4>1, <4>2 DEF FreshInv
    <3>3. PathInv'
      <4>1. \A u \in Handlers : pc[u] \in Cloned => call[u] # call[h]
        BY DEF UniqueInv, Cloned
      <4> QED
        BY <2>2, <4>1 DEF PathInv, Cloned
    <3> QED
      BY <3>1, <3>2, <3>3
  <2> QED
    BY <1>3, <2>1, <2>2 DEF CloneChild
<1>4. ASSUME NEW h \in Handlers, CloseReadEnd(h)
      PROVE  CallPart'
  BY <1>4 DEF CloseReadEnd, Goto, cloneVars, TypeOK, ThreadType, CloneType,
     CallPart, CallInv, UniqueInv, FreshInv, PathInv, Cloned
<1>5. ASSUME NEW h \in Handlers, AllowPtrace(h)
      PROVE  CallPart'
  BY <1>5 DEF AllowPtrace, Allowed, Goto, pipeVars, cloneVars, TypeOK,
     ThreadType, CloneType, CallPart, CallInv, UniqueInv, FreshInv, PathInv,
     Cloned
<1>6. ASSUME NEW h \in Handlers, SendContinue(h)
      PROVE  CallPart'
  BY <1>6 DEF SendContinue, Sent, Die, Goto, cloneVars, TypeOK, ThreadType,
     CloneType, CallPart, CallInv, UniqueInv, FreshInv, PathInv, Cloned
<1>7. ASSUME NEW h \in Handlers, WaitChild(h)
      PROVE  CallPart'
  BY <1>7 DEF WaitChild, WaitReturns, WaitSucceeded, Goto, pipeVars, cloneVars,
     TypeOK, ThreadType, CloneType, CallPart, CallInv, UniqueInv, FreshInv,
     PathInv, Cloned
<1>8. ASSUME NEW h \in Handlers, WaitFails(h)
      PROVE  CallPart'
  BY <1>8 DEF WaitFails, WaitReturns, Fault, Goto, pipeVars, cloneVars, TypeOK,
     ThreadType, CloneType, CallPart, CallInv, UniqueInv, FreshInv, PathInv,
     Cloned
<1>9. ASSUME NEW h \in Handlers, CloseWriteEnd(h)
      PROVE  CallPart'
  BY <1>9 DEF CloseWriteEnd, Goto, cloneVars, TypeOK, ThreadType, CloneType,
     CallPart, CallInv, UniqueInv, FreshInv, PathInv, Cloned
<1>10. ASSUME NEW h \in Handlers, Callback(h)
      PROVE  CallPart'
  <2>1. (IF ok[h] THEN "ok" ELSE "failed") \in {"ok", "failed"}
    OBVIOUS
  <2> QED
    BY <1>10, <2>1, RequestReturns DEF Callback, cloneVars
<1>11. ASSUME NEW c \in Calls, CloneStep(c) \/ KillClone(c)
      PROVE  CallPart'
  <2>1. /\ UNCHANGED <<ncalls, parentVars, path, cpath>>
        /\ cpc[c] # "none" /\ cpc'[c] # "none"
        /\ \A d \in Calls : d # c => cpc'[d] = cpc[d]
    BY <1>11, CloneMoves
  <2>2. CallInv' /\ UniqueInv' /\ PathInv'
    BY <2>1 DEF parentVars, CallPart, CallInv, UniqueInv, PathInv
  <2>3. \A h \in Handlers : pc[h] \in {"pipe", "clone"} => call[h] # c
    BY <2>1 DEF CallPart, FreshInv
  <2>4. \A h \in Handlers : pc[h] # "idle" => call[h] \in Calls
    BY RequestType
  <2>5. FreshInv'
    BY <2>1, <2>3, <2>4 DEF parentVars, CallPart, FreshInv
  <2> QED
    BY <2>2, <2>5 DEF CallPart
<1>12. ASSUME NEW h \in Handlers, NEW fresh \in BOOLEAN, Begin(h, fresh)
      PROVE  CallPart'
  BY <1>12 DEF Begin, UpdatedPath, Goto, pipeVars, cloneVars, TypeOK,
     ThreadType, CloneType, CallPart, CallInv, UniqueInv, FreshInv, PathInv,
     Cloned, Calls
<1>13. CASE KillParent
  BY <1>13 DEF KillParent, Die, parentVars, cloneVars, CallPart, CallInv,
     UniqueInv, FreshInv, PathInv, Cloned
<1> QED
  BY <1>1, <1>2, <1>3, <1>4, <1>5, <1>6, <1>7, <1>8, <1>9, <1>10, <1>11,
     <1>12, <1>13 DEF Next, ThreadStep, CloneStep, Rest

-----------------------------------------------------------------------------
\* A clone that ends without success leaves files and results as they are.
LEMMA ExitKeepsFiles ==
    ASSUME IndInv, NEW c \in Calls, cpc[c] \notin {"none", "exited"},
           NEW s \in {"one", "signal"}, Exit(c, s),
           UNCHANGED <<file, cpath, parentVars>>
    PROVE  FilePart'
<1> USE DEF IndInv, TypeOK, CloneType, FilePart
<1>1. /\ \A d \in Calls : d # c => cpc'[d] = cpc[d] /\ status'[d] = status[d]
      /\ cpc'[c] = "exited" /\ status'[c] = s
      /\ \A d \in Calls : cpath'[d] = cpath[d]
  BY DEF Exit, CGoto
<1>2. FileInv'
  BY <1>1 DEF FileInv
<1>3. StatusInv'
  BY <1>1 DEF StatusInv
<1>4. OkInv'
  <2>1. \A h \in Handlers : pc[h] # "idle" => call[h] \in Calls
    BY RequestType
  <2>2. ASSUME NEW h \in Handlers, ok[h],
               pc[h] \in {"closewrite", "callback"}
        PROVE  call[h] # c
    <3>1. call[h] \in Calls /\ status[call[h]] = "zero"
      BY <2>1, <2>2 DEF OkInv
    <3>2. cpc[call[h]] = "exited"
      BY <3>1 DEF StatusInv
    <3> QED
      BY <3>2
  <2> QED
    BY <1>1, <2>1, <2>2 DEF OkInv, parentVars
<1> QED
  BY <1>2, <1>3, <1>4

\* Files, exit statuses and results stay matched.
LEMMA FileStep == IndInv /\ [Next]_vars => FilePart'
<1> SUFFICES ASSUME IndInv, [Next]_vars PROVE FilePart'
  OBVIOUS
<1> USE DumpAssumption DEF IndInv
<1>1. CASE UNCHANGED vars
  BY <1>1 DEF vars, parentVars, cloneVars, FilePart, FileInv, StatusInv, OkInv
<1>2. ASSUME NEW h \in Handlers, MakePipe(h)
      PROVE  FilePart'
  <2>1. FileInv' /\ StatusInv'
    BY <1>2 DEF MakePipe, cloneVars, FilePart, FileInv, StatusInv
  <2>2. OkInv'
    BY <1>2, RequestType DEF MakePipe, ReturnFalse, Goto, cloneVars, TypeOK,
       ThreadType, FilePart, OkInv
  <2> QED
    BY <2>1, <2>2 DEF FilePart
<1>3. ASSUME NEW h \in Handlers, CloneChild(h)
      PROVE  FilePart'
  <2> call[h] \in Calls /\ pc[h] = "clone"
    BY <1>3, RequestType DEF CloneChild
  <2>1. CASE ReturnFalse(h) /\ UNCHANGED cloneVars
    <3>1. FileInv' /\ StatusInv'
      BY <1>3, <2>1 DEF CloneChild, cloneVars, FilePart, FileInv, StatusInv
    <3>2. OkInv'
      BY <1>3, <2>1 DEF CloneChild, ReturnFalse, Goto, cloneVars, TypeOK,
         ThreadType, FilePart, OkInv
    <3> QED
      BY <3>1, <3>2 DEF FilePart
  <2>2. CASE /\ Goto(h, "closeread") /\ UNCHANGED <<outcome, status>>
             /\ cpc' = [cpc EXCEPT ![call[h]] = "start"]
             /\ cpath' = [cpath EXCEPT ![call[h]] = path[h]]
    <3>1. cpc[call[h]] = "none"
      BY DEF CallPart, FreshInv
    <3>2. UNCHANGED <<file, ok, call>>
      BY <1>3 DEF CloneChild
    <3>3. \A d \in Calls : d # call[h]
                              => cpc'[d] = cpc[d] /\ cpath'[d] = cpath[d]
      BY <2>2 DEF TypeOK, CloneType
    <3>4. cpc'[call[h]] = "start"
      BY <2>2 DEF TypeOK, CloneType
    <3>5. FileInv'
      <4>1. \A p \in Paths : file[p].by # call[h]
        BY <3>1 DEF FilePart, FileInv
      <4> QED
        BY <3>2, <3>3, <3>4, <4>1 DEF FilePart, FileInv
    <3>6. StatusInv'
      <4>1. status[call[h]] # "zero"
        BY <3>1 DEF FilePart, StatusInv
      <4> QED
        BY <2>2, <3>2, <3>3, <4>1 DEF FilePart, StatusInv
    <3>7. OkInv'
      <4>1. outcome[call[h]] # "ok"
        BY <3>1 DEF FilePart, OkInv
      <4> QED
        BY <2>2, <3>2, <3>3, <4>1 DEF Goto, TypeOK, ThreadType, FilePart,
           OkInv
    <3> QED
      BY <3>5, <3>6, <3>7 DEF FilePart
  <2> QED
    BY <1>3, <2>1, <2>2 DEF CloneChild
<1>4. ASSUME NEW h \in Handlers, CloseReadEnd(h)
      PROVE  FilePart'
  BY <1>4 DEF CloseReadEnd, Goto, cloneVars, TypeOK, ThreadType, FilePart,
     FileInv, StatusInv, OkInv
<1>5. ASSUME NEW h \in Handlers, AllowPtrace(h)
      PROVE  FilePart'
  BY <1>5 DEF AllowPtrace, Allowed, Goto, pipeVars, cloneVars, TypeOK,
     ThreadType, FilePart, FileInv, StatusInv, OkInv
<1>6. ASSUME NEW h \in Handlers, SendContinue(h)
      PROVE  FilePart'
  BY <1>6 DEF SendContinue, Sent, Die, Goto, cloneVars, TypeOK, ThreadType,
     FilePart, FileInv, StatusInv, OkInv
<1>7. ASSUME NEW h \in Handlers, WaitChild(h)
      PROVE  FilePart'
  <2>1. FileInv' /\ StatusInv'
    BY <1>7 DEF WaitChild, WaitReturns, cloneVars, FilePart, FileInv, StatusInv
  <2>2. OkInv'
    BY <1>7 DEF WaitChild, WaitReturns, WaitSucceeded, Goto, cloneVars,
       TypeOK, ThreadType, FilePart, OkInv
  <2> QED
    BY <2>1, <2>2 DEF FilePart
<1>8. ASSUME NEW h \in Handlers, WaitFails(h)
      PROVE  FilePart'
  BY <1>8 DEF WaitFails, WaitReturns, Fault, Goto, pipeVars, cloneVars, TypeOK,
     ThreadType, FilePart, FileInv, StatusInv, OkInv
<1>9. ASSUME NEW h \in Handlers, CloseWriteEnd(h)
      PROVE  FilePart'
  BY <1>9 DEF CloseWriteEnd, Goto, cloneVars, TypeOK, ThreadType, FilePart,
     FileInv, StatusInv, OkInv
<1>10. ASSUME NEW h \in Handlers, Callback(h)
      PROVE  FilePart'
  <2> call[h] \in Calls
    BY <1>10, RequestType DEF Callback
  <2>1. FileInv' /\ StatusInv'
    BY <1>10 DEF Callback, cloneVars, FilePart, FileInv, StatusInv
  <2>2. ok[h] => cpc[call[h]] = "exited"
    BY <1>10 DEF Callback, FilePart, OkInv, StatusInv
  <2>3. OkInv'
    BY <1>10, <2>2 DEF Callback, Goto, cloneVars, TypeOK, ThreadType, FilePart,
       OkInv
  <2> QED
    BY <2>1, <2>3 DEF FilePart
<1>11. ASSUME NEW c \in Calls, StartClone(c)
      PROVE  FilePart'
  BY <1>11 DEF StartClone, CloseInherited, CGoto, parentVars, pipeVars, TypeOK,
     CloneType, FilePart, FileInv, StatusInv, OkInv
<1>12. ASSUME NEW c \in Calls, ReadContinue(c)
      PROVE  FilePart'
  BY <1>12 DEF ReadContinue, CGoto, parentVars, TypeOK, CloneType, FilePart,
     FileInv, StatusInv, OkInv
<1>13. ASSUME NEW c \in Calls, Attach(c)
      PROVE  FilePart'
  <2>1. CASE CGoto(c, "open") /\ UNCHANGED <<status, cfds>>
    BY <1>13, <2>1 DEF Attach, CGoto, parentVars, TypeOK, CloneType, FilePart,
       FileInv, StatusInv, OkInv
  <2>2. CASE Exit(c, "one")
    BY <1>13, <2>2, ExitKeepsFiles DEF Attach
  <2> QED
    BY <1>13, <2>1, <2>2 DEF Attach
<1>14. ASSUME NEW c \in Calls, OpenFile(c)
      PROVE  FilePart'
  <2> DEFINE p == cpath[c]
             new == [state |-> "partial", by |-> c]
  <2>0. cpc[c] = "open" /\ UNCHANGED <<parentVars, cpath>> /\ p \in Paths
    BY <1>14 DEF OpenFile, TypeOK, CloneType
  <2>1. CASE /\ Opens(p) /\ file' = [file EXCEPT ![p] = new]
             /\ CGoto(c, "write") /\ UNCHANGED <<status, cfds>>
    <3>1. /\ \A q \in Paths : q # p => file'[q] = file[q]
          /\ file'[p] = new
          /\ \A d \in Calls : d # c => cpc'[d] = cpc[d]
          /\ cpc'[c] = "write"
      BY <2>0, <2>1 DEF CGoto, TypeOK, SystemType, CloneType
    <3>2. file[p].state = "none" /\ file[p].by = NoCall
      BY <2>0, <2>1 DEF Opens, FilePart, FileInv
    <3>3. \A q \in Paths : file[q].by # c
      BY <2>0 DEF FilePart, FileInv
    <3>4. \A d \in Calls : cpath[d] \in Paths /\ cpath'[d] = cpath[d]
      BY <2>0 DEF TypeOK, CloneType
    <3>5. c # NoCall /\ new.by = c /\ new.state = "partial"
      BY DEF Calls, NoCall
    <3> HIDE DEF new
    <3>6. FileInv'
      <4>1. \A q \in Paths : file'[q].by = NoCall <=> file'[q].state = "none"
        BY <3>1, <3>5 DEF FilePart, FileInv
      <4>2. ASSUME NEW q \in Paths, NEW d \in Calls, file'[q].by = d
            PROVE  cpath'[d] = q /\ cpc'[d] \in {"write", "exited"}
        <5>1. CASE q = p
          BY <2>0, <3>1, <3>5, <4>2, <5>1
        <5>2. CASE q # p
          BY <3>1, <3>3, <3>4, <4>2, <5>2 DEF FilePart, FileInv
        <5> QED
          BY <5>1, <5>2
      <4>3. ASSUME NEW d \in Calls, cpc'[d] = "write"
            PROVE  file'[cpath'[d]] = [state |-> "partial", by |-> d]
        <5>1. CASE d = c
          BY <2>0, <3>1, <5>1 DEF new
        <5>2. CASE d # c
          <6>1. file[cpath[d]] = [state |-> "partial", by |-> d]
            BY <3>1, <4>3, <5>2 DEF FilePart, FileInv
          <6>2. cpath[d] # p
            BY <3>2, <6>1
          <6> QED
            BY <3>1, <3>4, <6>1, <6>2
        <5> QED
          BY <5>1, <5>2
      <4> QED
        BY <4>1, <4>2, <4>3 DEF FileInv
    <3>7. StatusInv'
      <4>1. ASSUME NEW d \in Calls, status'[d] = "zero"
            PROVE  /\ cpc'[d] = "exited"
                   /\ file'[cpath'[d]].by = d
                   /\ file'[cpath'[d]].state \in Finished
        <5>1. /\ cpc[d] = "exited"
              /\ file[cpath[d]].by = d
              /\ file[cpath[d]].state \in Finished
          BY <2>1, <4>1 DEF FilePart, StatusInv
        <5>2. d # c /\ cpath[d] # p
          BY <2>0, <3>2, <5>1 DEF Finished
        <5> QED
          BY <3>1, <3>4, <5>1, <5>2
      <4> QED
        BY <4>1 DEF StatusInv
    <3>8. OkInv'
      BY <2>0, <2>1, <3>1 DEF parentVars, FilePart, OkInv
    <3> QED
      BY <3>6, <3>7, <3>8 DEF FilePart
  <2>2. CASE Exit(c, "one") /\ UNCHANGED file
    BY <2>0, <2>2, ExitKeepsFiles
  <2> QED
    BY <1>14, <2>1, <2>2 DEF OpenFile
<1>15. ASSUME NEW c \in Calls, WriteFile(c)
      PROVE  FilePart'
  <2> DEFINE p == cpath[c]
  <2>0. cpc[c] = "write" /\ UNCHANGED <<parentVars, cpath>> /\ p \in Paths
    BY <1>15 DEF WriteFile, TypeOK, CloneType
  <2>1. ASSUME NEW s \in Finished, Exit(c, "zero"),
               file' = [file EXCEPT ![p].state = s]
        PROVE  FilePart'
    <3>1. file[p] = [state |-> "partial", by |-> c]
      BY <2>0 DEF FilePart, FileInv
    <3>2. /\ \A q \in Paths : q # p => file'[q] = file[q]
          /\ file'[p] = [state |-> s, by |-> c]
      BY <2>0, <2>1, <3>1 DEF TypeOK, SystemType
    <3>3. /\ \A d \in Calls : d # c => /\ cpc'[d] = cpc[d]
                                       /\ status'[d] = status[d]
          /\ cpc'[c] = "exited" /\ status'[c] = "zero"
      BY <2>1 DEF Exit, CGoto, TypeOK, CloneType
    <3>4. \A d \in Calls : cpath[d] \in Paths /\ cpath'[d] = cpath[d]
      BY <2>0 DEF TypeOK, CloneType
    <3>5. c # NoCall
      BY DEF Calls, NoCall
    <3>6. FileInv'
      <4>1. \A q \in Paths : file'[q].by = NoCall <=> file'[q].state = "none"
        BY <2>1, <3>2, <3>5 DEF FilePart, FileInv, Finished
      <4>2. ASSUME NEW q \in Paths, NEW d \in Calls, file'[q].by = d
            PROVE  cpath'[d] = q /\ cpc'[d] \in {"write", "exited"}
        <5>1. CASE q = p
          BY <2>0, <3>2, <3>3, <4>2, <5>1
        <5>2. CASE q # p
          BY <3>2, <3>3, <3>4, <4>2, <5>2 DEF FilePart, FileInv
        <5> QED
          BY <5>1, <5>2
      <4>3. ASSUME NEW d \in Calls, cpc'[d] = "write"
            PROVE  file'[cpath'[d]] = [state |-> "partial", by |-> d]
        <5>1. d # c /\ file[cpath[d]] = [state |-> "partial", by |-> d]
          BY <3>3, <4>3 DEF FilePart, FileInv
        <5>2. cpath[d] # p
          BY <3>1, <5>1
        <5> QED
          BY <3>2, <3>4, <5>1, <5>2
      <4> QED
        BY <4>1, <4>2, <4>3 DEF FileInv
    <3>7. StatusInv'
      <4>1. ASSUME NEW d \in Calls, d # c, status'[d] = "zero"
            PROVE  /\ cpc'[d] = "exited"
                   /\ file'[cpath'[d]].by = d
                   /\ file'[cpath'[d]].state \in Finished
        <5>1. /\ cpc[d] = "exited"
              /\ file[cpath[d]].by = d
              /\ file[cpath[d]].state \in Finished
          BY <3>3, <4>1 DEF FilePart, StatusInv
        <5>2. cpath[d] # p
          BY <3>1, <4>1, <5>1 DEF Finished
        <5> QED
          BY <3>2, <3>3, <3>4, <4>1, <5>1, <5>2
      <4> QED
        BY <2>0, <2>1, <3>2, <3>3, <3>4, <4>1 DEF StatusInv
    <3>8. OkInv'
      <4>1. \A h \in Handlers : pc[h] # "idle" => call[h] \in Calls
        BY RequestType
      <4> QED
        BY <2>0, <3>3, <4>1 DEF parentVars, FilePart, OkInv
    <3> QED
      BY <3>6, <3>7, <3>8 DEF FilePart
  <2>2. CASE Exit(c, "one") /\ UNCHANGED file
    BY <2>0, <2>2, ExitKeepsFiles
  <2> QED
    BY <1>15, <2>1, <2>2 DEF WriteFile, Finished
<1>16. ASSUME NEW c \in Calls, KillClone(c)
      PROVE  FilePart'
  BY <1>16, ExitKeepsFiles DEF KillClone, parentVars
<1>17. ASSUME NEW h \in Handlers, NEW fresh \in BOOLEAN, Begin(h, fresh)
      PROVE  FilePart'
  BY <1>17 DEF Begin, UpdatedPath, Goto, pipeVars, cloneVars, TypeOK,
     ThreadType, Calls, FilePart, FileInv, StatusInv, OkInv
<1>18. CASE KillParent
  BY <1>18 DEF KillParent, Die, parentVars, cloneVars, FilePart, FileInv,
     StatusInv, OkInv
<1> QED
  BY <1>1, <1>2, <1>3, <1>4, <1>5, <1>6, <1>7, <1>8, <1>9, <1>10, <1>11,
     <1>12, <1>13, <1>14, <1>15, <1>16, <1>17, <1>18 DEF Next, ThreadStep,
     CloneStep, Rest

-----------------------------------------------------------------------------
\* A descriptor that a thread uses is one of the ends of its pipe.
LEMMA EndUsed ==
    ASSUME TypeOK, NEW h \in Handlers, NEW end \in fds, Uses(h, end)
    PROVE  /\ end[2] = "read" => end = ReadEnd(fdes[h])
           /\ end[2] # "read" => end = WriteEnd(fdes[h])
<1>1. end \in Calls \X {"read", "write"}
  BY DEF TypeOK, PipeType, Descriptors
<1>2. end = <<end[1], end[2]>> /\ end[2] \in {"read", "write"}
  BY <1>1
<1>3. end[1] = fdes[h]
  BY DEF Uses
<1> QED
  BY <1>2, <1>3 DEF ReadEnd, WriteEnd

\* Descriptors and requests stay matched.
LEMMA PipeStep == IndInv /\ [Next]_vars => PipePart'
<1> SUFFICES ASSUME IndInv, [Next]_vars PROVE PipePart'
  OBVIOUS
<1> USE DumpAssumption DEF IndInv
<1>1. CASE UNCHANGED vars
  BY <1>1 DEF vars, parentVars, pipeVars, cloneVars, PipePart, OwnPipeInv,
     OpenInv, Uses
<1>2. ASSUME NEW h \in Handlers, MakePipe(h)
      PROVE  PipePart'
  <2> pc[h] # "idle" /\ call[h] \in Calls
    BY <1>2, RequestType DEF MakePipe, ReturnFalse, Fault, Goto, cloneVars
  <2>1. OwnPipeInv'
    BY <1>2 DEF MakePipe, ReturnFalse, Fault, Goto, cloneVars, TypeOK,
       ThreadType, CloneType, PipeType, PipePart, OwnPipeInv,
       Cloned
  <2>2. ASSUME NEW u \in Handlers, NEW end, u # h, Uses(u, end)
        PROVE  Uses(u, end)'
    BY <1>2, <2>2 DEF MakePipe, ReturnFalse, Fault, Goto, cloneVars, TypeOK,
       ThreadType, PipeType, Uses
  <2>3. ASSUME NEW u \in Handlers, NEW end, Uses(u, end)
        PROVE  u # h
    BY <1>2, <2>3 DEF MakePipe, Uses
  <2>4. ASSUME fds' = fds PROVE OpenInv'
    BY <2>2, <2>3, <2>4 DEF PipePart, OpenInv
  <2>5. ASSUME fds' = fds \cup {ReadEnd(call[h]), WriteEnd(call[h])},
               fdes' = [fdes EXCEPT ![h] = call[h]], Goto(h, "clone")
        PROVE  OpenInv'
    <3>1. fdes'[h] = call[h] /\ pc'[h] = "clone" /\ call' = call
      BY <1>2, <2>5 DEF MakePipe, Goto, TypeOK, ThreadType, PipeType
    <3>2. Uses(h, ReadEnd(call[h]))' /\ Uses(h, WriteEnd(call[h]))'
      BY <3>1 DEF Uses, ReadEnd, WriteEnd
    <3> QED
      BY <2>2, <2>3, <2>5, <3>1, <3>2 DEF PipePart, OpenInv
  <2>6. OpenInv'
    BY <1>2, <2>4, <2>5 DEF MakePipe
  <2> QED
    BY <2>1, <2>6 DEF PipePart
<1>3. ASSUME NEW h \in Handlers, CloneChild(h)
      PROVE  PipePart'
  <2> pc[h] # "idle" /\ call[h] \in Calls
    BY <1>3, RequestType DEF CloneChild, DropPipe, ReturnFalse, Fault, Goto,
       cloneVars
  <2>1. OwnPipeInv'
    BY <1>3 DEF CloneChild, DropPipe, ReturnFalse, Fault, Goto, cloneVars,
       TypeOK, ThreadType, CloneType, PipeType, PipePart, OwnPipeInv,
       Cloned
  <2>2. ASSUME NEW u \in Handlers, NEW end, u # h, Uses(u, end)
        PROVE  Uses(u, end)'
    BY <1>3, <2>2 DEF CloneChild, DropPipe, ReturnFalse, Fault, Goto,
       cloneVars, TypeOK, ThreadType, PipeType, Uses
  <2>3. OpenInv'
    <3>1. ASSUME NEW end \in fds'
          PROVE  \E u \in Handlers : Uses(u, end)'
      <4>1. PICK u \in Handlers : end \in fds /\ Uses(u, end)
        <5>1. end \in fds
          BY <1>3, <3>1 DEF CloneChild, DropPipe, Close
        <5> QED
          BY <5>1 DEF PipePart, OpenInv
      <4>2. CASE u # h
        BY <2>2, <4>1, <4>2
      <4>3. CASE u = h
        <5>1. CASE DropPipe(h)
          <6>1. end # ReadEnd(fdes[h]) /\ end # WriteEnd(fdes[h])
            BY <3>1, <5>1 DEF DropPipe, Close
          <6> QED
            BY <4>1, <4>3, <6>1, EndUsed
        <5>2. CASE Goto(h, "closeread")
          BY <1>3, <4>1, <4>3, <5>2 DEF CloneChild, Goto, Uses, TypeOK,
             ThreadType
        <5> QED
          BY <1>3, <5>1, <5>2 DEF CloneChild
      <4> QED
        BY <4>2, <4>3
    <3> QED
      BY <3>1 DEF OpenInv
  <2> QED
    BY <2>1, <2>3 DEF PipePart
<1>4. ASSUME NEW h \in Handlers, CloseReadEnd(h)
      PROVE  PipePart'
  <2> pc[h] # "idle" /\ call[h] \in Calls
    BY <1>4, RequestType DEF CloseReadEnd, Goto, cloneVars
  <2>1. OwnPipeInv'
    BY <1>4 DEF CloseReadEnd, Goto, cloneVars, TypeOK, ThreadType, CloneType,
       PipeType, PipePart, OwnPipeInv,
       Cloned
  <2>2. ASSUME NEW u \in Handlers, NEW end, u # h, Uses(u, end)
        PROVE  Uses(u, end)'
    BY <1>4, <2>2 DEF CloseReadEnd, Goto, cloneVars, TypeOK, ThreadType,
       PipeType, Uses
  <2>3. OpenInv'
    <3>1. ASSUME NEW end \in fds'
          PROVE  \E u \in Handlers : Uses(u, end)'
      <4>1. PICK u \in Handlers : end \in fds /\ Uses(u, end)
        BY <1>4, <3>1 DEF CloseReadEnd, PipePart, OpenInv, Close
      <4>2. CASE u # h
        BY <2>2, <4>1, <4>2
      <4>3. CASE u = h
        <5>1. end # ReadEnd(fdes[h])
          BY <1>4, <3>1 DEF CloseReadEnd, Close
        <5>2. end[2] # "read"
          BY <4>1, <4>3, <5>1, EndUsed
        <5> QED
          BY <1>4, <4>1, <4>3, <5>2 DEF CloseReadEnd, Goto, Uses, TypeOK,
             ThreadType
      <4> QED
        BY <4>2, <4>3
    <3> QED
      BY <3>1 DEF OpenInv
  <2> QED
    BY <2>1, <2>3 DEF PipePart
<1>5. ASSUME NEW h \in Handlers, AllowPtrace(h)
      PROVE  PipePart'
  <2> pc[h] # "idle" /\ call[h] \in Calls
    BY <1>5, RequestType DEF AllowPtrace, Allowed, Goto, pipeVars, cloneVars
  <2>1. OwnPipeInv'
    BY <1>5 DEF AllowPtrace, Allowed, Goto, pipeVars, cloneVars, TypeOK,
       ThreadType, CloneType, PipeType, PipePart, OwnPipeInv,
       Cloned
  <2>2. ASSUME NEW u \in Handlers, NEW end, u # h, Uses(u, end)
        PROVE  Uses(u, end)'
    BY <1>5, <2>2 DEF AllowPtrace, Allowed, Goto, pipeVars, cloneVars, TypeOK,
       ThreadType, PipeType, Uses
  <2>3. OpenInv'
    <3>1. ASSUME NEW end \in fds'
          PROVE  \E u \in Handlers : Uses(u, end)'
      <4>1. PICK u \in Handlers : end \in fds /\ Uses(u, end)
        BY <1>5, <3>1 DEF AllowPtrace, pipeVars, PipePart, OpenInv, Close
      <4>2. CASE u # h
        BY <2>2, <4>1, <4>2
      <4>3. CASE u = h
        BY <1>5, <4>1, <4>3 DEF AllowPtrace, Allowed, Goto, pipeVars,
           cloneVars, Uses, TypeOK, ThreadType
      <4> QED
        BY <4>2, <4>3
    <3> QED
      BY <3>1 DEF OpenInv
  <2> QED
    BY <2>1, <2>3 DEF PipePart
<1>6. ASSUME NEW h \in Handlers, SendContinue(h)
      PROVE  PipePart'
  <2> pc[h] # "idle" /\ call[h] \in Calls
    BY <1>6, RequestType DEF SendContinue, Sent, Die, Goto, cloneVars
  <2>1. OwnPipeInv'
    BY <1>6 DEF SendContinue, Sent, Die, Goto, cloneVars, TypeOK, ThreadType,
       CloneType, PipeType, PipePart, OwnPipeInv,
       Cloned
  <2>2. ASSUME NEW u \in Handlers, NEW end, u # h, Uses(u, end)
        PROVE  Uses(u, end)'
    BY <1>6, <2>2 DEF SendContinue, Sent, Die, Goto, cloneVars, TypeOK,
       ThreadType, PipeType, Uses
  <2>3. OpenInv'
    <3>1. ASSUME NEW end \in fds'
          PROVE  \E u \in Handlers : Uses(u, end)'
      <4>1. PICK u \in Handlers : end \in fds /\ Uses(u, end)
        BY <1>6, <3>1 DEF SendContinue, Die, PipePart, OpenInv, Close
      <4>2. CASE u # h
        BY <2>2, <4>1, <4>2
      <4>3. CASE u = h
        BY <1>6, <4>1, <4>3 DEF SendContinue, Sent, Die, Goto, cloneVars, Uses,
           TypeOK, ThreadType
      <4> QED
        BY <4>2, <4>3
    <3> QED
      BY <3>1 DEF OpenInv
  <2> QED
    BY <2>1, <2>3 DEF PipePart
<1>7. ASSUME NEW h \in Handlers, WaitChild(h)
      PROVE  PipePart'
  <2> pc[h] # "idle" /\ call[h] \in Calls
    BY <1>7, RequestType DEF WaitChild, WaitReturns, WaitSucceeded, Goto,
       pipeVars, cloneVars
  <2>1. OwnPipeInv'
    BY <1>7 DEF WaitChild, WaitReturns, WaitSucceeded, Goto, pipeVars,
       cloneVars, TypeOK, ThreadType, CloneType, PipeType, PipePart,
       OwnPipeInv,
       Cloned
  <2>2. ASSUME NEW u \in Handlers, NEW end, u # h, Uses(u, end)
        PROVE  Uses(u, end)'
    BY <1>7, <2>2 DEF WaitChild, WaitReturns, WaitSucceeded, Goto, pipeVars,
       cloneVars, TypeOK, ThreadType, PipeType, Uses
  <2>3. OpenInv'
    <3>1. ASSUME NEW end \in fds'
          PROVE  \E u \in Handlers : Uses(u, end)'
      <4>1. PICK u \in Handlers : end \in fds /\ Uses(u, end)
        BY <1>7, <3>1 DEF WaitChild, WaitReturns, pipeVars, PipePart, OpenInv,
           Close
      <4>2. CASE u # h
        BY <2>2, <4>1, <4>2
      <4>3. CASE u = h
        BY <1>7, <4>1, <4>3 DEF WaitChild, WaitReturns, WaitSucceeded, Goto,
           pipeVars, cloneVars, Uses, TypeOK, ThreadType
      <4> QED
        BY <4>2, <4>3
    <3> QED
      BY <3>1 DEF OpenInv
  <2> QED
    BY <2>1, <2>3 DEF PipePart
<1>8. ASSUME NEW h \in Handlers, WaitFails(h)
      PROVE  PipePart'
  <2> pc[h] # "idle" /\ call[h] \in Calls
    BY <1>8, RequestType DEF WaitFails, WaitReturns, Fault, Goto, pipeVars,
       cloneVars
  <2>1. OwnPipeInv'
    BY <1>8 DEF WaitFails, WaitReturns, Fault, Goto, pipeVars, cloneVars,
       TypeOK, ThreadType, CloneType, PipeType, PipePart, OwnPipeInv,
       Cloned
  <2>2. ASSUME NEW u \in Handlers, NEW end, u # h, Uses(u, end)
        PROVE  Uses(u, end)'
    BY <1>8, <2>2 DEF WaitFails, WaitReturns, Fault, Goto, pipeVars, cloneVars,
       TypeOK, ThreadType, PipeType, Uses
  <2>3. OpenInv'
    <3>1. ASSUME NEW end \in fds'
          PROVE  \E u \in Handlers : Uses(u, end)'
      <4>1. PICK u \in Handlers : end \in fds /\ Uses(u, end)
        BY <1>8, <3>1 DEF WaitFails, WaitReturns, pipeVars, PipePart, OpenInv,
           Close
      <4>2. CASE u # h
        BY <2>2, <4>1, <4>2
      <4>3. CASE u = h
        BY <1>8, <4>1, <4>3 DEF WaitFails, WaitReturns, Fault, Goto, pipeVars,
           cloneVars, Uses, TypeOK, ThreadType
      <4> QED
        BY <4>2, <4>3
    <3> QED
      BY <3>1 DEF OpenInv
  <2> QED
    BY <2>1, <2>3 DEF PipePart
<1>9. ASSUME NEW h \in Handlers, CloseWriteEnd(h)
      PROVE  PipePart'
  <2> pc[h] # "idle" /\ call[h] \in Calls
    BY <1>9, RequestType DEF CloseWriteEnd, Goto, cloneVars
  <2>1. OwnPipeInv'
    BY <1>9 DEF CloseWriteEnd, Goto, cloneVars, TypeOK, ThreadType, CloneType,
       PipeType, PipePart, OwnPipeInv,
       Cloned
  <2>2. ASSUME NEW u \in Handlers, NEW end, u # h, Uses(u, end)
        PROVE  Uses(u, end)'
    BY <1>9, <2>2 DEF CloseWriteEnd, Goto, cloneVars, TypeOK, ThreadType,
       PipeType, Uses
  <2>3. OpenInv'
    <3>1. ASSUME NEW end \in fds'
          PROVE  \E u \in Handlers : Uses(u, end)'
      <4>1. PICK u \in Handlers : end \in fds /\ Uses(u, end)
        BY <1>9, <3>1 DEF CloseWriteEnd, PipePart, OpenInv, Close
      <4>2. CASE u # h
        BY <2>2, <4>1, <4>2
      <4>3. CASE u = h
        <5>1. end # WriteEnd(fdes[h])
          BY <1>9, <3>1 DEF CloseWriteEnd, Close
        <5>2. end[2] = "read"
          BY <4>1, <4>3, <5>1, EndUsed
        <5> QED
          BY <1>9, <4>1, <4>3, <5>2 DEF CloseWriteEnd, Uses
      <4> QED
        BY <4>2, <4>3
    <3> QED
      BY <3>1 DEF OpenInv
  <2> QED
    BY <2>1, <2>3 DEF PipePart
<1>10. ASSUME NEW h \in Handlers, Callback(h)
      PROVE  PipePart'
  <2> pc[h] # "idle" /\ call[h] \in Calls
    BY <1>10, RequestType DEF Callback, Goto, pipeVars, cloneVars
  <2>1. OwnPipeInv'
    BY <1>10 DEF Callback, Goto, pipeVars, cloneVars, TypeOK, ThreadType,
       CloneType, PipeType, PipePart, OwnPipeInv,
       Cloned
  <2>2. ASSUME NEW u \in Handlers, NEW end, u # h, Uses(u, end)
        PROVE  Uses(u, end)'
    BY <1>10, <2>2 DEF Callback, Goto, pipeVars, cloneVars, TypeOK, ThreadType,
       PipeType, Uses
  <2>3. OpenInv'
    <3>1. ASSUME NEW end \in fds'
          PROVE  \E u \in Handlers : Uses(u, end)'
      <4>1. PICK u \in Handlers : end \in fds /\ Uses(u, end)
        BY <1>10, <3>1 DEF Callback, pipeVars, PipePart, OpenInv, Close
      <4>2. CASE u # h
        BY <2>2, <4>1, <4>2
      <4>3. CASE u = h
        BY <1>10, <4>1, <4>3 DEF Callback, Goto, pipeVars, cloneVars, Uses,
           TypeOK, ThreadType
      <4> QED
        BY <4>2, <4>3
    <3> QED
      BY <3>1 DEF OpenInv
  <2> QED
    BY <2>1, <2>3 DEF PipePart
<1>11. ASSUME NEW c \in Calls, CloneStep(c) \/ KillClone(c)
      PROVE  PipePart'
  <2>1. UNCHANGED <<pc, call, fdes, fds, cfdes>> /\ cpc[c] # "none"
    BY <1>11, CloneMoves DEF parentVars
  <2>2. \A d \in Calls : cpc'[d] # "none" => cpc[d] # "none"
    BY <1>11, <2>1, CloneMoves
  <2>3. OwnPipeInv'
    BY <2>1, <2>2 DEF PipePart, OwnPipeInv
  <2>4. OpenInv'
    BY <2>1 DEF PipePart, OpenInv, Uses
  <2> QED
    BY <2>3, <2>4 DEF PipePart
<1>12. ASSUME NEW h \in Handlers, NEW fresh \in BOOLEAN, Begin(h, fresh)
      PROVE  PipePart'
  <2>1. OwnPipeInv'
    BY <1>12 DEF Begin, Goto, pipeVars, cloneVars, TypeOK, ThreadType,
       PipePart, OwnPipeInv, Cloned
  <2>2. ASSUME NEW u \in Handlers, NEW end, Uses(u, end)
        PROVE  Uses(u, end)'
    <3>1. u # h
      BY <1>12, <2>2 DEF Begin, Uses
    <3> QED
      BY <1>12, <2>2, <3>1 DEF Begin, Goto, pipeVars, TypeOK, ThreadType, Uses
  <2>3. fds' = fds
    BY <1>12 DEF Begin, pipeVars
  <2>4. OpenInv'
    BY <2>2, <2>3 DEF PipePart, OpenInv
  <2> QED
    BY <2>1, <2>4 DEF PipePart
<1>13. CASE KillParent
  BY <1>13 DEF KillParent, Die, parentVars, cloneVars, PipePart, OwnPipeInv,
     OpenInv, Uses
<1> QED
  BY <1>1, <1>2, <1>3, <1>4, <1>5, <1>6, <1>7, <1>8, <1>9, <1>10, <1>11,
     <1>12, <1>13 DEF Next, ThreadStep, CloneStep, Rest

-----------------------------------------------------------------------------
\* Bytes, requests and the permission stay matched.
LEMMA PermitStep == IndInv /\ [Next]_vars => PermitPart'
<1> SUFFICES ASSUME IndInv, [Next]_vars PROVE PermitPart'
  OBVIOUS
<1> USE DumpAssumption DEF IndInv
<1>1. CASE UNCHANGED vars
  BY <1>1 DEF vars, parentVars, pipeVars, cloneVars, PermitPart, ByteInv,
     PermitInv, Told
<1>2. ASSUME NEW h \in Handlers, MakePipe(h)
      PROVE  PermitPart'
  <2> pc[h] # "idle" /\ call[h] \in Calls
    BY <1>2, RequestType DEF MakePipe, ReturnFalse, Fault, Goto, cloneVars
  <2>1. ByteInv'
    <3>1. ASSUME NEW u \in Handlers, NEW d \in Calls, Told(u, d),
                 outcome'[d] = "active"
          PROVE  Told(u, d)'
      BY <1>2, <3>1 DEF MakePipe, ReturnFalse, Fault, Goto, cloneVars, TypeOK,
         ThreadType, Told
    <3>2. \A d \in Calls : outcome'[d] = "active" => outcome[d] = "active"
      BY <1>2 DEF MakePipe, ReturnFalse, Fault, Goto, cloneVars, TypeOK,
         ThreadType
    <3>3. /\ UNCHANGED <<bytes, told, ncalls>>
          /\ \A d \in Calls : cpc'[d] = "none" => cpc[d] = "none"
      BY <1>2 DEF MakePipe, ReturnFalse, Fault, Goto, cloneVars, TypeOK,
         CloneType
    <3> QED
      BY <3>1, <3>2, <3>3 DEF PermitPart, ByteInv
  <2>2. PermitInv'
    BY <1>2 DEF MakePipe, ReturnFalse, Fault, Goto, cloneVars, TypeOK,
       ThreadType, PermitPart, PermitInv
  <2> QED
    BY <2>1, <2>2 DEF PermitPart
<1>3. ASSUME NEW h \in Handlers, CloneChild(h)
      PROVE  PermitPart'
  <2> pc[h] # "idle" /\ call[h] \in Calls
    BY <1>3, RequestType DEF CloneChild, DropPipe, ReturnFalse, Fault, Goto,
       cloneVars
  <2>1. ByteInv'
    <3>1. ASSUME NEW u \in Handlers, NEW d \in Calls, Told(u, d),
                 outcome'[d] = "active"
          PROVE  Told(u, d)'
      BY <1>3, <3>1 DEF CloneChild, DropPipe, ReturnFalse, Fault, Goto,
         cloneVars, TypeOK, ThreadType, Told
    <3>2. \A d \in Calls : outcome'[d] = "active" => outcome[d] = "active"
      BY <1>3 DEF CloneChild, DropPipe, ReturnFalse, Fault, Goto, cloneVars,
         TypeOK, ThreadType
    <3>3. /\ UNCHANGED <<bytes, told, ncalls>>
          /\ \A d \in Calls : cpc'[d] = "none" => cpc[d] = "none"
      BY <1>3 DEF CloneChild, DropPipe, ReturnFalse, Fault, Goto, cloneVars,
         TypeOK, CloneType
    <3> QED
      BY <3>1, <3>2, <3>3 DEF PermitPart, ByteInv
  <2>2. PermitInv'
    BY <1>3 DEF CloneChild, DropPipe, ReturnFalse, Fault, Goto, cloneVars,
       TypeOK, ThreadType, PermitPart, PermitInv
  <2> QED
    BY <2>1, <2>2 DEF PermitPart
<1>4. ASSUME NEW h \in Handlers, CloseReadEnd(h)
      PROVE  PermitPart'
  <2> pc[h] # "idle" /\ call[h] \in Calls
    BY <1>4, RequestType DEF CloseReadEnd, Goto, cloneVars
  <2>1. ByteInv'
    <3>1. ASSUME NEW u \in Handlers, NEW d \in Calls, Told(u, d),
                 outcome'[d] = "active"
          PROVE  Told(u, d)'
      BY <1>4, <3>1 DEF CloseReadEnd, Goto, cloneVars, TypeOK, ThreadType, Told
    <3>2. \A d \in Calls : outcome'[d] = "active" => outcome[d] = "active"
      BY <1>4 DEF CloseReadEnd, Goto, cloneVars, TypeOK, ThreadType
    <3>3. /\ UNCHANGED <<bytes, told, ncalls>>
          /\ \A d \in Calls : cpc'[d] = "none" => cpc[d] = "none"
      BY <1>4 DEF CloseReadEnd, Goto, cloneVars, TypeOK, CloneType
    <3> QED
      BY <3>1, <3>2, <3>3 DEF PermitPart, ByteInv
  <2>2. PermitInv'
    BY <1>4 DEF CloseReadEnd, Goto, cloneVars, TypeOK, ThreadType, PermitPart,
       PermitInv
  <2> QED
    BY <2>1, <2>2 DEF PermitPart
<1>5. ASSUME NEW h \in Handlers, AllowPtrace(h)
      PROVE  PermitPart'
  <2> pc[h] # "idle" /\ call[h] \in Calls
    BY <1>5, RequestType DEF AllowPtrace, Allowed, Goto, pipeVars, cloneVars
  <2>1. ByteInv'
    <3>1. ASSUME NEW u \in Handlers, NEW d \in Calls, Told(u, d),
                 outcome'[d] = "active"
          PROVE  Told(u, d)'
      BY <1>5, <3>1 DEF AllowPtrace, Allowed, Goto, pipeVars, cloneVars,
         TypeOK, ThreadType, Told
    <3>2. \A d \in Calls : outcome'[d] = "active" => outcome[d] = "active"
      BY <1>5 DEF AllowPtrace, Allowed, Goto, pipeVars, cloneVars, TypeOK,
         ThreadType
    <3>3. /\ UNCHANGED <<bytes, told, ncalls>>
          /\ \A d \in Calls : cpc'[d] = "none" => cpc[d] = "none"
      BY <1>5 DEF AllowPtrace, Allowed, Goto, pipeVars, cloneVars, TypeOK,
         CloneType
    <3> QED
      BY <3>1, <3>2, <3>3 DEF PermitPart, ByteInv
  <2>2. PermitInv'
    BY <1>5 DEF AllowPtrace, Allowed, Goto, pipeVars, cloneVars, TypeOK,
       ThreadType, PermitPart, PermitInv
  <2> QED
    BY <2>1, <2>2 DEF PermitPart
<1>6. ASSUME NEW h \in Handlers, SendContinue(h)
      PROVE  PermitPart'
  <2> pc[h] = "send" /\ call[h] \in Calls /\ UNCHANGED <<call, ncalls>>
    BY <1>6, RequestType DEF SendContinue
  <2>1. ASSUME bytes' = Sent(fdes[h]), WriteEnd(fdes[h]) \in fds,
               Goto(h, "wait")
        PROVE  ByteInv'
    <3>1. fdes[h] = call[h]
      <4>1. fdes[h] \in Calls
        BY <2>1 DEF TypeOK, PipeType, WriteEnd, Descriptors
      <4> QED
        BY <4>1 DEF Calls, NoPipe, PipePart, OwnPipeInv, Cloned
    <3>2. Told(h, call[h])' /\ ~(call[h] > ncalls)
      BY <2>1 DEF Told, Goto, TypeOK, ThreadType, CallPart, CallInv
    <3>3. \A d \in Calls : d # call[h] => bytes'[d] = bytes[d]
      BY <2>1, <3>1 DEF Sent, TypeOK, PipeType
    <3>4. UNCHANGED <<outcome, told, cpc>>
      BY <1>6 DEF SendContinue, cloneVars
    <3>5. ASSUME NEW u \in Handlers, NEW d \in Calls, Told(u, d)
          PROVE  Told(u, d)'
      BY <2>1, <3>5 DEF Told, Goto, TypeOK, ThreadType
    <3> QED
      BY <3>2, <3>3, <3>4, <3>5 DEF PermitPart, ByteInv
  <2>2. ASSUME UNCHANGED bytes PROVE ByteInv'
    <3>1. UNCHANGED <<outcome, told, cpc>>
      BY <1>6 DEF SendContinue, cloneVars
    <3>2. ASSUME NEW u \in Handlers, NEW d \in Calls, Told(u, d)
          PROVE  Told(u, d)'
      BY <1>6, <3>2 DEF SendContinue, Told, Goto, TypeOK, ThreadType
    <3> QED
      BY <2>2, <3>1, <3>2 DEF PermitPart, ByteInv
  <2>3. PermitInv'
    BY <1>6 DEF SendContinue, Die, Goto, TypeOK, ThreadType, PermitPart,
       PermitInv
  <2> QED
    BY <1>6, <2>1, <2>2, <2>3 DEF SendContinue, PermitPart
<1>7. ASSUME NEW h \in Handlers, WaitChild(h)
      PROVE  PermitPart'
  <2> pc[h] # "idle" /\ call[h] \in Calls
    BY <1>7, RequestType DEF WaitChild, WaitReturns, WaitSucceeded, Goto,
       pipeVars, cloneVars
  <2>1. ByteInv'
    <3>1. ASSUME NEW u \in Handlers, NEW d \in Calls, Told(u, d),
                 outcome'[d] = "active"
          PROVE  Told(u, d)'
      BY <1>7, <3>1 DEF WaitChild, WaitReturns, WaitSucceeded, Goto, pipeVars,
         cloneVars, TypeOK, ThreadType, Told
    <3>2. \A d \in Calls : outcome'[d] = "active" => outcome[d] = "active"
      BY <1>7 DEF WaitChild, WaitReturns, WaitSucceeded, Goto, pipeVars,
         cloneVars, TypeOK, ThreadType
    <3>3. /\ UNCHANGED <<bytes, told, ncalls>>
          /\ \A d \in Calls : cpc'[d] = "none" => cpc[d] = "none"
      BY <1>7 DEF WaitChild, WaitReturns, WaitSucceeded, Goto, pipeVars,
         cloneVars, TypeOK, CloneType
    <3> QED
      BY <3>1, <3>2, <3>3 DEF PermitPart, ByteInv
  <2>2. PermitInv'
    BY <1>7 DEF WaitChild, WaitReturns, WaitSucceeded, Goto, pipeVars,
       cloneVars, TypeOK, ThreadType, PermitPart, PermitInv
  <2> QED
    BY <2>1, <2>2 DEF PermitPart
<1>8. ASSUME NEW h \in Handlers, WaitFails(h)
      PROVE  PermitPart'
  <2> pc[h] # "idle" /\ call[h] \in Calls
    BY <1>8, RequestType DEF WaitFails, WaitReturns, Fault, Goto, pipeVars,
       cloneVars
  <2>1. ByteInv'
    <3>1. ASSUME NEW u \in Handlers, NEW d \in Calls, Told(u, d),
                 outcome'[d] = "active"
          PROVE  Told(u, d)'
      BY <1>8, <3>1 DEF WaitFails, WaitReturns, Fault, Goto, pipeVars,
         cloneVars, TypeOK, ThreadType, Told
    <3>2. \A d \in Calls : outcome'[d] = "active" => outcome[d] = "active"
      BY <1>8 DEF WaitFails, WaitReturns, Fault, Goto, pipeVars, cloneVars,
         TypeOK, ThreadType
    <3>3. /\ UNCHANGED <<bytes, told, ncalls>>
          /\ \A d \in Calls : cpc'[d] = "none" => cpc[d] = "none"
      BY <1>8 DEF WaitFails, WaitReturns, Fault, Goto, pipeVars, cloneVars,
         TypeOK, CloneType
    <3> QED
      BY <3>1, <3>2, <3>3 DEF PermitPart, ByteInv
  <2>2. PermitInv'
    BY <1>8 DEF WaitFails, WaitReturns, Fault, Goto, pipeVars, cloneVars,
       TypeOK, ThreadType, PermitPart, PermitInv
  <2> QED
    BY <2>1, <2>2 DEF PermitPart
<1>9. ASSUME NEW h \in Handlers, CloseWriteEnd(h)
      PROVE  PermitPart'
  <2> pc[h] # "idle" /\ call[h] \in Calls
    BY <1>9, RequestType DEF CloseWriteEnd, Goto, cloneVars
  <2>1. ByteInv'
    <3>1. ASSUME NEW u \in Handlers, NEW d \in Calls, Told(u, d),
                 outcome'[d] = "active"
          PROVE  Told(u, d)'
      BY <1>9, <3>1 DEF CloseWriteEnd, Goto, cloneVars, TypeOK, ThreadType,
         Told
    <3>2. \A d \in Calls : outcome'[d] = "active" => outcome[d] = "active"
      BY <1>9 DEF CloseWriteEnd, Goto, cloneVars, TypeOK, ThreadType
    <3>3. /\ UNCHANGED <<bytes, told, ncalls>>
          /\ \A d \in Calls : cpc'[d] = "none" => cpc[d] = "none"
      BY <1>9 DEF CloseWriteEnd, Goto, cloneVars, TypeOK, CloneType
    <3> QED
      BY <3>1, <3>2, <3>3 DEF PermitPart, ByteInv
  <2>2. PermitInv'
    BY <1>9 DEF CloseWriteEnd, Goto, cloneVars, TypeOK, ThreadType, PermitPart,
       PermitInv
  <2> QED
    BY <2>1, <2>2 DEF PermitPart
<1>10. ASSUME NEW h \in Handlers, Callback(h)
      PROVE  PermitPart'
  <2> pc[h] # "idle" /\ call[h] \in Calls
    BY <1>10, RequestType DEF Callback, Goto, pipeVars, cloneVars
  <2>1. ByteInv'
    <3>1. ASSUME NEW u \in Handlers, NEW d \in Calls, Told(u, d),
                 outcome'[d] = "active"
          PROVE  Told(u, d)'
      BY <1>10, <3>1 DEF Callback, Goto, pipeVars, cloneVars, TypeOK,
         ThreadType, Told
    <3>2. \A d \in Calls : outcome'[d] = "active" => outcome[d] = "active"
      BY <1>10 DEF Callback, Goto, pipeVars, cloneVars, TypeOK, ThreadType
    <3>3. /\ UNCHANGED <<bytes, told, ncalls>>
          /\ \A d \in Calls : cpc'[d] = "none" => cpc[d] = "none"
      BY <1>10 DEF Callback, Goto, pipeVars, cloneVars, TypeOK, CloneType
    <3> QED
      BY <3>1, <3>2, <3>3 DEF PermitPart, ByteInv
  <2>2. PermitInv'
    BY <1>10 DEF Callback, Goto, pipeVars, cloneVars, TypeOK, ThreadType,
       PermitPart, PermitInv
  <2> QED
    BY <2>1, <2>2 DEF PermitPart
<1>11. ASSUME NEW c \in Calls, CloneStep(c) \/ KillClone(c)
      PROVE  PermitPart'
  <2>1. UNCHANGED <<ncalls, overlap, parentVars, ptracer>>
    BY <1>11, CloneMoves
  <2>2. PermitInv'
    BY <2>1 DEF parentVars, PermitPart, PermitInv
  <2>3. \A d \in Calls : cpc'[d] = "none" => cpc[d] = "none" /\ d # c
    BY <1>11, CloneMoves
  <2>4. ASSUME NEW d \in Calls
        PROVE  /\ bytes'[d] > 0 => bytes[d] > 0
               /\ told'[d] = "byte" => told[d] = "byte" \/ bytes[d] > 0
               /\ bytes[d] = 0 => bytes'[d] = 0
               /\ d # c => told'[d] = told[d]
    <3>1. CASE ReadContinue(c)
      <4>1. cfdes[c] \in {NoPipe, c} /\ c # NoPipe
        BY <3>1 DEF ReadContinue, PipePart, OwnPipeInv, Calls, NoPipe
      <4> QED
        BY <3>1, <4>1 DEF ReadContinue, TypeOK, PipeType, CloneType
    <3>2. CASE ~ReadContinue(c)
      <4>1. UNCHANGED <<bytes, told>>
        BY <1>11, <3>2 DEF CloneStep, StartClone, Attach, OpenFile, WriteFile,
           KillClone, pipeVars
      <4> QED
        BY <4>1
    <3> QED
      BY <3>1, <3>2
  <2>5. ByteInv'
    BY <2>1, <2>3, <2>4 DEF parentVars, PermitPart, ByteInv, Told
  <2> QED
    BY <2>2, <2>5 DEF PermitPart
<1>12. ASSUME NEW h \in Handlers, NEW fresh \in BOOLEAN, Begin(h, fresh)
      PROVE  PermitPart'
  <2> DEFINE new == ncalls + 1
  <2>1. new \in Calls /\ new > ncalls /\ ncalls \in Nat
    BY <1>12 DEF Begin, TypeOK, ThreadType, Calls
  <2>2. bytes[new] = 0 /\ told[new] = "no"
    BY <2>1 DEF PermitPart, ByteInv, CallPart, FreshInv
  <2>3. /\ UNCHANGED <<bytes, told, cpc>>
        /\ \A d \in Calls : d # new => outcome'[d] = outcome[d]
        /\ ncalls' = new
    BY <1>12 DEF Begin, pipeVars, cloneVars, TypeOK, ThreadType
  <2>4. ASSUME NEW u \in Handlers, NEW d \in Calls, Told(u, d)
        PROVE  Told(u, d)'
    <3>1. u # h
      BY <1>12, <2>4 DEF Begin, Told
    <3> QED
      BY <1>12, <2>4, <3>1 DEF Begin, Goto, TypeOK, ThreadType, Told
  <2>5. ByteInv'
    BY <2>1, <2>2, <2>3, <2>4 DEF PermitPart, ByteInv, Calls
  <2>6. PermitInv'
    BY <1>12 DEF Begin, Goto, TypeOK, ThreadType, PermitPart, PermitInv
  <2> QED
    BY <2>5, <2>6 DEF PermitPart
<1>13. CASE KillParent
  BY <1>13 DEF KillParent, Die, parentVars, cloneVars, PermitPart, ByteInv,
     PermitInv, Told
<1> QED
  BY <1>1, <1>2, <1>3, <1>4, <1>5, <1>6, <1>7, <1>8, <1>9, <1>10, <1>11,
     <1>12, <1>13 DEF Next, ThreadStep, CloneStep, Rest

-----------------------------------------------------------------------------
\* The initial state: no request has begun.
LEMMA InitIndInv == Init => IndInv
<1> SUFFICES ASSUME Init PROVE IndInv
  OBVIOUS
<1> USE DumpAssumption
<1>1. ThreadType /\ PipeType /\ CloneType
  <2>1. ThreadType
    <3>0. ncalls = 0
      BY DEF Init
    <3>1. ncalls \in 0..MaxCalls
      BY <3>0, SMT
    <3>2. path \in [Handlers -> Paths]
      BY DEF Init, Paths
    <3> QED
      BY <3>1, <3>2 DEF Init, ThreadType
  <2>2. PipeType
    BY DEF Init, PipeType
  <2>3. CloneType
    BY DEF Init, CloneType, Paths
  <2> QED
    BY <2>1, <2>2, <2>3
<1>2. SystemType
  BY DEF Init, SystemType, NoFile, NoCall
<1>3. CallPart
  BY DEF Init, CallPart, CallInv, UniqueInv, FreshInv, PathInv, Cloned
<1>4. FilePart
  <2>1. \A p \in Paths : \A c \in Calls : file[p].by # c
    BY DEF Init, NoFile, NoCall, Calls
  <2> QED
    BY <2>1 DEF Init, FilePart, FileInv, StatusInv, OkInv, NoFile, NoCall
<1>5. PipePart /\ PermitPart
  BY DEF Init, PipePart, OwnPipeInv, OpenInv, PermitPart, ByteInv, PermitInv,
     Cloned
<1> QED
  BY <1>1, <1>2, <1>3, <1>4, <1>5 DEF IndInv, TypeOK

\* The inductive invariant holds throughout.
THEOREM IndInvHolds == Spec => []IndInv
<1>1. IndInv /\ [Next]_vars => IndInv'
  BY TypeStep, CallStep, FileStep, PipeStep, PermitStep DEF IndInv
<1> QED
  BY <1>1, InitIndInv, PTL DEF Spec

\* Type correctness, for any number of handlers and requests: what a thread
\* in GenerateDump and its clone work with are requests that were begun.
THEOREM TypeCorrect == Spec => []TypeOK
<1>1. IndInv => TypeOK
  BY DEF IndInv
<1> QED
  BY <1>1, IndInvHolds, PTL

\* When callback_ is told that the dump succeeded, the file at the
\* descriptor's path was written by this request's clone, and Dump came to
\* its end on it.
THEOREM ReportedFinished == Spec => []ReportedDumpFinished
<1>1. IndInv => ReportedDumpFinished
  <2> SUFFICES ASSUME IndInv, NEW h \in Handlers, pc[h] = "callback", ok[h]
               PROVE  /\ file[path[h]].by = call[h]
                      /\ file[path[h]].state \in Finished
    BY DEF ReportedDumpFinished
  <2>1. call[h] \in Calls
    BY RequestType
  <2>2. status[call[h]] = "zero" /\ cpath[call[h]] = path[h]
    BY DEF IndInv, FilePart, OkInv, CallPart, PathInv, Cloned
  <2> QED
    BY <2>1, <2>2 DEF IndInv, FilePart, StatusInv
<1> QED
  BY <1>1, IndInvHolds, PTL

\* A clone that got the byte has the permission to trace its parent, in
\* every behaviour without overlapping requests.
THEOREM PermittedInTime == Spec => []PermissionInTime
<1>1. IndInv => PermissionInTime
  <2> SUFFICES ASSUME IndInv, NEW c \in Calls, ~overlap,
                      outcome[c] = "active", told[c] = "byte"
               PROVE  ptracer = c
    BY DEF PermissionInTime
  <2>1. PICK h \in Handlers : Told(h, c)
    BY DEF IndInv, PermitPart, ByteInv
  <2> QED
    BY <2>1 DEF Told, IndInv, PermitPart, PermitInv
<1> QED
  BY <1>1, IndInvHolds, PTL

\* GenerateDump leaves no descriptor of its pipe open, whichever way it
\* returns.
THEOREM PipesClosed == Spec => []NoPipeLeak
<1>1. IndInv => NoPipeLeak
  BY DEF IndInv, PipePart, OpenInv, Uses, NoPipeLeak
<1> QED
  BY <1>1, IndInvHolds, PTL

-----------------------------------------------------------------------------
\* No request is reported on before its clone has opened a file.
LEMMA NoReport ==
    ASSUME IndInv, NEW c \in Calls, cpc[c] \notin {"write", "exited"}
    PROVE  Report(c) = "none" /\ \A p \in Paths : file[p].by # c
<1>1. \A p \in Paths : file[p].by # c
  BY DEF IndInv, FilePart, FileInv
<1>2. cpath[c] \in Paths
  BY DEF IndInv, TypeOK, CloneType
<1> QED
  BY <1>1, <1>2 DEF Report

\* A step that leaves results and files alone is a stuttering step of
\* DumpService.
LEMMA Stutters ==
    ASSUME UNCHANGED <<outcome, file, cpath>>
    PROVE  UNCHANGED DS!svars
<1>1. [c \in Calls |-> Report(c)]' = [c \in Calls |-> Report(c)]
  BY DEF Report
<1> QED
  BY <1>1 DEF DS!svars

\* A request that returns false is a failing step of DumpService.
LEMMA ReturnFails ==
    ASSUME IndInv, NEW h \in Handlers, pc[h] # "idle", ReturnFalse(h),
           UNCHANGED <<file, cpath>>
    PROVE  DS!Fail(call[h]) /\ call[h] \in Calls
<1>1. [c \in Calls |-> Report(c)]' = [c \in Calls |-> Report(c)]
  BY DEF Report
<1>2. outcome[call[h]] = "active" /\ call[h] \in Calls
  BY RequestType DEF IndInv, CallPart, CallInv
<1> QED
  BY <1>1, <1>2 DEF ReturnFalse, DS!Fail

\* Every step of the handshake is a step of DumpService or changes nothing
\* that DumpService speaks of.
LEMMA ServiceStep == IndInv /\ [Next]_vars => [DS!Next]_DS!svars
<1> SUFFICES ASSUME IndInv, [Next]_vars
             PROVE  DS!Next \/ UNCHANGED DS!svars
  OBVIOUS
<1> USE DumpAssumption
<1> DEFINE report == [c \in Calls |-> Report(c)]
           Goal == DS!Next \/ UNCHANGED DS!svars
<1>1. CASE UNCHANGED vars
  BY <1>1, Stutters DEF vars, parentVars, cloneVars
<1>2. ASSUME NEW h \in Handlers, MakePipe(h) PROVE Goal
  <2>1. CASE ReturnFalse(h)
    BY <1>2, <2>1, ReturnFails DEF MakePipe, cloneVars, DS!Next
  <2>2. CASE UNCHANGED outcome
    BY <1>2, <2>2, Stutters DEF MakePipe, cloneVars
  <2> QED
    BY <1>2, <2>1, <2>2 DEF MakePipe
<1>3. ASSUME NEW h \in Handlers, CloneChild(h) PROVE Goal
  <2>1. CASE ReturnFalse(h) /\ UNCHANGED cloneVars
    BY <1>3, <2>1, ReturnFails DEF CloneChild, cloneVars, DS!Next
  <2>2. CASE /\ UNCHANGED <<outcome, file>>
             /\ cpath' = [cpath EXCEPT ![call[h]] = path[h]]
    <3>1. PICK r \in Calls : r = call[h]
      BY <1>3, RequestType DEF CloneChild
    <3>2. cpc[r] = "none" /\ path[h] \in Paths
      BY <1>3, <3>1 DEF CloneChild, IndInv, CallPart, FreshInv, TypeOK,
         ThreadType
    <3>3. Report(r) = "none" /\ \A p \in Paths : file[p].by # r
      BY <3>2, NoReport
    <3>4. cpath'[r] = path[h] /\ \A c \in Calls : c # r => cpath'[c] = cpath[c]
      BY <2>2, <3>1 DEF IndInv, TypeOK, CloneType
    <3>5. Report(r)' = "none"
      BY <2>2, <3>2, <3>3, <3>4 DEF Report
    <3>6. ASSUME NEW c \in Calls PROVE Report(c)' = Report(c)
      <4>1. CASE c # r
        BY <2>2, <3>4, <4>1 DEF Report
      <4>2. CASE c = r
        BY <3>3, <3>5, <4>2
      <4> QED
        BY <4>1, <4>2
    <3>7. report' = report
      BY <3>6
    <3> QED
      BY <2>2, <3>7 DEF DS!svars
  <2> QED
    BY <1>3, <2>1, <2>2 DEF CloneChild
<1>4. ASSUME NEW h \in Handlers, \/ CloseReadEnd(h) \/ AllowPtrace(h)
                                 \/ SendContinue(h) \/ WaitChild(h)
                                 \/ WaitFails(h) \/ CloseWriteEnd(h)
      PROVE  Goal
  BY <1>4, Stutters DEF CloseReadEnd, AllowPtrace, SendContinue, WaitChild,
     WaitFails, WaitReturns, CloseWriteEnd, cloneVars
<1>5. ASSUME NEW h \in Handlers, Callback(h) PROVE Goal
  <2>1. /\ call[h] \in Calls /\ outcome[call[h]] = "active"
        /\ UNCHANGED <<file, cpath>>
    BY <1>5, RequestType DEF Callback, cloneVars, IndInv, CallPart, CallInv
  <2>2. report' = report
    BY <2>1 DEF Report
  <2>3. CASE ok[h]
    <3>1. /\ file[cpath[call[h]]].by = call[h]
          /\ file[cpath[call[h]]].state \in Finished
      BY <1>5, <2>1, <2>3 DEF Callback, IndInv, FilePart, OkInv, StatusInv
    <3>2. report[call[h]] \in DS!Finished
      BY <2>1, <3>1 DEF Report, Finished, DS!Finished
    <3>3. DS!Succeed(call[h])
      BY <1>5, <2>1, <2>2, <2>3, <3>2 DEF Callback, DS!Succeed
    <3> QED
      BY <2>1, <3>3 DEF DS!Next
  <2>4. CASE ~ok[h]
    <3>1. DS!Fail(call[h])
      BY <1>5, <2>1, <2>2, <2>4 DEF Callback, DS!Fail
    <3> QED
      BY <2>1, <3>1 DEF DS!Next
  <2> QED
    BY <2>3, <2>4
<1>6. ASSUME NEW c \in Calls, \/ StartClone(c) \/ ReadContinue(c)
                              \/ Attach(c) \/ KillClone(c)
      PROVE  Goal
  BY <1>6, Stutters DEF StartClone, ReadContinue, Attach, KillClone,
     parentVars
<1>7. ASSUME NEW c \in Calls, OpenFile(c) PROVE Goal
  <2>1. UNCHANGED <<outcome, cpath>> /\ cpc[c] = "open"
    BY <1>7 DEF OpenFile, parentVars
  <2>2. CASE UNCHANGED file
    BY <2>1, <2>2, Stutters
  <2>3. CASE /\ Opens(cpath[c])
             /\ file' = [file EXCEPT ![cpath[c]] =
                            [state |-> "partial", by |-> c]]
    <3>1. /\ file'[cpath[c]] = [state |-> "partial", by |-> c]
          /\ \A p \in Paths : p # cpath[c] => file'[p] = file[p]
          /\ \A d \in Calls : cpath[d] \in Paths
      BY <2>3 DEF IndInv, TypeOK, CloneType, SystemType
    <3>2. file[cpath[c]].by = NoCall
      BY <2>3, <3>1 DEF Opens, IndInv, FilePart, FileInv
    <3>3. Report(c) = "none" /\ Report(c)' = "partial"
      BY <2>1, <3>1, NoReport DEF Report
    <3>4. ASSUME NEW d \in Calls, d # c PROVE Report(d)' = Report(d)
      <4>1. CASE cpath[d] = cpath[c]
        <5>1. d # NoCall
          BY DEF Calls, NoCall
        <5> QED
          BY <2>1, <3>1, <3>2, <3>4, <4>1, <5>1 DEF Report
      <4>2. CASE cpath[d] # cpath[c]
        BY <2>1, <3>1, <4>2 DEF Report
      <4> QED
        BY <4>1, <4>2
    <3>5. report' = [report EXCEPT ![c] = "partial"] /\ report[c] = "none"
      BY <3>3, <3>4
    <3>6. outcome[c] \in {"active", "failed"}
      BY <2>1 DEF IndInv, TypeOK, ThreadType, CallPart, FreshInv, FilePart,
         OkInv
    <3>7. DS!Write(c)
      BY <2>1, <3>5, <3>6 DEF DS!Write
    <3> QED
      BY <3>7 DEF DS!Next
  <2> QED
    BY <1>7, <2>2, <2>3 DEF OpenFile
<1>8. ASSUME NEW c \in Calls, WriteFile(c) PROVE Goal
  <2>1. UNCHANGED <<outcome, cpath>> /\ cpc[c] = "write"
    BY <1>8 DEF WriteFile, parentVars
  <2>2. CASE UNCHANGED file
    BY <2>1, <2>2, Stutters
  <2>3. ASSUME NEW s \in Finished,
               file' = [file EXCEPT ![cpath[c]].state = s]
        PROVE  Goal
    <3>1. file[cpath[c]] = [state |-> "partial", by |-> c]
      BY <2>1 DEF IndInv, FilePart, FileInv
    <3>2. /\ file'[cpath[c]] = [state |-> s, by |-> c]
          /\ \A p \in Paths : p # cpath[c] => file'[p] = file[p]
          /\ \A d \in Calls : cpath[d] \in Paths
      BY <2>3, <3>1 DEF IndInv, TypeOK, CloneType, SystemType
    <3>3. Report(c) = "partial" /\ Report(c)' = s
      BY <2>1, <3>1, <3>2 DEF Report
    <3>4. ASSUME NEW d \in Calls, d # c PROVE Report(d)' = Report(d)
      <4>1. CASE cpath[d] = cpath[c]
        BY <2>1, <3>1, <3>2, <3>4, <4>1 DEF Report
      <4>2. CASE cpath[d] # cpath[c]
        BY <2>1, <3>2, <4>2 DEF Report
      <4> QED
        BY <4>1, <4>2
    <3>5. report' = [report EXCEPT ![c] = s] /\ report[c] = "partial"
      BY <3>3, <3>4
    <3>6. outcome[c] \in {"active", "failed"}
      BY <2>1 DEF IndInv, TypeOK, ThreadType, CallPart, FreshInv, FilePart,
         OkInv
    <3>7. DS!Write(c)
      BY <2>1, <2>3, <3>5, <3>6 DEF DS!Write, Finished, DS!Finished
    <3> QED
      BY <3>7 DEF DS!Next
  <2> QED
    BY <1>8, <2>2, <2>3 DEF WriteFile, Finished
<1>9. ASSUME NEW h \in Handlers, NEW fresh \in BOOLEAN, Begin(h, fresh)
      PROVE  Goal
  <2>1. ncalls + 1 \in Calls /\ ncalls + 1 > ncalls
    BY <1>9 DEF Begin, IndInv, TypeOK, ThreadType, Calls
  <2>2. report' = report
    BY <1>9 DEF Begin, cloneVars, Report
  <2>3. DS!Request(ncalls + 1)
    BY <1>9, <2>1, <2>2 DEF Begin, DS!Request, IndInv, CallPart, FreshInv
  <2> QED
    BY <2>1, <2>3 DEF DS!Next
<1>10. CASE KillParent
  BY <1>10, Stutters DEF KillParent, parentVars, cloneVars
<1> QED
  BY <1>1, <1>2, <1>3, <1>4, <1>5, <1>6, <1>7, <1>8, <1>9, <1>10
     DEF Next, ThreadStep, CloneStep, Rest

\* The handshake implements DumpService: each request ends at most once,
\* success is reported only for a finished dump, and no later request or
\* clone touches a dump that is finished.
THEOREM HandshakeImplementsService == Spec => ImplementsDumpService
<1>1. Init => DS!Init
  <2> SUFFICES ASSUME Init PROVE DS!Init
    OBVIOUS
  <2>1. \A c \in Calls : Report(c) = "none"
    BY NoReport, InitIndInv DEF Init
  <2> QED
    BY <2>1 DEF Init, DS!Init
<1>2. IndInv /\ [Next]_vars => [DS!Next]_DS!svars
  BY ServiceStep
<1> QED
  BY <1>1, <1>2, IndInvHolds, PTL DEF Spec, DS!Spec, ImplementsDumpService
=============================================================================
