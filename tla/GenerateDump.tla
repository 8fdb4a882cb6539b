---------------------------- MODULE GenerateDump ----------------------------
(***************************************************************************)
(* ExceptionHandler::GenerateDump: the handshake between the thread that   *)
(* wants a dump and the process it clones to write it.                     *)
(*                                                                         *)
(* Sources: client/linux/handler/exception_handler.cc (GenerateDump,       *)
(* ThreadEntry, the continue signal, DoDump, WriteMinidump), Init in       *)
(* minidump_writer/minidump_writer.cc and ThreadsSuspend in                *)
(* linux_ptrace_dumper.cc.                                                 *)
(*                                                                         *)
(* The clone shares no memory with its parent: it sees the handler's       *)
(* members as they were when it was cloned, and inherits a copy of every   *)
(* descriptor that was open then.  A pipe is named by the call that made   *)
(* it and a descriptor by its pipe and end; that a closed descriptor's     *)
(* number is used again is not modelled.  Requests of different handlers   *)
(* overlap; those of one handler do not, so a thread that requests a dump  *)
(* is named by the handler.                                                *)
(***************************************************************************)
EXTENDS Naturals, FiniteSets

CONSTANTS
    Handlers,        \* ExceptionHandler objects, and the threads inside them
    MaxCalls,        \* requests in a behaviour
    Restricted,      \* TRUE if ptrace needs PR_SET_PTRACER (Yama)
    MaxFaults,       \* system calls and writers that fail, clones killed
    ParentMayDie,    \* TRUE if the process may be killed
    SigPipeKills     \* TRUE if the process has not ignored SIGPIPE

Calls == 1..MaxCalls
NoPipe == 0          \* fdes[0] = fdes[1] = -1
NoCall == 0

ASSUME DumpAssumption ==
    /\ MaxCalls \in Nat
    /\ MaxFaults \in Nat
    /\ Restricted \in BOOLEAN
    /\ ParentMayDie \in BOOLEAN
    /\ SigPipeKills \in BOOLEAN
    /\ Handlers \cap Calls = {}

VARIABLES
    alive,      \* the process that requests the dumps
    ncalls,     \* requests begun
    overlap,    \* history: two requests have been in progress at once
    pc,         \* where each thread is in GenerateDump
    call,       \* its request, which also names the clone
    ok,         \* its local |success|
    outcome,    \* history: what each request returned
    path,       \* c_path_ of each handler's descriptor
    fdes,       \* the member fdes of each handler
    fds,        \* descriptors open in the process
    bytes,      \* bytes in each pipe
    ptracer,    \* kernel: the clone PR_SET_PTRACER allows
    tracer,     \* kernel: the clone that holds the process stopped
    cpc,        \* where each clone is in ThreadEntry
    cfdes,      \* its copy of the member fdes
    cpath,      \* its copy of the path
    cfds,       \* descriptors open in it
    told,       \* how its wait for the continue signal ended
    status,     \* its exit status
    file,       \* the file at each path and the clone that wrote it
    faults      \* failures so far

parentVars == <<pc, call, ok, outcome>>
pipeVars   == <<fdes, fds, bytes>>
cloneVars  == <<cpc, cfdes, cpath, cfds, told, status>>
vars == <<alive, ncalls, overlap, parentVars, path, pipeVars, ptracer, tracer,
          cloneVars, file, faults>>

-----------------------------------------------------------------------------
ReadEnd(p)  == <<p, "read">>
WriteEnd(p) == <<p, "write">>

\* sys_close; closing an invalid descriptor does nothing.
Close(open, fd) == open \ {fd}

Readers(p) == ReadEnd(p) \in fds \/ \E c \in Calls : ReadEnd(p) \in cfds[c]
Writers(p) == WriteEnd(p) \in fds \/ \E c \in Calls : WriteEnd(p) \in cfds[c]

Paths   == Handlers \cup Calls
NoFile  == [state |-> "none", by |-> NoCall]

\* A dump that MinidumpWriter::Dump brought to its end: with everything in it,
\* or with holes where write() failed.
Finished == {"complete", "holed"}

Goto(h, l)  == pc' = [pc EXCEPT ![h] = l]
CGoto(c, l) == cpc' = [cpc EXCEPT ![c] = l]

\* One of the calls below fails.
Fault == faults < MaxFaults /\ faults' = faults + 1

\* Threads of the process run unless it is dead or a clone has stopped it.
ParentRuns == alive /\ tracer = NoCall

Init ==
    /\ alive = TRUE
    /\ ncalls = 0
    /\ overlap = FALSE
    /\ pc = [h \in Handlers |-> "idle"]
    /\ call = [h \in Handlers |-> NoCall]
    /\ ok = [h \in Handlers |-> FALSE]
    /\ outcome = [c \in Calls |-> "unused"]
    /\ path = [h \in Handlers |-> h]
    /\ fdes = [h \in Handlers |-> NoPipe]
    /\ fds = {}
    /\ bytes = [c \in Calls |-> 0]
    /\ ptracer = NoCall
    /\ tracer = NoCall
    /\ cpc = [c \in Calls |-> "none"]
    /\ cfdes = [c \in Calls |-> NoPipe]
    /\ cpath = [c \in Calls |-> c]
    /\ cfds = [c \in Calls |-> {}]
    /\ told = [c \in Calls |-> "no"]
    /\ status = [c \in Calls |-> "none"]
    /\ file = [p \in Paths |-> NoFile]
    /\ faults = 0

-----------------------------------------------------------------------------
(***************************************************************************)
(* The requesting thread.                                                  *)
(***************************************************************************)

\* UpdatePath: a name that no file has (a fresh GUID).
UpdatedPath(h) == [path EXCEPT ![h] = ncalls + 1]

\* A request begins: WriteMinidump with a fresh path (UpdatePath), or
\* HandleSignal with the path the handler has.
Begin(h, fresh) ==
    /\ ParentRuns
    /\ pc[h] = "idle"
    /\ ncalls < MaxCalls
    /\ ncalls' = ncalls + 1
    /\ overlap' = (overlap \/ \E u \in Handlers : pc[u] # "idle")
    /\ call' = [call EXCEPT ![h] = ncalls + 1]
    /\ path' = IF fresh THEN UpdatedPath(h) ELSE path
    /\ outcome' = [outcome EXCEPT ![ncalls + 1] = "active"]
    /\ Goto(h, "pipe")
    /\ UNCHANGED <<alive, ok, pipeVars, ptracer, tracer, cloneVars, file,
                   faults>>

\* The early returns of GenerateDump skip the callback.
ReturnFalse(h) ==
    /\ outcome' = [outcome EXCEPT ![call[h]] = "failed"]
    /\ Goto(h, "idle")

\* The child's stack is allocated (or not), then the pipe is made; failing to
\* make it is not an error.
MakePipe(h) ==
    LET p == call[h] IN
    /\ ParentRuns
    /\ pc[h] = "pipe"
    /\ \/ /\ Fault
          /\ ReturnFalse(h)
          /\ UNCHANGED <<fdes, fds>>
       \/ /\ fdes' = [fdes EXCEPT ![h] = p]
          /\ fds' = fds \cup {ReadEnd(p), WriteEnd(p)}
          /\ Goto(h, "clone")
          /\ UNCHANGED <<outcome, faults>>
       \/ /\ Fault
          /\ fdes' = [fdes EXCEPT ![h] = NoPipe]
          /\ Goto(h, "clone")
          /\ UNCHANGED <<outcome, fds>>
    /\ UNCHANGED <<alive, ncalls, overlap, call, ok, path, bytes, ptracer,
                   tracer, cloneVars, file>>

\* Mutant: the pipe is not closed when clone fails.
DropPipeLeaks(h) == UNCHANGED fds

\* The two sys_close calls after a failed clone.
DropPipe(h) == fds' = Close(Close(fds, ReadEnd(fdes[h])), WriteEnd(fdes[h]))

CloneChild(h) ==
    LET c == call[h]
    IN  /\ ParentRuns
        /\ pc[h] = "clone"
        /\ \/ /\ Fault
              /\ DropPipe(h)
              /\ ReturnFalse(h)
              /\ UNCHANGED cloneVars
           \/ /\ cpc' = [cpc EXCEPT ![c] = "start"]
              /\ cfdes' = [cfdes EXCEPT ![c] = fdes[h]]
              /\ cpath' = [cpath EXCEPT ![c] = path[h]]
              /\ cfds' = [cfds EXCEPT ![c] = fds]
              /\ Goto(h, "closeread")
              /\ UNCHANGED <<fds, outcome, told, status, faults>>
        /\ UNCHANGED <<alive, ncalls, overlap, call, ok, path, fdes, bytes,
                       ptracer, tracer, file>>

CloseReadEnd(h) ==
    /\ ParentRuns
    /\ pc[h] = "closeread"
    /\ fds' = Close(fds, ReadEnd(fdes[h]))
    /\ Goto(h, "allow")
    /\ UNCHANGED <<alive, ncalls, overlap, call, ok, outcome, path, fdes,
                   bytes, ptracer, tracer, cloneVars, file, faults>>

\* Mutants: permission is given to no clone, or to the wrong identifier.
AllowedNone(h)   == NoCall
AllowedObject(h) == h

\* PR_SET_PTRACER names one process and replaces the one named before.
Allowed(h) == call[h]

AllowPtrace(h) ==
    /\ ParentRuns
    /\ pc[h] = "allow"
    /\ ptracer' = Allowed(h)
    /\ Goto(h, "send")
    /\ UNCHANGED <<alive, ncalls, overlap, call, ok, outcome, path, pipeVars,
                   tracer, cloneVars, file, faults>>

\* The whole process dies: its descriptors are closed.
Die ==
    /\ alive' = FALSE
    /\ fds' = {}

\* Mutant: the byte is not written.
SentNothing(p) == bytes

Sent(p) == [bytes EXCEPT ![p] = @ + 1]

\* SendContinueSignalToChild.  Writing to a pipe that nobody can read, the
\* clone being dead, raises SIGPIPE.
SendContinue(h) ==
    LET p == fdes[h] IN
    /\ ParentRuns
    /\ pc[h] = "send"
    /\ \/ /\ WriteEnd(p) \in fds /\ Readers(p)
          /\ bytes' = Sent(p)
          /\ Goto(h, "wait")
          /\ UNCHANGED <<alive, fds>>
       \/ /\ WriteEnd(p) \in fds /\ ~Readers(p) /\ SigPipeKills
          /\ Die
          /\ UNCHANGED <<pc, bytes>>
       \/ /\ WriteEnd(p) \notin fds \/ (~Readers(p) /\ ~SigPipeKills)
          /\ Goto(h, "wait")
          /\ UNCHANGED <<alive, fds, bytes>>
    /\ UNCHANGED <<ncalls, overlap, call, ok, outcome, path, fdes, ptracer,
                   tracer, cloneVars, file, faults>>

\* Mutant: the exit status is not looked at.
WaitSucceededAnyhow(c) == cpc[c] = "exited"

\* r != -1 && WIFEXITED(status) && WEXITSTATUS(status) == 0
WaitSucceeded(c) == cpc[c] = "exited" /\ status[c] = "zero"

\* waitpid returns, with the clone's status or with -1.
WaitReturns(h, success) ==
    /\ ParentRuns
    /\ pc[h] = "wait"
    /\ ok' = [ok EXCEPT ![h] = success]
    /\ Goto(h, "closewrite")
    /\ UNCHANGED <<alive, ncalls, overlap, call, outcome, path, pipeVars,
                   ptracer, tracer, cloneVars, file>>

WaitChild(h) ==
    /\ pc[h] = "wait" /\ cpc[call[h]] = "exited"
    /\ WaitReturns(h, WaitSucceeded(call[h]))
    /\ UNCHANGED faults

WaitFails(h) == Fault /\ WaitReturns(h, FALSE)

CloseWriteEnd(h) ==
    /\ ParentRuns
    /\ pc[h] = "closewrite"
    /\ fds' = Close(fds, WriteEnd(fdes[h]))
    /\ Goto(h, "callback")
    /\ UNCHANGED <<alive, ncalls, overlap, call, ok, outcome, path, fdes,
                   bytes, ptracer, tracer, cloneVars, file, faults>>

\* callback_ is given the descriptor and |success| and answers |success|, as
\* the wrapper's dump_call_back does; GenerateDump returns the answer.
Callback(h) ==
    /\ ParentRuns
    /\ pc[h] = "callback"
    /\ outcome' = [outcome EXCEPT ![call[h]] =
                      IF ok[h] THEN "ok" ELSE "failed"]
    /\ Goto(h, "idle")
    /\ UNCHANGED <<alive, ncalls, overlap, call, ok, path, pipeVars, ptracer,
                   tracer, cloneVars, file, faults>>

-----------------------------------------------------------------------------
(***************************************************************************)
(* The clone: ThreadEntry.                                                 *)
(***************************************************************************)

\* Mutant: the clone keeps its copy of the write end.
CloseInheritedNothing(c) == UNCHANGED cfds

\* sys_close(fdes[1])
CloseInherited(c) ==
    cfds' = [cfds EXCEPT ![c] = Close(@, WriteEnd(cfdes[c]))]

StartClone(c) ==
    /\ cpc[c] = "start"
    /\ CloseInherited(c)
    /\ CGoto(c, "read")
    /\ UNCHANGED <<alive, ncalls, overlap, parentVars, path, pipeVars,
                   ptracer, tracer, cfdes, cpath, told, status, file, faults>>

\* WaitForContinueSignal: a byte, the end of the file (no writer is left) or
\* EBADF ends it, and the clone goes on in each case.
ReadContinue(c) ==
    LET p == cfdes[c] IN
    /\ cpc[c] = "read"
    /\ \/ /\ p # NoPipe /\ bytes[p] > 0
          /\ bytes' = [bytes EXCEPT ![p] = @ - 1]
          /\ told' = [told EXCEPT ![c] = "byte"]
       \/ /\ p # NoPipe /\ bytes[p] = 0 /\ ~Writers(p)
          /\ told' = [told EXCEPT ![c] = "eof"]
          /\ UNCHANGED bytes
       \/ /\ p = NoPipe
          /\ told' = [told EXCEPT ![c] = "ebadf"]
          /\ UNCHANGED bytes
    /\ cfds' = [cfds EXCEPT ![c] = Close(@, ReadEnd(p))]
    /\ CGoto(c, "attach")
    /\ UNCHANGED <<alive, ncalls, overlap, parentVars, path, fdes, fds,
                   ptracer, tracer, cfdes, cpath, status, file, faults>>

\* The clone ends: it detaches and its descriptors are closed.
Exit(c, s) ==
    /\ CGoto(c, "exited")
    /\ status' = [status EXCEPT ![c] = s]
    /\ cfds' = [cfds EXCEPT ![c] = {}]
    /\ tracer' = IF tracer = c THEN NoCall ELSE tracer

\* ThreadsSuspend: without permission, with a dead process or with another
\* tracer, no thread can be attached.
Attach(c) ==
    /\ cpc[c] = "attach"
    /\ IF alive /\ tracer = NoCall /\ (Restricted => ptracer = c)
       THEN /\ tracer' = c
            /\ CGoto(c, "open")
            /\ UNCHANGED <<status, cfds>>
       ELSE Exit(c, "one")
    /\ UNCHANGED <<alive, ncalls, overlap, parentVars, path, pipeVars,
                   ptracer, cfdes, cpath, told, file, faults>>

\* Mutant: an existing file is opened and overwritten.
OpensAlways(p) == TRUE

\* O_CREAT | O_EXCL
Opens(p) == file[p].state = "none"

OpenFile(c) ==
    /\ cpc[c] = "open"
    /\ IF Opens(cpath[c])
       THEN /\ file' = [file EXCEPT ![cpath[c]] =
                           [state |-> "partial", by |-> c]]
            /\ CGoto(c, "write")
            /\ UNCHANGED <<status, cfds, tracer>>
       ELSE Exit(c, "one") /\ UNCHANGED file
    /\ UNCHANGED <<alive, ncalls, overlap, parentVars, path, pipeVars,
                   ptracer, cfdes, cpath, told, faults>>

\* MinidumpWriter::Dump and the destructors: the process runs again.  Dump
\* returns true when it comes to its end.  It does not look at the result of
\* every Copy and Flush: when write() fails there, the end is reached and the
\* exit status is 0, with a hole in the file.
WriteFile(c) ==
    /\ cpc[c] = "write"
    /\ \/ /\ file' = [file EXCEPT ![cpath[c]].state = "complete"]
          /\ Exit(c, "zero")
          /\ UNCHANGED faults
       \/ /\ Fault
          /\ file' = [file EXCEPT ![cpath[c]].state = "holed"]
          /\ Exit(c, "zero")
       \/ /\ Fault
          /\ Exit(c, "one")
          /\ UNCHANGED file
    /\ UNCHANGED <<alive, ncalls, overlap, parentVars, path, pipeVars,
                   ptracer, cfdes, cpath, told>>

-----------------------------------------------------------------------------
\* External.  A clone is killed, by the system or by a fault of its own.
KillClone(c) ==
    /\ cpc[c] \notin {"none", "exited"}
    /\ Fault
    /\ Exit(c, "signal")
    /\ UNCHANGED <<alive, ncalls, overlap, parentVars, path, pipeVars,
                   ptracer, cfdes, cpath, told, file>>

\* External.  The process is killed.
KillParent ==
    /\ alive /\ ParentMayDie
    /\ Die
    /\ UNCHANGED <<ncalls, overlap, parentVars, path, fdes, bytes, ptracer,
                   tracer, cloneVars, file, faults>>

ThreadStep(h) ==
    \/ MakePipe(h) \/ CloneChild(h) \/ CloseReadEnd(h) \/ AllowPtrace(h)
    \/ SendContinue(h) \/ WaitChild(h) \/ CloseWriteEnd(h) \/ Callback(h)

CloneStep(c) ==
    \/ StartClone(c) \/ ReadContinue(c) \/ Attach(c) \/ OpenFile(c)
    \/ WriteFile(c)

\* No request and no clone is in progress, or the process is dead.
Rest ==
    /\ \/ ~alive
       \/ /\ \A h \in Handlers : pc[h] = "idle"
          /\ \A c \in Calls : cpc[c] \in {"none", "exited"}
    /\ UNCHANGED vars

Next ==
    \/ \E h \in Handlers : ThreadStep(h)
    \/ \E c \in Calls : CloneStep(c)
    \/ \E h \in Handlers, fresh \in BOOLEAN : Begin(h, fresh)
    \/ \E h \in Handlers : WaitFails(h)
    \/ \E c \in Calls : KillClone(c)
    \/ KillParent
    \/ Rest

Spec == Init /\ [][Next]_vars

FairSpec ==
    /\ Spec
    /\ \A h \in Handlers : WF_vars(ThreadStep(h))
    /\ \A c \in Calls : WF_vars(CloneStep(c))

-----------------------------------------------------------------------------
(***************************************************************************)
(* Properties.                                                             *)
(***************************************************************************)
Descriptors == Calls \X {"read", "write"}

ThreadType ==
    /\ ncalls \in 0..MaxCalls
    /\ overlap \in BOOLEAN
    /\ pc \in [Handlers -> {"idle", "pipe", "clone", "closeread", "allow",
                           "send", "wait", "closewrite", "callback"}]
    /\ call \in [Handlers -> Calls \cup {NoCall}]
    /\ ok \in [Handlers -> BOOLEAN]
    /\ outcome \in [Calls -> {"unused", "active", "ok", "failed"}]
    /\ path \in [Handlers -> Paths]

PipeType ==
    /\ fdes \in [Handlers -> Calls \cup {NoPipe}]
    /\ fds \subseteq Descriptors
    /\ bytes \in [Calls -> Nat]

CloneType ==
    /\ cpc \in [Calls -> {"none", "start", "read", "attach", "open", "write",
                          "exited"}]
    /\ cfdes \in [Calls -> Calls \cup {NoPipe}]
    /\ cpath \in [Calls -> Paths]
    /\ cfds \in [Calls -> SUBSET Descriptors]
    /\ told \in [Calls -> {"no", "byte", "eof", "ebadf"}]
    /\ status \in [Calls -> {"none", "zero", "one", "signal"}]

SystemType ==
    /\ alive \in BOOLEAN
    /\ ptracer \in Calls \cup {NoCall}
    /\ tracer \in Calls \cup {NoCall}
    /\ file \in [Paths -> [state : {"none", "partial"} \cup Finished,
                           by : Calls \cup {NoCall}]]
    /\ faults \in 0..MaxFaults

\* Every variable has its type: in particular the pipe and the clone a thread
\* works with are those of requests that were begun.
TypeOK == ThreadType /\ PipeType /\ CloneType /\ SystemType

\* When the callback is told that the dump succeeded, the descriptor it is
\* given names a file that this request's clone wrote to the end of Dump: not
\* one left by another request, nor one whose writer was killed, failed or is
\* still at work.  A finished file may have holes when write() failed; what
\* that makes of the dump is the run dump_disk_full.
ReportedDumpFinished ==
    \A h \in Handlers :
        pc[h] = "callback" /\ ok[h] =>
            /\ file[path[h]].by = call[h]
            /\ file[path[h]].state \in Finished

\* A clone that was told to continue is the one the kernel allows to trace
\* the process: PR_SET_PTRACER comes before the byte, and the byte reaches
\* the right clone.  As long as no two requests have overlapped:
\* PR_SET_PTRACER is one register of the process.
PermissionInTime ==
    \A c \in Calls :
        ~overlap /\ alive /\ outcome[c] = "active" /\ cpc[c] = "attach"
            /\ told[c] = "byte" => ptracer = c

\* A pipe is open in the process only during the request that made it,
\* whichever early return or failure ended the request.
NoPipeLeak ==
    \A fd \in fds : \E h \in Handlers : call[h] = fd[1] /\ pc[h] # "idle"

\* Every request returns, although clones are killed, system calls fail and
\* the dump cannot be written, unless the process itself dies.
CallReturns ==
    \A c \in Calls :
        outcome[c] = "active" ~> (outcome[c] # "active" \/ ~alive)

\* Every clone ends, also when the process dies before the byte is written:
\* it does not keep its own pipe open.  As long as no two requests overlap.
CloneEnds == \A c \in Calls : cpc[c] # "none" ~> (cpc[c] = "exited" \/ overlap)

\* The file written for request c.
Report(c) == IF file[cpath[c]].by = c THEN file[cpath[c]].state ELSE "none"

DS == INSTANCE DumpService WITH report <- [c \in Calls |-> Report(c)]

\* The handshake implements DumpService: success is only reported for a
\* finished dump, and a finished dump is never touched again.
ImplementsDumpService == DS!Spec
=============================================================================
