---------------------------- MODULE DumpService -----------------------------
(***************************************************************************)
(* What ExceptionHandler::GenerateDump promises its caller, without saying *)
(* how: each request ends at most once, success is reported only for a     *)
(* dump that its writer brought to the end, and a finished dump never      *)
(* changes.  A finished dump is complete, or has holes where write()       *)
(* failed: the code does not promise more (minidump_writer.cc drops the    *)
(* result of Copy and Flush).  A request that failed may leave a partial   *)
(* file, or a finished one when the caller could not learn the outcome     *)
(* (waitpid failed).                                                       *)
(*                                                                         *)
(* Derived from the interface in client/linux/handler/exception_handler.h  *)
(* (WriteMinidump "Returns true on success", MinidumpCallback |succeeded|) *)
(* and from the result GenerateDump computes in exception_handler.cc.      *)
(***************************************************************************)
CONSTANT Calls          \* the requests

VARIABLES
    outcome,            \* per request: unused, active, ok or failed
    report              \* per request: the dump file written for it

svars == <<outcome, report>>

\* The writer came to its end.
Finished == {"complete", "holed"}

Init ==
    /\ outcome = [c \in Calls |-> "unused"]
    /\ report = [c \in Calls |-> "none"]

Request(c) ==
    /\ outcome[c] = "unused"
    /\ outcome' = [outcome EXCEPT ![c] = "active"]
    /\ UNCHANGED report

\* The writer makes progress; it may outlive the request's failure.
Write(c) ==
    /\ outcome[c] \in {"active", "failed"}
    /\ \/ report[c] = "none" /\ report' = [report EXCEPT ![c] = "partial"]
       \/ /\ report[c] = "partial"
          /\ \E s \in Finished : report' = [report EXCEPT ![c] = s]
    /\ UNCHANGED outcome

Succeed(c) ==
    /\ outcome[c] = "active"
    /\ report[c] \in Finished
    /\ outcome' = [outcome EXCEPT ![c] = "ok"]
    /\ UNCHANGED report

Fail(c) ==
    /\ outcome[c] = "active"
    /\ outcome' = [outcome EXCEPT ![c] = "failed"]
    /\ UNCHANGED report

Next == \E c \in Calls : Request(c) \/ Write(c) \/ Succeed(c) \/ Fail(c)

Spec == Init /\ [][Next]_svars
=============================================================================
