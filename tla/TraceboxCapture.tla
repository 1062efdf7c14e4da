--------------------------- MODULE TraceboxCapture ---------------------------
(***************************************************************************)
(* Ranked profiles of operations of one process: the reservation, the      *)
(* tracebox child, its directory and the outputs.  Models OperationCapture *)
(* of profiler/capture.rs and the order of the outputs of                  *)
(* generate_operation_ranked_profile_outputs.  A system call is one step;  *)
(* fields of a value that is dropped go in the order of their declaration. *)
(***************************************************************************)

CONSTANTS
  Calls,   \* the profiled calls, one per thread
  NoCall

ASSUME CaptureAssumption == NoCall \notin Calls

VARIABLES
  holder,      \* OPERATION_PROFILE_ACTIVE: the call that set it
  phase,       \* where each call is in start, finish or drop
  purpose,     \* why the child is stopped: start failed, finish, panic
  child,       \* the process that was spawned for the call
  authorized,  \* whether it may inspect this process
  directory,   \* whether the temporary directory exists
  failed,      \* whether start or finish returns a failure
  outputs      \* which files at the output paths are new: the artifact, then the report

captureVars == <<holder, phase, purpose, child, authorized, directory, failed, outputs>>

Phases == {"idle", "prepare", "spawn", "authorize", "release", "await", "enable", "capturing",
           "stop", "terminate", "poll", "kill", "unreserve", "report", "artifact", "html",
           "remove"}

CaptureInit ==
  /\ holder = NoCall
  /\ phase = [c \in Calls |-> "idle"]
  /\ purpose = [c \in Calls |-> "start"]
  /\ child = [c \in Calls |-> "none"]
  /\ authorized = [c \in Calls |-> FALSE]
  /\ directory = [c \in Calls |-> FALSE]
  /\ failed = [c \in Calls |-> FALSE]
  /\ outputs = [c \in Calls |-> {}]
-----------------------------------------------------------------------------
(* OperationCapture::start *)

Goto(c, p) == phase' = [phase EXCEPT ![c] = p]

\* ProfileReservation::acquire; without it start fails at once.
Reserve(c) ==
  /\ phase[c] = "idle"
  /\ IF holder = NoCall
     THEN holder' = c /\ Goto(c, "prepare") /\ failed' = [failed EXCEPT ![c] = FALSE]
     ELSE failed' = [failed EXCEPT ![c] = TRUE] /\ UNCHANGED <<holder, phase>>
  /\ outputs' = [outputs EXCEPT ![c] = {}]
  /\ UNCHANGED <<purpose, child, authorized, directory>>

\* start returns an error in its phase: what exists by then is dropped from p on.
Fail(c, p) == Goto(c, p) /\ failed' = [failed EXCEPT ![c] = TRUE]

\* The child was waited for, which ends its authorization: "reaped" while the caller
\* keeps the handle with the status.
Reap(c, handle) ==
  /\ child' = [child EXCEPT ![c] = handle]
  /\ authorized' = [authorized EXCEPT ![c] = FALSE]

\* The scope, the output paths, the preflights and the temporary directory.
Prepare(c) ==
  /\ phase[c] = "prepare"
  /\ \/ Goto(c, "spawn") /\ directory' = [directory EXCEPT ![c] = TRUE] /\ UNCHANGED failed
     \/ Fail(c, "unreserve") /\ UNCHANGED directory
  /\ UNCHANGED <<holder, purpose, child, authorized, outputs>>

\* The capture config and the child, which waits at its gate.
Spawn(c) ==
  /\ phase[c] = "spawn"
  /\ \/ Goto(c, "authorize") /\ child' = [child EXCEPT ![c] = "gated"] /\ UNCHANGED failed
     \/ Fail(c, "remove") /\ UNCHANGED child
  /\ UNCHANGED <<holder, purpose, authorized, directory, outputs>>

Authorize(c) ==
  /\ phase[c] = "authorize"
  /\ \/ Goto(c, "release") /\ authorized' = [authorized EXCEPT ![c] = TRUE] /\ UNCHANGED failed
     \/ Fail(c, "stop") /\ UNCHANGED authorized
  /\ UNCHANGED <<holder, purpose, child, directory, outputs>>

\* A byte to the gate, which replaces itself by tracebox.
ReleaseGate(c) ==
  /\ phase[c] = "release"
  /\ \/ /\ child[c] = "gated" /\ Goto(c, "await")
        /\ child' = [child EXCEPT ![c] = "starting"] /\ UNCHANGED failed
     \/ child[c] # "gated" /\ Fail(c, "stop") /\ UNCHANGED child
  /\ UNCHANGED <<holder, purpose, authorized, directory, outputs>>

\* A failure that the child reports or its end; a child that is not ready in time is
\* killed and waited for, and then dropped as well.
AwaitReady(c) ==
  /\ phase[c] = "await"
  /\ \/ child[c] = "ready" /\ Goto(c, "enable") /\ UNCHANGED <<child, authorized, failed>>
     \/ child[c] # "ready" /\ Fail(c, "stop") /\ UNCHANGED <<child, authorized>>
     \/ child[c] # "ready" /\ Fail(c, "stop") /\ Reap(c, "reaped")
  /\ UNCHANGED <<holder, purpose, directory, outputs>>

\* initialize_perfetto and wait_for_capture.
Enable(c) ==
  /\ phase[c] = "enable"
  /\ \/ child[c] = "ready" /\ Goto(c, "capturing") /\ UNCHANGED failed
     \/ Fail(c, "stop")
  /\ UNCHANGED <<holder, purpose, child, authorized, directory, outputs>>
-----------------------------------------------------------------------------
(* The end of a capture. *)

Finish(c) ==
  /\ phase[c] = "capturing"
  /\ Goto(c, "stop")
  /\ purpose' = [purpose EXCEPT ![c] = "finish"]
  /\ UNCHANGED <<holder, child, authorized, directory, failed, outputs>>

\* A panic drops the capture: OperationCapture::drop, then its fields.
Unwind(c) ==
  /\ phase[c] = "capturing"
  /\ Goto(c, "stop")
  /\ purpose' = [purpose EXCEPT ![c] = "panic"]
  /\ UNCHANGED <<holder, child, authorized, directory, failed, outputs>>

\* finish gives the reservation back first; a drop does it last.
AfterStop(c) == IF purpose[c] = "finish" THEN "unreserve" ELSE "remove"

\* try_stop_tracebox: the status of a child that is gone, or SIGTERM.  A child that
\* was waited for keeps its status, which is that of a killed one.
TryWait(c) ==
  /\ phase[c] = "stop"
  /\ \/ child[c] = "exited" /\ Reap(c, "none") /\ Goto(c, AfterStop(c)) /\ UNCHANGED failed
     \/ child[c] \in {"crashed", "reaped"} /\ Reap(c, "reaped") /\ Fail(c, "kill")
     \/ /\ child[c] \in {"gated", "starting", "ready"} /\ Goto(c, "terminate")
        /\ UNCHANGED <<child, authorized, failed>>
     \/ child[c] # "reaped" /\ Fail(c, "kill") /\ UNCHANGED <<child, authorized>>
  /\ UNCHANGED <<holder, purpose, directory, outputs>>

\* terminate_child signals the number of the process.
Terminate(c) ==
  /\ phase[c] = "terminate"
  /\ \/ Goto(c, "poll") /\ UNCHANGED failed
     \/ Fail(c, "kill")
  /\ UNCHANGED <<holder, purpose, child, authorized, directory, outputs>>

\* wait_for_tracebox_exit, with its timeout.
Poll(c) ==
  /\ phase[c] = "poll"
  /\ \/ child[c] = "exited" /\ Reap(c, "none") /\ Goto(c, AfterStop(c)) /\ UNCHANGED failed
     \/ child[c] = "crashed" /\ Reap(c, "reaped") /\ Fail(c, "kill")
     \/ Fail(c, "kill") /\ UNCHANGED <<child, authorized>>
  /\ UNCHANGED <<holder, purpose, directory, outputs>>

\* stop_tracebox_with_timeout: kill and wait.
Kill(c) ==
  /\ phase[c] = "kill"
  /\ Reap(c, "none") /\ Goto(c, AfterStop(c))
  /\ UNCHANGED <<holder, purpose, directory, failed, outputs>>

\* Only finish gives the reservation back.
UnreserveFinished(c) ==
  /\ phase[c] = "unreserve"
  /\ holder' = IF purpose[c] = "finish" THEN NoCall ELSE holder
  /\ Goto(c, IF purpose[c] # "finish" THEN "idle" ELSE IF failed[c] THEN "remove" ELSE "report")
  /\ purpose' = [purpose EXCEPT ![c] = IF @ = "finish" THEN @ ELSE "start"]
  /\ UNCHANGED <<child, authorized, directory, failed, outputs>>

Unreserve(c) ==
  /\ phase[c] = "unreserve"
  /\ holder' = NoCall
  /\ Goto(c, IF purpose[c] # "finish" THEN "idle" ELSE IF failed[c] THEN "remove" ELSE "report")
  /\ purpose' = [purpose EXCEPT ![c] = IF @ = "finish" THEN @ ELSE "start"]
  /\ UNCHANGED <<child, authorized, directory, failed, outputs>>

\* symbolize_trace, load_ranked_profile and render_ranked_profile_html.
Report(c) ==
  /\ phase[c] = "report"
  /\ \/ Goto(c, "artifact") /\ UNCHANGED failed
     \/ Fail(c, "remove")
  /\ UNCHANGED <<holder, purpose, child, authorized, directory, outputs>>

\* An output is written to a temporary file and persisted over the old one.
Write(c, file, next) ==
  /\ phase[c] = file
  /\ \/ Goto(c, next) /\ outputs' = [outputs EXCEPT ![c] = @ \cup {file}] /\ UNCHANGED failed
     \/ Fail(c, "remove") /\ UNCHANGED outputs
  /\ UNCHANGED <<holder, purpose, child, authorized, directory>>

WriteArtifact(c) == Write(c, "artifact", "html")

WriteHtml(c) == Write(c, "html", "remove")

RemoveDirectory(c) ==
  /\ phase[c] = "remove"
  /\ directory' = [directory EXCEPT ![c] = FALSE]
  /\ Goto(c, IF purpose[c] = "finish" THEN "idle" ELSE "unreserve")
  /\ purpose' = [purpose EXCEPT ![c] = IF @ = "finish" THEN "start" ELSE @]
  /\ UNCHANGED <<holder, child, authorized, failed, outputs>>

\* The caller has the result and may use the outputs.
Collect(c) ==
  /\ phase[c] = "idle"
  /\ failed' = [failed EXCEPT ![c] = FALSE] /\ outputs' = [outputs EXCEPT ![c] = {}]
  /\ UNCHANGED <<holder, phase, purpose, child, authorized, directory>>

CaptureStep(c) ==
  \/ Prepare(c) \/ Spawn(c) \/ Authorize(c) \/ ReleaseGate(c) \/ AwaitReady(c) \/ Enable(c)
  \/ TryWait(c) \/ Terminate(c) \/ Poll(c) \/ Kill(c) \/ Unreserve(c)
  \/ Report(c) \/ WriteArtifact(c) \/ WriteHtml(c) \/ RemoveDirectory(c)
-----------------------------------------------------------------------------
(* The child. *)

ChildReady(c) ==
  /\ child[c] = "starting" /\ child' = [child EXCEPT ![c] = "ready"]
  /\ UNCHANGED <<holder, phase, purpose, authorized, directory, failed, outputs>>

\* It ends on its own or by the signal, at any time.
ChildExit(c) ==
  /\ child[c] \in {"gated", "starting", "ready"}
  /\ \E s \in {"exited", "crashed"} : child' = [child EXCEPT ![c] = s]
  /\ UNCHANGED <<holder, phase, purpose, authorized, directory, failed, outputs>>

CaptureNext ==
  \E c \in Calls : \/ Reserve(c) \/ Collect(c) \/ Finish(c) \/ Unwind(c) \/ CaptureStep(c)
                   \/ ChildReady(c) \/ ChildExit(c)

CaptureSpec == CaptureInit /\ [][CaptureNext]_captureVars
-----------------------------------------------------------------------------
CaptureTypeOK ==
  /\ holder \in Calls \cup {NoCall}
  /\ phase \in [Calls -> Phases]
  /\ purpose \in [Calls -> {"start", "finish", "panic"}]
  /\ child \in [Calls -> {"none", "gated", "starting", "ready", "exited", "crashed", "reaped"}]
  /\ authorized \in [Calls -> BOOLEAN] /\ directory \in [Calls -> BOOLEAN]
  /\ failed \in [Calls -> BOOLEAN]
  /\ outputs \in [Calls -> SUBSET {"artifact", "html"}]

\* The child of the call has not been waited for.
Unreaped(c) == child[c] \notin {"none", "reaped"}

\* "Only one ranked profile can be active": a tracebox child exists only under the
\* reservation of its call, also while a capture is abandoned, and the directory
\* that it writes to exists as long as it does.
OneCapture == \A c \in Calls : Unreaped(c) => holder = c /\ directory[c]

\* A call that is out of start, finish or drop, whatever failed on the way, leaves no
\* child, no directory and no reservation behind.
NothingLeft ==
  \A c \in Calls : phase[c] = "idle" => ~Unreaped(c) /\ ~directory[c] /\ holder # c

\* "Child::id returns the live child PID": SIGTERM is sent to the number of a process
\* only before that process has been waited for, even after a timeout killed it.
SignalsOwnChild == \A c \in Calls : phase[c] = "terminate" => Unreaped(c)

\* "preventing tracebox from inspecting the parent before Yama authorizes that exact PID".
GatedUntilAuthorized ==
  \A c \in Calls : child[c] \in {"starting", "ready"} => authorized[c]

\* The report at the path of the call is replaced last: with a new one the artifact is
\* new too, and a capture that fails leaves the old report.
ReportLast ==
  \A c \in Calls : /\ "html" \in outputs[c] => "artifact" \in outputs[c]
                   /\ phase[c] = "idle" /\ failed[c] => "html" \notin outputs[c]
=============================================================================
