-------------------------- MODULE PythonCallsProofs --------------------------
(***************************************************************************)
(* Proofs for any number of Python threads: the capture of one call is     *)
(* exclusive and leaves nothing behind, which carries over to the composed *)
(* system, no table is derived from a temporary cache, and a profiled call *)
(* tells what became of its operation and of its profile.                  *)
(***************************************************************************)
EXTENDS PythonCalls, TLAPS

\* Most steps need no arithmetic; a step that does names the SMT solver.
USE ZenonT(60)

StartPhases == {"prepare", "spawn", "authorize", "release", "await", "enable", "capturing"}
StopPhases == {"stop", "terminate", "poll", "kill"}
ReportPhases == {"report", "artifact", "html"}

\* Where a call has the reservation.
Held(c) == \/ phase[c] \in StartPhases \cup StopPhases \cup {"unreserve"}
           \/ phase[c] = "remove" /\ purpose[c] # "finish"

HolderInv == \A c \in Calls : holder = c <=> Held(c)

PurposeInv ==
  \A c \in Calls : /\ phase[c] \in StartPhases \cup {"idle"} => purpose[c] = "start"
                   /\ phase[c] \in ReportPhases => purpose[c] = "finish"

\* A child exists from Spawn to Kill and is not waited for before it is signalled.
ChildInv ==
  \A c \in Calls : /\ Unreaped(c) => phase[c] \in (StartPhases \cup StopPhases) \ {"prepare", "spawn"}
                   /\ phase[c] = "terminate" => Unreaped(c)

DirectoryInv ==
  \A c \in Calls :
    /\ phase[c] \in (StartPhases \cup StopPhases) \ {"prepare"} => directory[c]
    /\ phase[c] \in {"idle", "prepare"} => ~directory[c]
    /\ phase[c] = "unreserve" /\ purpose[c] # "finish" => ~directory[c]

GateInv ==
  \A c \in Calls : child[c] \in {"starting", "ready"} \/ phase[c] = "release" => authorized[c]

\* Nothing failed up to the outputs, and a new report needs that nothing has failed.
OutputInv ==
  \A c \in Calls :
    /\ phase[c] \in StartPhases \cup ReportPhases => ~failed[c]
    /\ phase[c] \in StartPhases \cup StopPhases \cup {"unreserve", "report", "artifact"} => outputs[c] = {}
    /\ phase[c] = "remove" /\ purpose[c] # "finish" => outputs[c] = {}
    /\ phase[c] = "html" => outputs[c] = {"artifact"}
    /\ "html" \in outputs[c] => "artifact" \in outputs[c] /\ ~failed[c]

CaptureInv ==
  /\ CaptureTypeOK
  /\ HolderInv /\ ChildInv /\ DirectoryInv /\ PurposeInv /\ GateInv /\ OutputInv
-----------------------------------------------------------------------------
LEMMA CaptureInitStep == CaptureInit => CaptureInv
<1> SUFFICES ASSUME CaptureInit PROVE CaptureInv
  OBVIOUS
<1>1. CaptureTypeOK
  BY DEF CaptureInit, CaptureTypeOK, Phases
<1>2. HolderInv
  BY CaptureAssumption DEF CaptureInit, HolderInv, Held, StartPhases, StopPhases
<1>3. ChildInv
  BY DEF CaptureInit, ChildInv, Unreaped
<1>4. DirectoryInv
  BY DEF CaptureInit, DirectoryInv, StartPhases, StopPhases
<1>5. PurposeInv
  BY DEF CaptureInit, PurposeInv, ReportPhases
<1>6. GateInv
  BY DEF CaptureInit, GateInv
<1>7. OutputInv
  BY DEF CaptureInit, OutputInv, StartPhases, StopPhases, ReportPhases
<1> QED
  BY <1>1, <1>2, <1>3, <1>4, <1>5, <1>6, <1>7 DEF CaptureInv

LEMMA ReserveStep ==
  ASSUME NEW c \in Calls, CaptureInv, Reserve(c)
  PROVE  CaptureInv'
<1>1. CaptureTypeOK'
  BY DEF CaptureInv, CaptureTypeOK, Phases, Reserve, Goto
<1>2. HolderInv'
  BY SMTT(30), CaptureAssumption DEF CaptureInv, CaptureTypeOK, HolderInv, Held, PurposeInv, StartPhases,
     StopPhases, ReportPhases, Reserve, Goto
<1>3. ChildInv'
  BY DEF CaptureInv, CaptureTypeOK, ChildInv, Unreaped, StartPhases, StopPhases, Reserve, Goto
<1>4. DirectoryInv'
  BY SMTT(30) DEF CaptureInv, CaptureTypeOK, DirectoryInv, PurposeInv, StartPhases, StopPhases,
     ReportPhases, Reserve, Goto
<1>5. PurposeInv'
  BY DEF CaptureInv, CaptureTypeOK, PurposeInv, StartPhases, ReportPhases, Reserve, Goto
<1>6. GateInv'
  BY DEF CaptureInv, CaptureTypeOK, GateInv, ChildInv, Unreaped, Reserve, Goto
<1>7. OutputInv'
  BY SMTT(30) DEF CaptureInv, CaptureTypeOK, OutputInv, PurposeInv, StartPhases, StopPhases,
     ReportPhases, Reserve, Goto
<1> QED
  BY <1>1, <1>2, <1>3, <1>4, <1>5, <1>6, <1>7 DEF CaptureInv

LEMMA CollectStep ==
  ASSUME NEW c \in Calls, CaptureInv, Collect(c)
  PROVE  CaptureInv'
<1>1. CaptureTypeOK'
  BY DEF CaptureInv, CaptureTypeOK, Phases, Collect
<1>2. HolderInv'
  BY CaptureAssumption DEF CaptureInv, CaptureTypeOK, HolderInv, Held, PurposeInv, StartPhases,
     StopPhases, ReportPhases, Collect
<1>3. ChildInv'
  BY DEF CaptureInv, CaptureTypeOK, ChildInv, Unreaped, StartPhases, StopPhases, Collect
<1>4. DirectoryInv'
  BY DEF CaptureInv, CaptureTypeOK, DirectoryInv, PurposeInv, StartPhases, StopPhases,
     ReportPhases, Collect
<1>5. PurposeInv'
  BY DEF CaptureInv, CaptureTypeOK, PurposeInv, StartPhases, ReportPhases, Collect
<1>6. GateInv'
  BY DEF CaptureInv, CaptureTypeOK, GateInv, ChildInv, Unreaped, Collect
<1>7. OutputInv'
  BY DEF CaptureInv, CaptureTypeOK, OutputInv, PurposeInv, StartPhases, StopPhases,
     ReportPhases, Collect
<1> QED
  BY <1>1, <1>2, <1>3, <1>4, <1>5, <1>6, <1>7 DEF CaptureInv

LEMMA FinishStep ==
  ASSUME NEW c \in Calls, CaptureInv, Finish(c)
  PROVE  CaptureInv'
<1>1. CaptureTypeOK'
  BY DEF CaptureInv, CaptureTypeOK, Phases, Finish, Goto
<1>2. HolderInv'
  BY CaptureAssumption DEF CaptureInv, CaptureTypeOK, HolderInv, Held, PurposeInv, StartPhases,
     StopPhases, ReportPhases, Finish, Goto
<1>3. ChildInv'
  BY DEF CaptureInv, CaptureTypeOK, ChildInv, Unreaped, StartPhases, StopPhases, Finish, Goto
<1>4. DirectoryInv'
  BY DEF CaptureInv, CaptureTypeOK, DirectoryInv, PurposeInv, StartPhases, StopPhases,
     ReportPhases, Finish, Goto
<1>5. PurposeInv'
  BY DEF CaptureInv, CaptureTypeOK, PurposeInv, StartPhases, ReportPhases, Finish, Goto
<1>6. GateInv'
  BY DEF CaptureInv, CaptureTypeOK, GateInv, ChildInv, Unreaped, Finish, Goto
<1>7. OutputInv'
  BY DEF CaptureInv, CaptureTypeOK, OutputInv, PurposeInv, StartPhases, StopPhases,
     ReportPhases, Finish, Goto
<1> QED
  BY <1>1, <1>2, <1>3, <1>4, <1>5, <1>6, <1>7 DEF CaptureInv

LEMMA UnwindStep ==
  ASSUME NEW c \in Calls, CaptureInv, Unwind(c)
  PROVE  CaptureInv'
<1>1. CaptureTypeOK'
  BY DEF CaptureInv, CaptureTypeOK, Phases, Unwind, Goto
<1>2. HolderInv'
  BY CaptureAssumption DEF CaptureInv, CaptureTypeOK, HolderInv, Held, PurposeInv, StartPhases,
     StopPhases, ReportPhases, Unwind, Goto
<1>3. ChildInv'
  BY DEF CaptureInv, CaptureTypeOK, ChildInv, Unreaped, StartPhases, StopPhases, Unwind, Goto
<1>4. DirectoryInv'
  BY DEF CaptureInv, CaptureTypeOK, DirectoryInv, PurposeInv, StartPhases, StopPhases,
     ReportPhases, Unwind, Goto
<1>5. PurposeInv'
  BY DEF CaptureInv, CaptureTypeOK, PurposeInv, StartPhases, ReportPhases, Unwind, Goto
<1>6. GateInv'
  BY DEF CaptureInv, CaptureTypeOK, GateInv, ChildInv, Unreaped, Unwind, Goto
<1>7. OutputInv'
  BY DEF CaptureInv, CaptureTypeOK, OutputInv, PurposeInv, StartPhases, StopPhases,
     ReportPhases, Unwind, Goto
<1> QED
  BY <1>1, <1>2, <1>3, <1>4, <1>5, <1>6, <1>7 DEF CaptureInv

LEMMA PrepareStep ==
  ASSUME NEW c \in Calls, CaptureInv, Prepare(c)
  PROVE  CaptureInv'
<1>1. CaptureTypeOK'
  BY DEF CaptureInv, CaptureTypeOK, Phases, Prepare, Fail, Goto
<1>2. HolderInv'
  BY CaptureAssumption DEF CaptureInv, CaptureTypeOK, HolderInv, Held, PurposeInv, StartPhases,
     StopPhases, ReportPhases, Prepare, Fail, Goto
<1>3. ChildInv'
  BY DEF CaptureInv, CaptureTypeOK, ChildInv, Unreaped, StartPhases, StopPhases, Prepare, Fail,
     Goto
<1>4. DirectoryInv'
  BY SMTT(30) DEF CaptureInv, CaptureTypeOK, DirectoryInv, PurposeInv, StartPhases, StopPhases,
     ReportPhases, Prepare, Fail, Goto
<1>5. PurposeInv'
  BY DEF CaptureInv, CaptureTypeOK, PurposeInv, StartPhases, ReportPhases, Prepare, Fail, Goto
<1>6. GateInv'
  BY DEF CaptureInv, CaptureTypeOK, GateInv, ChildInv, Unreaped, Prepare, Fail, Goto
<1>7. OutputInv'
  BY SMTT(30) DEF CaptureInv, CaptureTypeOK, OutputInv, PurposeInv, StartPhases, StopPhases,
     ReportPhases, Prepare, Fail, Goto
<1> QED
  BY <1>1, <1>2, <1>3, <1>4, <1>5, <1>6, <1>7 DEF CaptureInv

LEMMA SpawnStep ==
  ASSUME NEW c \in Calls, CaptureInv, Spawn(c)
  PROVE  CaptureInv'
<1>1. CaptureTypeOK'
  BY DEF CaptureInv, CaptureTypeOK, Phases, Spawn, Fail, Goto
<1>2. HolderInv'
  BY CaptureAssumption DEF CaptureInv, CaptureTypeOK, HolderInv, Held, PurposeInv, StartPhases,
     StopPhases, ReportPhases, Spawn, Fail, Goto
<1>3. ChildInv'
  BY DEF CaptureInv, CaptureTypeOK, ChildInv, Unreaped, StartPhases, StopPhases, Spawn, Fail, Goto
<1>4. DirectoryInv'
  BY DEF CaptureInv, CaptureTypeOK, DirectoryInv, PurposeInv, StartPhases, StopPhases,
     ReportPhases, Spawn, Fail, Goto
<1>5. PurposeInv'
  BY DEF CaptureInv, CaptureTypeOK, PurposeInv, StartPhases, ReportPhases, Spawn, Fail, Goto
<1>6. GateInv'
  BY DEF CaptureInv, CaptureTypeOK, GateInv, ChildInv, Unreaped, Spawn, Fail, Goto
<1>7. OutputInv'
  BY SMTT(30) DEF CaptureInv, CaptureTypeOK, OutputInv, PurposeInv, StartPhases, StopPhases,
     ReportPhases, Spawn, Fail, Goto
<1> QED
  BY <1>1, <1>2, <1>3, <1>4, <1>5, <1>6, <1>7 DEF CaptureInv

LEMMA AuthorizeStep ==
  ASSUME NEW c \in Calls, CaptureInv, Authorize(c)
  PROVE  CaptureInv'
<1>1. CaptureTypeOK'
  BY DEF CaptureInv, CaptureTypeOK, Phases, Authorize, Fail, Goto
<1>2. HolderInv'
  BY CaptureAssumption DEF CaptureInv, CaptureTypeOK, HolderInv, Held, PurposeInv, StartPhases,
     StopPhases, ReportPhases, Authorize, Fail, Goto
<1>3. ChildInv'
  BY DEF CaptureInv, CaptureTypeOK, ChildInv, Unreaped, StartPhases, StopPhases, Authorize,
     Fail, Goto
<1>4. DirectoryInv'
  BY DEF CaptureInv, CaptureTypeOK, DirectoryInv, PurposeInv, StartPhases, StopPhases,
     ReportPhases, Authorize, Fail, Goto
<1>5. PurposeInv'
  BY DEF CaptureInv, CaptureTypeOK, PurposeInv, StartPhases, ReportPhases, Authorize, Fail, Goto
<1>6. GateInv'
  BY DEF CaptureInv, CaptureTypeOK, GateInv, ChildInv, Unreaped, Authorize, Fail, Goto
<1>7. OutputInv'
  BY SMTT(30) DEF CaptureInv, CaptureTypeOK, OutputInv, PurposeInv, StartPhases, StopPhases,
     ReportPhases, Authorize, Fail, Goto
<1> QED
  BY <1>1, <1>2, <1>3, <1>4, <1>5, <1>6, <1>7 DEF CaptureInv

LEMMA ReleaseGateStep ==
  ASSUME NEW c \in Calls, CaptureInv, ReleaseGate(c)
  PROVE  CaptureInv'
<1>1. CaptureTypeOK'
  BY DEF CaptureInv, CaptureTypeOK, Phases, ReleaseGate, Fail, Goto
<1>2. HolderInv'
  BY CaptureAssumption DEF CaptureInv, CaptureTypeOK, HolderInv, Held, PurposeInv, StartPhases,
     StopPhases, ReportPhases, ReleaseGate, Fail, Goto
<1>3. ChildInv'
  BY DEF CaptureInv, CaptureTypeOK, ChildInv, Unreaped, StartPhases, StopPhases, ReleaseGate,
     Fail, Goto
<1>4. DirectoryInv'
  BY DEF CaptureInv, CaptureTypeOK, DirectoryInv, PurposeInv, StartPhases, StopPhases,
     ReportPhases, ReleaseGate, Fail, Goto
<1>5. PurposeInv'
  BY DEF CaptureInv, CaptureTypeOK, PurposeInv, StartPhases, ReportPhases, ReleaseGate, Fail, Goto
<1>6. GateInv'
  BY DEF CaptureInv, CaptureTypeOK, GateInv, ChildInv, Unreaped, ReleaseGate, Fail, Goto
<1>7. OutputInv'
  BY SMTT(30) DEF CaptureInv, CaptureTypeOK, OutputInv, PurposeInv, StartPhases, StopPhases,
     ReportPhases, ReleaseGate, Fail, Goto
<1> QED
  BY <1>1, <1>2, <1>3, <1>4, <1>5, <1>6, <1>7 DEF CaptureInv

LEMMA AwaitReadyStep ==
  ASSUME NEW c \in Calls, CaptureInv, AwaitReady(c)
  PROVE  CaptureInv'
<1>1. CaptureTypeOK'
  BY DEF CaptureInv, CaptureTypeOK, Phases, AwaitReady, Fail, Goto, Reap
<1>2. HolderInv'
  BY CaptureAssumption DEF CaptureInv, CaptureTypeOK, HolderInv, Held, PurposeInv, StartPhases,
     StopPhases, ReportPhases, AwaitReady, Fail, Goto, Reap
<1>3. ChildInv'
  BY DEF CaptureInv, CaptureTypeOK, ChildInv, Unreaped, StartPhases, StopPhases, AwaitReady,
     Fail, Goto, Reap
<1>4. DirectoryInv'
  BY DEF CaptureInv, CaptureTypeOK, DirectoryInv, PurposeInv, StartPhases, StopPhases,
     ReportPhases, AwaitReady, Fail, Goto, Reap
<1>5. PurposeInv'
  BY DEF CaptureInv, CaptureTypeOK, PurposeInv, StartPhases, ReportPhases, AwaitReady, Fail,
     Goto, Reap
<1>6. GateInv'
  BY SMTT(30) DEF CaptureInv, CaptureTypeOK, GateInv, ChildInv, Unreaped, AwaitReady, Fail, Goto, Reap
<1>7. OutputInv'
  BY SMTT(30) DEF CaptureInv, CaptureTypeOK, OutputInv, PurposeInv, StartPhases, StopPhases,
     ReportPhases, AwaitReady, Fail, Goto, Reap
<1> QED
  BY <1>1, <1>2, <1>3, <1>4, <1>5, <1>6, <1>7 DEF CaptureInv

LEMMA EnableStep ==
  ASSUME NEW c \in Calls, CaptureInv, Enable(c)
  PROVE  CaptureInv'
<1>1. CaptureTypeOK'
  BY DEF CaptureInv, CaptureTypeOK, Phases, Enable, Fail, Goto
<1>2. HolderInv'
  BY CaptureAssumption DEF CaptureInv, CaptureTypeOK, HolderInv, Held, PurposeInv, StartPhases,
     StopPhases, ReportPhases, Enable, Fail, Goto
<1>3. ChildInv'
  BY DEF CaptureInv, CaptureTypeOK, ChildInv, Unreaped, StartPhases, StopPhases, Enable, Fail,
     Goto
<1>4. DirectoryInv'
  BY DEF CaptureInv, CaptureTypeOK, DirectoryInv, PurposeInv, StartPhases, StopPhases,
     ReportPhases, Enable, Fail, Goto
<1>5. PurposeInv'
  BY DEF CaptureInv, CaptureTypeOK, PurposeInv, StartPhases, ReportPhases, Enable, Fail, Goto
<1>6. GateInv'
  BY DEF CaptureInv, CaptureTypeOK, GateInv, ChildInv, Unreaped, Enable, Fail, Goto
<1>7. OutputInv'
  BY SMTT(30) DEF CaptureInv, CaptureTypeOK, OutputInv, PurposeInv, StartPhases, StopPhases,
     ReportPhases, Enable, Fail, Goto
<1> QED
  BY <1>1, <1>2, <1>3, <1>4, <1>5, <1>6, <1>7 DEF CaptureInv

LEMMA TryWaitStep ==
  ASSUME NEW c \in Calls, CaptureInv, TryWait(c)
  PROVE  CaptureInv'
<1>1. CaptureTypeOK'
  BY DEF CaptureInv, CaptureTypeOK, Phases, TryWait, Fail, Goto, Reap, AfterStop
<1>2. HolderInv'
  BY SMTT(30), CaptureAssumption DEF CaptureInv, CaptureTypeOK, HolderInv, Held, PurposeInv, StartPhases,
     StopPhases, ReportPhases, TryWait, Fail, Goto, Reap, AfterStop
<1>3. ChildInv'
  BY SMTT(30) DEF CaptureInv, CaptureTypeOK, ChildInv, Unreaped, StartPhases, StopPhases, TryWait, Fail,
     Goto, Reap, AfterStop
<1>4. DirectoryInv'
  BY SMTT(30) DEF CaptureInv, CaptureTypeOK, DirectoryInv, PurposeInv, StartPhases, StopPhases,
     ReportPhases, TryWait, Fail, Goto, Reap, AfterStop
<1>5. PurposeInv'
  BY DEF CaptureInv, CaptureTypeOK, PurposeInv, StartPhases, ReportPhases, TryWait, Fail, Goto,
     Reap, AfterStop
<1>6. GateInv'
  BY SMTT(30) DEF CaptureInv, CaptureTypeOK, GateInv, ChildInv, Unreaped, TryWait, Fail, Goto, Reap,
     AfterStop
<1>7. OutputInv'
  BY SMTT(30) DEF CaptureInv, CaptureTypeOK, OutputInv, PurposeInv, StartPhases, StopPhases,
     ReportPhases, TryWait, Fail, Goto, Reap, AfterStop
<1> QED
  BY <1>1, <1>2, <1>3, <1>4, <1>5, <1>6, <1>7 DEF CaptureInv

LEMMA TerminateStep ==
  ASSUME NEW c \in Calls, CaptureInv, Terminate(c)
  PROVE  CaptureInv'
<1>1. CaptureTypeOK'
  BY DEF CaptureInv, CaptureTypeOK, Phases, Terminate, Fail, Goto
<1>2. HolderInv'
  BY CaptureAssumption DEF CaptureInv, CaptureTypeOK, HolderInv, Held, PurposeInv, StartPhases,
     StopPhases, ReportPhases, Terminate, Fail, Goto
<1>3. ChildInv'
  BY DEF CaptureInv, CaptureTypeOK, ChildInv, Unreaped, StartPhases, StopPhases, Terminate,
     Fail, Goto
<1>4. DirectoryInv'
  BY DEF CaptureInv, CaptureTypeOK, DirectoryInv, PurposeInv, StartPhases, StopPhases,
     ReportPhases, Terminate, Fail, Goto
<1>5. PurposeInv'
  BY DEF CaptureInv, CaptureTypeOK, PurposeInv, StartPhases, ReportPhases, Terminate, Fail, Goto
<1>6. GateInv'
  BY DEF CaptureInv, CaptureTypeOK, GateInv, ChildInv, Unreaped, Terminate, Fail, Goto
<1>7. OutputInv'
  BY SMTT(30) DEF CaptureInv, CaptureTypeOK, OutputInv, PurposeInv, StartPhases, StopPhases,
     ReportPhases, Terminate, Fail, Goto
<1> QED
  BY <1>1, <1>2, <1>3, <1>4, <1>5, <1>6, <1>7 DEF CaptureInv

LEMMA PollStep ==
  ASSUME NEW c \in Calls, CaptureInv, Poll(c)
  PROVE  CaptureInv'
<1>1. CaptureTypeOK'
  BY DEF CaptureInv, CaptureTypeOK, Phases, Poll, Fail, Goto, Reap, AfterStop
<1>2. HolderInv'
  BY CaptureAssumption DEF CaptureInv, CaptureTypeOK, HolderInv, Held, PurposeInv, StartPhases,
     StopPhases, ReportPhases, Poll, Fail, Goto, Reap, AfterStop
<1>3. ChildInv'
  BY DEF CaptureInv, CaptureTypeOK, ChildInv, Unreaped, StartPhases, StopPhases, Poll, Fail,
     Goto, Reap, AfterStop
<1>4. DirectoryInv'
  BY DEF CaptureInv, CaptureTypeOK, DirectoryInv, PurposeInv, StartPhases, StopPhases,
     ReportPhases, Poll, Fail, Goto, Reap, AfterStop
<1>5. PurposeInv'
  BY DEF CaptureInv, CaptureTypeOK, PurposeInv, StartPhases, ReportPhases, Poll, Fail, Goto,
     Reap, AfterStop
<1>6. GateInv'
  BY SMTT(30) DEF CaptureInv, CaptureTypeOK, GateInv, ChildInv, Unreaped, Poll, Fail, Goto, Reap, AfterStop
<1>7. OutputInv'
  BY SMTT(30) DEF CaptureInv, CaptureTypeOK, OutputInv, PurposeInv, StartPhases, StopPhases,
     ReportPhases, Poll, Fail, Goto, Reap, AfterStop
<1> QED
  BY <1>1, <1>2, <1>3, <1>4, <1>5, <1>6, <1>7 DEF CaptureInv

LEMMA KillStep ==
  ASSUME NEW c \in Calls, CaptureInv, Kill(c)
  PROVE  CaptureInv'
<1>1. CaptureTypeOK'
  BY DEF CaptureInv, CaptureTypeOK, Phases, Kill, Goto, Reap, AfterStop
<1>2. HolderInv'
  BY CaptureAssumption DEF CaptureInv, CaptureTypeOK, HolderInv, Held, PurposeInv, StartPhases,
     StopPhases, ReportPhases, Kill, Goto, Reap, AfterStop
<1>3. ChildInv'
  BY DEF CaptureInv, CaptureTypeOK, ChildInv, Unreaped, StartPhases, StopPhases, Kill, Goto,
     Reap, AfterStop
<1>4. DirectoryInv'
  BY DEF CaptureInv, CaptureTypeOK, DirectoryInv, PurposeInv, StartPhases, StopPhases,
     ReportPhases, Kill, Goto, Reap, AfterStop
<1>5. PurposeInv'
  BY DEF CaptureInv, CaptureTypeOK, PurposeInv, StartPhases, ReportPhases, Kill, Goto, Reap,
     AfterStop
<1>6. GateInv'
  BY DEF CaptureInv, CaptureTypeOK, GateInv, ChildInv, Unreaped, Kill, Goto, Reap, AfterStop
<1>7. OutputInv'
  BY DEF CaptureInv, CaptureTypeOK, OutputInv, PurposeInv, StartPhases, StopPhases,
     ReportPhases, Kill, Goto, Reap, AfterStop
<1> QED
  BY <1>1, <1>2, <1>3, <1>4, <1>5, <1>6, <1>7 DEF CaptureInv

LEMMA UnreserveStep ==
  ASSUME NEW c \in Calls, CaptureInv, Unreserve(c)
  PROVE  CaptureInv'
<1>1. CaptureTypeOK'
  BY DEF CaptureInv, CaptureTypeOK, Phases, Unreserve, Goto
<1>2. HolderInv'
  BY CaptureAssumption DEF CaptureInv, CaptureTypeOK, HolderInv, Held, PurposeInv, StartPhases,
     StopPhases, ReportPhases, Unreserve, Goto
<1>3. ChildInv'
  BY DEF CaptureInv, CaptureTypeOK, ChildInv, Unreaped, StartPhases, StopPhases, Unreserve, Goto
<1>4. DirectoryInv'
  BY DEF CaptureInv, CaptureTypeOK, DirectoryInv, PurposeInv, StartPhases, StopPhases,
     ReportPhases, Unreserve, Goto
<1>5. PurposeInv'
  BY DEF CaptureInv, CaptureTypeOK, PurposeInv, StartPhases, ReportPhases, Unreserve, Goto
<1>6. GateInv'
  BY DEF CaptureInv, CaptureTypeOK, GateInv, ChildInv, Unreaped, Unreserve, Goto
<1>7. OutputInv'
  BY DEF CaptureInv, CaptureTypeOK, OutputInv, PurposeInv, StartPhases, StopPhases,
     ReportPhases, Unreserve, Goto
<1> QED
  BY <1>1, <1>2, <1>3, <1>4, <1>5, <1>6, <1>7 DEF CaptureInv

LEMMA ReportStep ==
  ASSUME NEW c \in Calls, CaptureInv, Report(c)
  PROVE  CaptureInv'
<1>1. CaptureTypeOK'
  BY DEF CaptureInv, CaptureTypeOK, Phases, Report, Fail, Goto
<1>2. HolderInv'
  BY SMTT(30), CaptureAssumption DEF CaptureInv, CaptureTypeOK, HolderInv, Held, PurposeInv, StartPhases,
     StopPhases, ReportPhases, Report, Fail, Goto
<1>3. ChildInv'
  BY DEF CaptureInv, CaptureTypeOK, ChildInv, Unreaped, StartPhases, StopPhases, Report, Fail,
     Goto
<1>4. DirectoryInv'
  BY SMTT(30) DEF CaptureInv, CaptureTypeOK, DirectoryInv, PurposeInv, StartPhases, StopPhases,
     ReportPhases, Report, Fail, Goto
<1>5. PurposeInv'
  BY DEF CaptureInv, CaptureTypeOK, PurposeInv, StartPhases, ReportPhases, Report, Fail, Goto
<1>6. GateInv'
  BY DEF CaptureInv, CaptureTypeOK, GateInv, ChildInv, Unreaped, Report, Fail, Goto
<1>7. OutputInv'
  BY SMTT(30) DEF CaptureInv, CaptureTypeOK, OutputInv, PurposeInv, StartPhases, StopPhases,
     ReportPhases, Report, Fail, Goto
<1> QED
  BY <1>1, <1>2, <1>3, <1>4, <1>5, <1>6, <1>7 DEF CaptureInv

LEMMA WriteArtifactStep ==
  ASSUME NEW c \in Calls, CaptureInv, WriteArtifact(c)
  PROVE  CaptureInv'
<1>1. CaptureTypeOK'
  <2>1. phase' \in [Calls -> Phases] /\ outputs' \in [Calls -> SUBSET {"artifact", "html"}]
    BY SMTT(30) DEF CaptureInv, CaptureTypeOK, Phases, WriteArtifact, Write, Fail, Goto
  <2>2. failed' \in [Calls -> BOOLEAN]
    BY DEF CaptureInv, CaptureTypeOK, WriteArtifact, Write, Fail, Goto
  <2> QED
    BY <2>1, <2>2 DEF CaptureInv, CaptureTypeOK, WriteArtifact, Write
<1>2. HolderInv'
  BY SMTT(30), CaptureAssumption DEF CaptureInv, CaptureTypeOK, HolderInv, Held, PurposeInv, StartPhases,
     StopPhases, ReportPhases, WriteArtifact, Write, Fail, Goto
<1>3. ChildInv'
  BY DEF CaptureInv, CaptureTypeOK, ChildInv, Unreaped, StartPhases, StopPhases, WriteArtifact,
     Write, Fail, Goto
<1>4. DirectoryInv'
  BY SMTT(30) DEF CaptureInv, CaptureTypeOK, DirectoryInv, PurposeInv, StartPhases, StopPhases,
     ReportPhases, WriteArtifact, Write, Fail, Goto
<1>5. PurposeInv'
  BY DEF CaptureInv, CaptureTypeOK, PurposeInv, StartPhases, ReportPhases, WriteArtifact, Write,
     Fail, Goto
<1>6. GateInv'
  BY DEF CaptureInv, CaptureTypeOK, GateInv, ChildInv, Unreaped, WriteArtifact, Write, Fail, Goto
<1>7. OutputInv'
  BY SMTT(30) DEF CaptureInv, CaptureTypeOK, OutputInv, PurposeInv, StartPhases, StopPhases,
     ReportPhases, WriteArtifact, Write, Fail, Goto
<1> QED
  BY <1>1, <1>2, <1>3, <1>4, <1>5, <1>6, <1>7 DEF CaptureInv

LEMMA WriteHtmlStep ==
  ASSUME NEW c \in Calls, CaptureInv, WriteHtml(c)
  PROVE  CaptureInv'
<1>1. CaptureTypeOK'
  <2>1. phase' \in [Calls -> Phases] /\ outputs' \in [Calls -> SUBSET {"artifact", "html"}]
    BY SMTT(30) DEF CaptureInv, CaptureTypeOK, Phases, WriteHtml, Write, Fail, Goto
  <2>2. failed' \in [Calls -> BOOLEAN]
    BY DEF CaptureInv, CaptureTypeOK, WriteHtml, Write, Fail, Goto
  <2> QED
    BY <2>1, <2>2 DEF CaptureInv, CaptureTypeOK, WriteHtml, Write
<1>2. HolderInv'
  BY SMTT(30), CaptureAssumption DEF CaptureInv, CaptureTypeOK, HolderInv, Held, PurposeInv, StartPhases,
     StopPhases, ReportPhases, WriteHtml, Write, Fail, Goto
<1>3. ChildInv'
  BY DEF CaptureInv, CaptureTypeOK, ChildInv, Unreaped, StartPhases, StopPhases, WriteHtml,
     Write, Fail, Goto
<1>4. DirectoryInv'
  BY DEF CaptureInv, CaptureTypeOK, DirectoryInv, PurposeInv, StartPhases, StopPhases,
     ReportPhases, WriteHtml, Write, Fail, Goto
<1>5. PurposeInv'
  BY DEF CaptureInv, CaptureTypeOK, PurposeInv, StartPhases, ReportPhases, WriteHtml, Write,
     Fail, Goto
<1>6. GateInv'
  BY DEF CaptureInv, CaptureTypeOK, GateInv, ChildInv, Unreaped, WriteHtml, Write, Fail, Goto
<1>7. OutputInv'
  BY SMTT(30) DEF CaptureInv, CaptureTypeOK, OutputInv, PurposeInv, StartPhases, StopPhases,
     ReportPhases, WriteHtml, Write, Fail, Goto
<1> QED
  BY <1>1, <1>2, <1>3, <1>4, <1>5, <1>6, <1>7 DEF CaptureInv

LEMMA RemoveDirectoryStep ==
  ASSUME NEW c \in Calls, CaptureInv, RemoveDirectory(c)
  PROVE  CaptureInv'
<1>1. CaptureTypeOK'
  BY DEF CaptureInv, CaptureTypeOK, Phases, RemoveDirectory, Goto
<1>2. HolderInv'
  BY CaptureAssumption DEF CaptureInv, CaptureTypeOK, HolderInv, Held, PurposeInv, StartPhases,
     StopPhases, ReportPhases, RemoveDirectory, Goto
<1>3. ChildInv'
  BY DEF CaptureInv, CaptureTypeOK, ChildInv, Unreaped, StartPhases, StopPhases,
     RemoveDirectory, Goto
<1>4. DirectoryInv'
  BY DEF CaptureInv, CaptureTypeOK, DirectoryInv, PurposeInv, StartPhases, StopPhases,
     ReportPhases, RemoveDirectory, Goto
<1>5. PurposeInv'
  BY DEF CaptureInv, CaptureTypeOK, PurposeInv, StartPhases, ReportPhases, RemoveDirectory, Goto
<1>6. GateInv'
  BY DEF CaptureInv, CaptureTypeOK, GateInv, ChildInv, Unreaped, RemoveDirectory, Goto
<1>7. OutputInv'
  BY DEF CaptureInv, CaptureTypeOK, OutputInv, PurposeInv, StartPhases, StopPhases,
     ReportPhases, RemoveDirectory, Goto
<1> QED
  BY <1>1, <1>2, <1>3, <1>4, <1>5, <1>6, <1>7 DEF CaptureInv

LEMMA ChildReadyStep ==
  ASSUME NEW c \in Calls, CaptureInv, ChildReady(c)
  PROVE  CaptureInv'
<1>1. CaptureTypeOK'
  BY DEF CaptureInv, CaptureTypeOK, Phases, ChildReady
<1>2. HolderInv'
  BY CaptureAssumption DEF CaptureInv, CaptureTypeOK, HolderInv, Held, PurposeInv, StartPhases,
     StopPhases, ReportPhases, ChildReady
<1>3. ChildInv'
  BY DEF CaptureInv, CaptureTypeOK, ChildInv, Unreaped, StartPhases, StopPhases, ChildReady
<1>4. DirectoryInv'
  BY DEF CaptureInv, CaptureTypeOK, DirectoryInv, PurposeInv, StartPhases, StopPhases,
     ReportPhases, ChildReady
<1>5. PurposeInv'
  BY DEF CaptureInv, CaptureTypeOK, PurposeInv, StartPhases, ReportPhases, ChildReady
<1>6. GateInv'
  BY DEF CaptureInv, CaptureTypeOK, GateInv, ChildInv, Unreaped, ChildReady
<1>7. OutputInv'
  BY DEF CaptureInv, CaptureTypeOK, OutputInv, PurposeInv, StartPhases, StopPhases,
     ReportPhases, ChildReady
<1> QED
  BY <1>1, <1>2, <1>3, <1>4, <1>5, <1>6, <1>7 DEF CaptureInv

LEMMA ChildExitStep ==
  ASSUME NEW c \in Calls, CaptureInv, ChildExit(c)
  PROVE  CaptureInv'
<1>1. CaptureTypeOK'
  BY SMTT(30) DEF CaptureInv, CaptureTypeOK, Phases, ChildExit
<1>2. HolderInv'
  BY CaptureAssumption DEF CaptureInv, CaptureTypeOK, HolderInv, Held, PurposeInv, StartPhases,
     StopPhases, ReportPhases, ChildExit
<1>3. ChildInv'
  BY DEF CaptureInv, CaptureTypeOK, ChildInv, Unreaped, StartPhases, StopPhases, ChildExit
<1>4. DirectoryInv'
  BY DEF CaptureInv, CaptureTypeOK, DirectoryInv, PurposeInv, StartPhases, StopPhases,
     ReportPhases, ChildExit
<1>5. PurposeInv'
  BY DEF CaptureInv, CaptureTypeOK, PurposeInv, StartPhases, ReportPhases, ChildExit
<1>6. GateInv'
  BY DEF CaptureInv, CaptureTypeOK, GateInv, ChildInv, Unreaped, ChildExit
<1>7. OutputInv'
  BY DEF CaptureInv, CaptureTypeOK, OutputInv, PurposeInv, StartPhases, StopPhases,
     ReportPhases, ChildExit
<1> QED
  BY <1>1, <1>2, <1>3, <1>4, <1>5, <1>6, <1>7 DEF CaptureInv

LEMMA CaptureInvStep == CaptureInv /\ [CaptureNext]_captureVars => CaptureInv'
<1> SUFFICES ASSUME CaptureInv, [CaptureNext]_captureVars PROVE CaptureInv'
  OBVIOUS
<1>1. CASE UNCHANGED captureVars
  BY <1>1 DEF captureVars, CaptureInv, CaptureTypeOK, HolderInv, Held, ChildInv, Unreaped,
     DirectoryInv, PurposeInv, GateInv, OutputInv
<1>2. ASSUME NEW c \in Calls, Reserve(c) \/ Collect(c) \/ Finish(c) \/ Unwind(c) \/ CaptureStep(c)
                               \/ ChildReady(c) \/ ChildExit(c)
      PROVE  CaptureInv'
  BY <1>2, ReserveStep, CollectStep, FinishStep, UnwindStep, PrepareStep, SpawnStep,
     AuthorizeStep, ReleaseGateStep, AwaitReadyStep, EnableStep, TryWaitStep, TerminateStep,
     PollStep, KillStep, UnreserveStep, ReportStep, WriteArtifactStep, WriteHtmlStep,
     RemoveDirectoryStep, ChildReadyStep, ChildExitStep
     DEF CaptureStep
<1> QED
  BY <1>1, <1>2 DEF CaptureNext

\* The capture alone, whoever drives it.
THEOREM CaptureInvariant == CaptureSpec => []CaptureInv
BY CaptureInitStep, CaptureInvStep, PTL DEF CaptureSpec

LEMMA CaptureInvImplies ==
  CaptureInv => OneCapture /\ NothingLeft /\ SignalsOwnChild /\ GatedUntilAuthorized /\ ReportLast
<1> SUFFICES ASSUME CaptureInv
             PROVE  OneCapture /\ NothingLeft /\ SignalsOwnChild /\ GatedUntilAuthorized /\ ReportLast
  OBVIOUS
<1>1. OneCapture
  BY DEF CaptureInv, HolderInv, Held, ChildInv, DirectoryInv, OneCapture, StartPhases, StopPhases
<1>2. NothingLeft
  BY DEF CaptureInv, HolderInv, Held, ChildInv, DirectoryInv, NothingLeft, StartPhases, StopPhases
<1>3. SignalsOwnChild
  BY DEF CaptureInv, ChildInv, SignalsOwnChild
<1>4. GatedUntilAuthorized
  BY DEF CaptureInv, GateInv, GatedUntilAuthorized
<1>5. ReportLast
  BY DEF CaptureInv, OutputInv, ReportLast
<1> QED
  BY <1>1, <1>2, <1>3, <1>4, <1>5
-----------------------------------------------------------------------------
(* The threads drive the capture as its specification says. *)

LEMMA PythonStepCaptures == [Next]_vars => [CaptureNext]_captureVars
<1> SUFFICES ASSUME [Next]_vars PROVE [CaptureNext]_captureVars
  OBVIOUS
<1>1. CASE UNCHANGED vars
  BY <1>1 DEF vars, captureVars
<1>2. ASSUME NEW t \in Threads, NEW k \in Kinds, Begin(t, k)
      PROVE  UNCHANGED captureVars
  BY <1>2 DEF Begin, Jump
<1>3. ASSUME NEW t \in Threads, Step(t)
      PROVE  [CaptureNext]_captureVars
  <2> USE DEF Threads
  <2>1. CASE Mutate(t) \/ ReturnStartFailure(t) \/ Run(t) \/ Execute(t) \/ Work(t) \/ Leave(t)
             \/ ReturnProfiled(t) \/ ReturnUnwound(t)
    BY <2>1 DEF Mutate, ReturnStartFailure, Run, Execute, Work, Leave, ReturnProfiled,
       ReturnUnwound
  <2>2. CASE StartProfile(t) \/ RunPanics(t)
    BY <2>2 DEF StartProfile, RunPanics, CaptureNext
  <2>3. CASE LeaveProfile(t) \/ Capture(t) \/ Continue(t)
    BY <2>3 DEF LeaveProfile, Capture, Continue, CaptureNext
  <2> QED
    BY <1>3, <2>1, <2>2, <2>3 DEF Step
<1>4. ASSUME NEW t \in Threads, Reattach(t) \/ Yield(t) \/ Park(t) \/ ReplaceAliases(t)
      PROVE  UNCHANGED captureVars
  BY <1>4 DEF Reattach, Started, Attach, Resume, FinishProfile, Yield, Park, ReplaceAliases
<1>5. ASSUME NEW t \in Threads, WorkerEvent(t) \/ WorkerAttach(t) \/ WorkerLog(t)
      PROVE  UNCHANGED captureVars
  BY <1>5 DEF WorkerEvent, WorkerAttach, WorkerLog
<1>6. ASSUME NEW t \in Threads, Child(t)
      PROVE  CaptureNext
  BY <1>6 DEF Child, CaptureNext, Threads
<1> QED
  BY <1>1, <1>2, <1>3, <1>4, <1>5, <1>6 DEF Next

\* Whatever the threads, the workers and the interpreter do, the part of the system in
\* capture.rs behaves as TraceboxCapture.
THEOREM CallsImplementCapture == Spec => CaptureSpec
<1>1. Init => CaptureInit
  BY DEF Init
<1> QED
  BY <1>1, PythonStepCaptures, PTL DEF Spec, CaptureSpec

\* Tracebox children of one process exclude one another and write to a directory that
\* exists, for any number of threads.
THEOREM CaptureIsExclusive == Spec => []OneCapture
BY CaptureInvariant, CallsImplementCapture, CaptureInvImplies, PTL

\* No exit of start, finish or drop leaves a child, a directory or the reservation.
THEOREM CaptureLeavesNothing == Spec => []NothingLeft
BY CaptureInvariant, CallsImplementCapture, CaptureInvImplies, PTL

\* terminate_child never signals the number of a process that was waited for.
THEOREM SignalsReachOwnChild == Spec => []SignalsOwnChild
BY CaptureInvariant, CallsImplementCapture, CaptureInvImplies, PTL

\* Past its gate a child has been authorized, for any number of threads.
THEOREM ChildIsGated == Spec => []GatedUntilAuthorized
BY CaptureInvariant, CallsImplementCapture, CaptureInvImplies, PTL

\* A report at its path comes with the artifact of the same capture.
THEOREM ReportIsLast == Spec => []ReportLast
BY CaptureInvariant, CallsImplementCapture, CaptureInvImplies, PTL
-----------------------------------------------------------------------------
(* The session. *)

Borrowed == {"executing", "executed", "python", "yielded", "parked"}

CallType ==
  /\ pc \in [Threads -> Places] /\ kind \in [Threads -> Kinds]
  /\ operation \in [Threads -> {"none", "ok", "error"}] /\ result \in [Threads -> Results]
  /\ excl \in Threads \cup {NoThread} /\ shared \subseteq Threads /\ caching \subseteq Threads

\* Readers and the mutation exclude one another, and each has its borrow exactly while
\* it works on the session, which is as long as a write_all can have caches installed.
BorrowInv ==
  /\ \A t \in caching : pc[t] = "executing"
  /\ excl # NoThread => shared = {}
  /\ \A t \in Threads : /\ excl = t <=> pc[t] \in Borrowed /\ kind[t] = "mutate"
                        /\ t \in shared <=> pc[t] \in Borrowed /\ kind[t] # "mutate"

\* What the kind of a call and its place say of its results.
ResultInv ==
  \A t \in Threads :
    /\ pc[t] \in {"executing", "executed", "starting", "startFailed", "borrow", "unwinding", "finishing", "finished"} =>
         kind[t] # "mutate"
    /\ pc[t] \in {"idle", "begin", "starting", "startFailed", "borrow", "unwinding", "executing"} =>
         operation[t] = "none"
    /\ pc[t] \in {"finishing", "finished"} => result[t] \in {"ok", "error", "interrupted"}
    /\ pc[t] = "returned" /\ result[t] = "panic" => kind[t] # "mutate"
    /\ pc[t] = "returned" /\ result[t] \in {"panic", "concurrent_mutation"} => operation[t] = "none"

SessionInv == CallType /\ BorrowInv /\ ResultInv

LEMMA SessionInit == Init => SessionInv
BY SMTT(30), CaptureAssumption DEF Init, SessionInv, CallType, Kinds, Places, Results, BorrowInv, ResultInv,
   Borrowed, Threads, NoThread

LEMMA BeginSession ==
  ASSUME NEW t \in Threads, NEW k \in Kinds, SessionInv, Begin(t, k)
  PROVE  SessionInv'
<1>1. CallType'
  BY DEF SessionInv, CallType, Kinds, Places, Results, Begin, Jump
<1>2. BorrowInv'
  BY CaptureAssumption DEF SessionInv, CallType, BorrowInv, ResultInv, Borrowed, Threads,
     NoThread, Begin, Jump
<1>3. ResultInv'
  BY DEF SessionInv, CallType, ResultInv, Begin, Jump
<1> QED
  BY <1>1, <1>2, <1>3 DEF SessionInv

LEMMA MutateSession ==
  ASSUME NEW t \in Threads, SessionInv, Mutate(t)
  PROVE  SessionInv'
<1>1. CallType'
  BY DEF SessionInv, CallType, Kinds, Places, Results, Mutate, Jump, Return, BorrowsMut
<1>2. BorrowInv'
  BY SMTT(30), CaptureAssumption DEF SessionInv, CallType, BorrowInv, ResultInv, Borrowed, Threads,
     NoThread, Mutate, Jump, Return, BorrowsMut
<1>3. ResultInv'
  BY SMTT(30) DEF SessionInv, CallType, ResultInv, Mutate, Jump, Return, BorrowsMut
<1> QED
  BY <1>1, <1>2, <1>3 DEF SessionInv

LEMMA StartProfileSession ==
  ASSUME NEW t \in Threads, SessionInv, StartProfile(t)
  PROVE  SessionInv'
<1>1. CallType'
  BY DEF SessionInv, CallType, Kinds, Places, Results, StartProfile, Jump, Return
<1>2. BorrowInv'
  BY CaptureAssumption DEF SessionInv, CallType, BorrowInv, ResultInv, Borrowed, Threads,
     NoThread, StartProfile, Jump, Return
<1>3. ResultInv'
  BY SMTT(30) DEF SessionInv, CallType, ResultInv, StartProfile, Jump, Return
<1> QED
  BY <1>1, <1>2, <1>3 DEF SessionInv

LEMMA ReturnStartFailureSession ==
  ASSUME NEW t \in Threads, SessionInv, ReturnStartFailure(t)
  PROVE  SessionInv'
<1>1. CallType'
  BY DEF SessionInv, CallType, Kinds, Places, Results, ReturnStartFailure, Jump, Return
<1>2. BorrowInv'
  BY CaptureAssumption DEF SessionInv, CallType, BorrowInv, ResultInv, Borrowed, Threads,
     NoThread, ReturnStartFailure, Jump, Return
<1>3. ResultInv'
  BY DEF SessionInv, CallType, ResultInv, ReturnStartFailure, Jump, Return
<1> QED
  BY <1>1, <1>2, <1>3 DEF SessionInv

LEMMA RunSession ==
  ASSUME NEW t \in Threads, SessionInv, Run(t)
  PROVE  SessionInv'
<1>1. CallType'
  BY DEF SessionInv, CallType, Kinds, Places, Results, Run, Jump, Borrowing
<1>2. BorrowInv'
  BY CaptureAssumption DEF SessionInv, CallType, BorrowInv, ResultInv, Borrowed, Threads,
     NoThread, Run, Jump, Borrowing
<1>3. ResultInv'
  BY DEF SessionInv, CallType, ResultInv, Run, Jump, Borrowing
<1> QED
  BY <1>1, <1>2, <1>3 DEF SessionInv

LEMMA RunPanicsSession ==
  ASSUME NEW t \in Threads, SessionInv, RunPanics(t)
  PROVE  SessionInv'
<1>1. CallType'
  BY DEF SessionInv, CallType, Kinds, Places, Results, RunPanics, Jump, Return, Borrowing
<1>2. BorrowInv'
  BY CaptureAssumption DEF SessionInv, CallType, BorrowInv, ResultInv, Borrowed, Threads,
     NoThread, RunPanics, Jump, Return, Borrowing
<1>3. ResultInv'
  BY SMTT(30) DEF SessionInv, CallType, ResultInv, RunPanics, Jump, Return, Borrowing
<1> QED
  BY <1>1, <1>2, <1>3 DEF SessionInv

LEMMA ExecuteSession ==
  ASSUME NEW t \in Threads, SessionInv, Execute(t)
  PROVE  SessionInv'
<1>1. CallType'
  BY DEF SessionInv, CallType, Kinds, Places, Results, Execute, Jump
<1>2. BorrowInv'
  BY CaptureAssumption DEF SessionInv, CallType, BorrowInv, ResultInv, Borrowed, Threads,
     NoThread, Execute, Jump
<1>3. ResultInv'
  BY DEF SessionInv, CallType, ResultInv, Execute, Jump
<1> QED
  BY <1>1, <1>2, <1>3 DEF SessionInv

LEMMA WorkSession ==
  ASSUME NEW t \in Threads, SessionInv, Work(t)
  PROVE  SessionInv'
<1>1. CallType'
  BY DEF SessionInv, CallType, Kinds, Places, Results, Work
<1>2. BorrowInv'
  BY CaptureAssumption DEF SessionInv, CallType, BorrowInv, ResultInv, Borrowed, Threads,
     NoThread, Work
<1>3. ResultInv'
  BY DEF SessionInv, CallType, ResultInv, Work
<1> QED
  BY <1>1, <1>2, <1>3 DEF SessionInv

LEMMA ParkSession ==
  ASSUME NEW t \in Threads, SessionInv, Park(t)
  PROVE  SessionInv'
<1>1. CallType'
  BY DEF SessionInv, CallType, Kinds, Places, Results, Park, Jump
<1>2. BorrowInv'
  BY CaptureAssumption DEF SessionInv, CallType, BorrowInv, ResultInv, Borrowed, Threads,
     NoThread, Park, Jump
<1>3. ResultInv'
  BY DEF SessionInv, CallType, ResultInv, Park, Jump
<1> QED
  BY <1>1, <1>2, <1>3 DEF SessionInv

LEMMA ReplaceAliasesSession ==
  ASSUME NEW t \in Threads, SessionInv, ReplaceAliases(t)
  PROVE  SessionInv'
<1>1. CallType'
  BY DEF SessionInv, CallType, ReplaceAliases
<1>2. BorrowInv'
  BY DEF SessionInv, BorrowInv, ReplaceAliases
<1>3. ResultInv'
  BY DEF SessionInv, ResultInv, ReplaceAliases
<1> QED
  BY <1>1, <1>2, <1>3 DEF SessionInv

LEMMA LeaveSession ==
  ASSUME NEW t \in Threads, SessionInv, Leave(t)
  PROVE  SessionInv'
<1>1. CallType'
  BY SMTT(30) DEF SessionInv, CallType, Kinds, Places, Results, Leave, Jump, Return, Unborrow
<1>2. BorrowInv'
  BY CaptureAssumption DEF SessionInv, CallType, BorrowInv, ResultInv, Borrowed, Threads,
     NoThread, Leave, Jump, Return, Unborrow
<1>3. ResultInv'
  BY SMTT(30) DEF SessionInv, CallType, ResultInv, Leave, Jump, Return, Unborrow
<1> QED
  BY <1>1, <1>2, <1>3 DEF SessionInv

LEMMA LeaveProfileSession ==
  ASSUME NEW t \in Threads, SessionInv, LeaveProfile(t)
  PROVE  SessionInv'
<1>1. CallType'
  BY SMTT(30) DEF SessionInv, CallType, Kinds, Places, Results, LeaveProfile, Jump, Unborrow
<1>2. BorrowInv'
  BY CaptureAssumption DEF SessionInv, CallType, BorrowInv, ResultInv, Borrowed, Threads,
     NoThread, LeaveProfile, Jump, Unborrow
<1>3. ResultInv'
  BY DEF SessionInv, CallType, ResultInv, LeaveProfile, Jump, Unborrow
<1> QED
  BY <1>1, <1>2, <1>3 DEF SessionInv

LEMMA ReturnProfiledSession ==
  ASSUME NEW t \in Threads, SessionInv, ReturnProfiled(t)
  PROVE  SessionInv'
<1>1. CallType'
  BY DEF SessionInv, CallType, Kinds, Places, Results, ReturnProfiled, Jump, Return,
     CombinedResult
<1>2. BorrowInv'
  BY CaptureAssumption DEF SessionInv, CallType, BorrowInv, ResultInv, Borrowed, Threads,
     NoThread, ReturnProfiled, Jump, Return, CombinedResult
<1>3. ResultInv'
  BY DEF SessionInv, CallType, ResultInv, ReturnProfiled, Jump, Return, CombinedResult
<1> QED
  BY <1>1, <1>2, <1>3 DEF SessionInv

LEMMA ReturnUnwoundSession ==
  ASSUME NEW t \in Threads, SessionInv, ReturnUnwound(t)
  PROVE  SessionInv'
<1>1. CallType'
  BY DEF SessionInv, CallType, Kinds, Places, Results, ReturnUnwound, Jump, Return
<1>2. BorrowInv'
  BY CaptureAssumption DEF SessionInv, CallType, BorrowInv, ResultInv, Borrowed, Threads,
     NoThread, ReturnUnwound, Jump, Return
<1>3. ResultInv'
  BY DEF SessionInv, CallType, ResultInv, ReturnUnwound, Jump, Return
<1> QED
  BY <1>1, <1>2, <1>3 DEF SessionInv

LEMMA ContinueSession ==
  ASSUME NEW t \in Threads, SessionInv, Continue(t)
  PROVE  SessionInv'
<1>1. CallType'
  BY DEF SessionInv, CallType, Kinds, Places, Results, Continue, Jump
<1>2. BorrowInv'
  BY CaptureAssumption DEF SessionInv, CallType, BorrowInv, ResultInv, Borrowed, Threads,
     NoThread, Continue, Jump
<1>3. ResultInv'
  BY DEF SessionInv, CallType, ResultInv, Continue, Jump
<1> QED
  BY <1>1, <1>2, <1>3 DEF SessionInv

LEMMA StartedSession ==
  ASSUME NEW t \in Threads, SessionInv, Started(t)
  PROVE  SessionInv'
<1>1. CallType'
  BY DEF SessionInv, CallType, Kinds, Places, Results, Started, Jump
<1>2. BorrowInv'
  BY CaptureAssumption DEF SessionInv, CallType, BorrowInv, ResultInv, Borrowed, Threads,
     NoThread, Started, Jump
<1>3. ResultInv'
  BY DEF SessionInv, CallType, ResultInv, Started, Jump
<1> QED
  BY <1>1, <1>2, <1>3 DEF SessionInv

LEMMA AttachSession ==
  ASSUME NEW t \in Threads, SessionInv, Attach(t)
  PROVE  SessionInv'
<1>1. CallType'
  BY DEF SessionInv, CallType, Kinds, Places, Results, Attach, Jump
<1>2. BorrowInv'
  BY CaptureAssumption DEF SessionInv, CallType, BorrowInv, ResultInv, Borrowed, Threads,
     NoThread, Attach, Jump
<1>3. ResultInv'
  BY DEF SessionInv, CallType, ResultInv, Attach, Jump
<1> QED
  BY <1>1, <1>2, <1>3 DEF SessionInv

LEMMA ResumeSession ==
  ASSUME NEW t \in Threads, SessionInv, Resume(t)
  PROVE  SessionInv'
<1>1. CallType'
  BY DEF SessionInv, CallType, Kinds, Places, Results, Resume, Jump
<1>2. BorrowInv'
  BY CaptureAssumption DEF SessionInv, CallType, BorrowInv, ResultInv, Borrowed, Threads,
     NoThread, Resume, Jump
<1>3. ResultInv'
  BY DEF SessionInv, CallType, ResultInv, Resume, Jump
<1> QED
  BY <1>1, <1>2, <1>3 DEF SessionInv

LEMMA FinishProfileSession ==
  ASSUME NEW t \in Threads, SessionInv, FinishProfile(t)
  PROVE  SessionInv'
<1>1. CallType'
  BY DEF SessionInv, CallType, Kinds, Places, Results, FinishProfile, Jump
<1>2. BorrowInv'
  BY CaptureAssumption DEF SessionInv, CallType, BorrowInv, ResultInv, Borrowed, Threads,
     NoThread, FinishProfile, Jump
<1>3. ResultInv'
  BY DEF SessionInv, CallType, ResultInv, FinishProfile, Jump
<1> QED
  BY <1>1, <1>2, <1>3 DEF SessionInv

LEMMA YieldSession ==
  ASSUME NEW t \in Threads, SessionInv, Yield(t)
  PROVE  SessionInv'
<1>1. CallType'
  BY DEF SessionInv, CallType, Kinds, Places, Results, Yield, Jump
<1>2. BorrowInv'
  BY CaptureAssumption DEF SessionInv, CallType, BorrowInv, ResultInv, Borrowed, Threads,
     NoThread, Yield, Jump
<1>3. ResultInv'
  BY DEF SessionInv, CallType, ResultInv, Yield, Jump
<1> QED
  BY <1>1, <1>2, <1>3 DEF SessionInv

LEMMA SessionStep == SessionInv /\ [Next]_vars => SessionInv'
<1> SUFFICES ASSUME SessionInv, [Next]_vars PROVE SessionInv'
  OBVIOUS
<1>1. CASE UNCHANGED vars
  BY <1>1 DEF vars, SessionInv, CallType, BorrowInv, ResultInv
<1>2. ASSUME NEW t \in Threads, Step(t)
      PROVE  SessionInv'
  <2>1. CASE Capture(t)
    BY <2>1 DEF Capture, pythonVars, SessionInv, CallType, BorrowInv, ResultInv
  <2> QED
    BY <1>2, <2>1, MutateSession, StartProfileSession, ReturnStartFailureSession, RunSession,
       RunPanicsSession, ExecuteSession, WorkSession, LeaveSession, LeaveProfileSession,
       ReturnProfiledSession, ReturnUnwoundSession, ContinueSession
       DEF Step
<1>3. ASSUME NEW t \in Threads, Reattach(t) \/ Yield(t) \/ Park(t) \/ ReplaceAliases(t)
      PROVE  SessionInv'
  BY <1>3, StartedSession, AttachSession, ResumeSession, FinishProfileSession, YieldSession,
     ParkSession, ReplaceAliasesSession DEF Reattach
<1>4. ASSUME NEW t \in Threads, WorkerEvent(t) \/ WorkerAttach(t) \/ WorkerLog(t)
      PROVE  SessionInv'
  BY <1>4 DEF WorkerEvent, WorkerAttach, WorkerLog, SessionInv, CallType, BorrowInv, ResultInv
<1>5. ASSUME NEW t \in Threads, Child(t)
      PROVE  SessionInv'
  BY <1>5 DEF Child, pythonVars, SessionInv, CallType, BorrowInv, ResultInv
<1> QED
  BY <1>1, <1>2, <1>3, <1>4, <1>5, BeginSession DEF Next

\* Nothing is registered or derived while a write_all has caches in the place of aliases,
\* and no call returns with caches or a borrow, for any number of threads: the write_all
\* keeps its borrow for as long as it has caches, and a mutation has the session alone.
THEOREM MutationsSeeOriginals == Spec => []MutationSeesOriginals
<1>1. SessionInv => MutationSeesOriginals
  <2> SUFFICES ASSUME SessionInv, NEW t \in Threads
               PROVE  /\ (kind[t] = "mutate" /\ pc[t] \in {"python", "yielded", "parked"}) => caching = {}
                      /\ pc[t] = "returned" => t \notin caching \cup shared /\ excl # t
    BY DEF MutationSeesOriginals
  <2>1. \A u \in caching : u \in shared
    BY DEF SessionInv, CallType, BorrowInv, ResultInv, Borrowed
  <2>2. (kind[t] = "mutate" /\ pc[t] \in {"python", "yielded", "parked"}) => shared = {}
    BY CaptureAssumption DEF SessionInv, BorrowInv, Borrowed, Threads, NoThread
  <2>3. pc[t] = "returned" => t \notin caching \cup shared /\ excl # t
    BY DEF SessionInv, BorrowInv, Borrowed
  <2> QED
    BY <2>1, <2>2, <2>3
<1> QED
  BY <1>1, SessionInit, SessionStep, PTL DEF Spec

\* borrow_session_mut turns a concurrent mutation into an error, which registers nothing.
THEOREM MutationDoesNotPanic == Spec => []MutationNeverPanics
<1>1. SessionInv => MutationNeverPanics
  BY DEF SessionInv, ResultInv, MutationNeverPanics
<1> QED
  BY <1>1, SessionInit, SessionStep, PTL DEF Spec

-----------------------------------------------------------------------------
(* The result of a profiled call. *)

\* What a profiled call, its capture and its operation know of one another at each place.
ProfileOf(t) ==
  /\ pc[t] \in {"idle", "begin", "startFailed", "finished", "returned"} \/ kind[t] # "profile" => phase[t] = "idle"
  /\ pc[t] \in {"starting", "startFailed", "borrow", "finishing", "finished", "unwinding"} => kind[t] = "profile"
  /\ pc[t] = "starting" => purpose[t] = "start"
  /\ pc[t] = "borrow" \/ (pc[t] \in Borrowed /\ kind[t] = "profile") => phase[t] = "capturing"
  /\ pc[t] = "unwinding" => phase[t] \notin StartPhases /\ purpose[t] # "finish"
  /\ pc[t] = "finishing" => phase[t] # "capturing" /\ (phase[t] # "idle" => purpose[t] = "finish")
  /\ pc[t] \in {"finishing", "finished"} =>
       /\ operation[t] # "none" /\ result[t] \in {operation[t], "interrupted"}
       /\ phase[t] \in {"remove", "idle"} => failed[t] \/ "html" \in outputs[t]
  /\ pc[t] = "returned" /\ kind[t] = "profile" =>
       /\ result[t] = "ok" => operation[t] = "ok" /\ "html" \in outputs[t]
       /\ result[t] = "completed_profile_error" => operation[t] = "ok" /\ "html" \notin outputs[t]
       /\ result[t] = "profile_error" => operation[t] = "none"
       /\ operation[t] = "error" => result[t] \in {"error", "interrupted"}

ProfileInv == \A t \in Threads : ProfileOf(t)

\* All that ProfileOf looks at.
ProfileState(t) == <<pc[t], kind[t], operation[t], result[t], phase[t], purpose[t], failed[t], outputs[t]>>

LEMMA ProfileKept ==
  ASSUME NEW t \in Threads, ProfileOf(t), UNCHANGED ProfileState(t) PROVE ProfileOf(t)'
BY DEF ProfileOf, ProfileState

\* A step of one thread's capture changes nothing of another call.
LEMMA CaptureOfOne ==
  ASSUME NEW t \in Threads, NEW u \in Threads, t # u, CaptureTypeOK,
         Reserve(t) \/ Collect(t) \/ Finish(t) \/ Unwind(t) \/ CaptureStep(t)
  PROVE UNCHANGED <<phase[u], purpose[u], failed[u], outputs[u]>>
<1> USE DEF Threads
<1>1. CASE Reserve(t) \/ Collect(t) \/ Finish(t) \/ Unwind(t)
  BY <1>1 DEF Reserve, Collect, Finish, Unwind, Goto, CaptureTypeOK
<1>2. CASE Prepare(t) \/ Spawn(t) \/ Authorize(t) \/ ReleaseGate(t) \/ AwaitReady(t) \/ Enable(t)
  BY <1>2 DEF Prepare, Spawn, Authorize, ReleaseGate, AwaitReady, Enable, Fail, Goto, CaptureTypeOK
<1>3. CASE TryWait(t) \/ Terminate(t) \/ Poll(t) \/ Kill(t)
  BY <1>3 DEF TryWait, Terminate, Poll, Kill, Fail, Goto, CaptureTypeOK
<1>4. CASE Unreserve(t) \/ Report(t) \/ WriteArtifact(t) \/ WriteHtml(t) \/ RemoveDirectory(t)
  BY <1>4 DEF Unreserve, Report, WriteArtifact, WriteHtml, Write, RemoveDirectory, Fail, Goto, CaptureTypeOK
<1> QED
  BY <1>1, <1>2, <1>3, <1>4 DEF CaptureStep

LEMMA StepOfOne ==
  ASSUME NEW t \in Threads, NEW u \in Threads, t # u, SessionInv, CaptureTypeOK, Step(t)
  PROVE UNCHANGED ProfileState(u)
<1>1. CASE Mutate(t) \/ ReturnStartFailure(t) \/ Run(t) \/ Execute(t) \/ Work(t) \/ Leave(t)
           \/ ReturnProfiled(t) \/ ReturnUnwound(t)
  BY <1>1 DEF Mutate, ReturnStartFailure, Run, Execute, Work, Leave, ReturnProfiled, ReturnUnwound,
     Return, Jump, SessionInv, CallType, ProfileState, captureVars
<1>2. CASE StartProfile(t)
  BY <1>2, CaptureOfOne DEF StartProfile, Return, Jump, SessionInv, CallType, ProfileState, captureVars
<1>3. CASE RunPanics(t)
  BY <1>3, CaptureOfOne DEF RunPanics, Return, Jump, SessionInv, CallType, ProfileState, captureVars
<1>4. CASE LeaveProfile(t)
  BY <1>4, CaptureOfOne DEF LeaveProfile, Jump, SessionInv, CallType, ProfileState
<1>5. CASE Continue(t)
  BY <1>5, CaptureOfOne DEF Continue, Jump, SessionInv, CallType, ProfileState
<1>6. CASE Capture(t)
  BY <1>6, CaptureOfOne DEF Capture, pythonVars, ProfileState
<1> QED
  BY <1>1, <1>2, <1>3, <1>4, <1>5, <1>6 DEF Step

\* The capture on its way through start, finish or drop.
LEMMA CaptureProfile ==
  ASSUME NEW t \in Threads, SessionInv, CaptureInv, ProfileOf(t), Capture(t) PROVE ProfileOf(t)'
<1> USE DEF Threads
<1>1. /\ pc[t] \in {"starting", "finishing", "unwinding"}
      /\ UNCHANGED <<pc[t], kind[t], operation[t], result[t]>> /\ kind[t] = "profile"
  BY DEF Capture, pythonVars, ProfileOf
<1>2. /\ pc[t] = "starting" => purpose[t] = "start"
      /\ pc[t] = "unwinding" => phase[t] \notin StartPhases /\ purpose[t] # "finish"
      /\ pc[t] = "finishing" =>
           /\ phase[t] # "capturing" /\ (phase[t] # "idle" => purpose[t] = "finish")
           /\ operation[t] # "none" /\ result[t] \in {operation[t], "interrupted"}
           /\ phase[t] \in {"remove", "idle"} => failed[t] \/ "html" \in outputs[t]
  BY DEF ProfileOf
<1>3. CaptureTypeOK /\ PurposeInv
  BY DEF CaptureInv
<1>4. CASE Prepare(t) \/ Spawn(t) \/ Authorize(t) \/ ReleaseGate(t) \/ AwaitReady(t) \/ Enable(t)
  <2>1. pc[t] = "starting" /\ purpose'[t] = purpose[t]
    BY <1>1, <1>2, <1>3, <1>4 DEF Prepare, Spawn, Authorize, ReleaseGate, AwaitReady, Enable, PurposeInv, StartPhases
  <2> QED
    BY <1>1, <1>2, <2>1 DEF ProfileOf, Borrowed, StartPhases
<1>5. CASE TryWait(t) \/ Terminate(t) \/ Poll(t) \/ Kill(t)
  <2>1. /\ purpose'[t] = purpose[t]
        /\ phase'[t] \in StopPhases \cup {IF purpose[t] = "finish" THEN "unreserve" ELSE "remove"}
        /\ phase[t] # "idle"
    BY <1>3, <1>5 DEF TryWait, Terminate, Poll, Kill, Fail, Goto, AfterStop, StopPhases, CaptureTypeOK
  <2> QED
    BY <1>1, <1>2, <2>1 DEF ProfileOf, Borrowed, StartPhases, StopPhases
<1>6. CASE Unreserve(t)
  <2>1. /\ phase'[t] = IF purpose[t] # "finish" THEN "idle" ELSE IF failed[t] THEN "remove" ELSE "report"
        /\ purpose'[t] = IF purpose[t] = "finish" THEN "finish" ELSE "start"
        /\ UNCHANGED <<failed, outputs>> /\ phase[t] = "unreserve"
    BY <1>3, <1>6 DEF Unreserve, Goto, CaptureTypeOK
  <2> QED
    BY <1>1, <1>2, <2>1 DEF ProfileOf, Borrowed, StartPhases
<1>7. CASE Report(t) \/ WriteArtifact(t) \/ WriteHtml(t)
  <2>1. purpose[t] = "finish" /\ purpose'[t] = "finish" /\ phase[t] # "idle"
    BY <1>3, <1>7 DEF Report, WriteArtifact, WriteHtml, Write, PurposeInv, ReportPhases
  <2>2. pc[t] = "finishing"
    BY <1>1, <1>2, <2>1
  <2>3. \/ phase'[t] \in {"artifact", "html"}
        \/ phase'[t] = "remove" /\ failed'[t]
        \/ phase'[t] = "remove" /\ "html" \in outputs'[t]
    BY SMTT(30), <1>3, <1>7 DEF Report, WriteArtifact, WriteHtml, Write, Fail, Goto, CaptureTypeOK
  <2> QED
    BY <1>1, <1>2, <2>1, <2>2, <2>3 DEF ProfileOf, Borrowed, StartPhases
<1>8. CASE RemoveDirectory(t)
  <2>1. /\ phase'[t] = IF purpose[t] = "finish" THEN "idle" ELSE "unreserve"
        /\ purpose'[t] = IF purpose[t] = "finish" THEN "start" ELSE purpose[t]
        /\ UNCHANGED <<failed, outputs>> /\ phase[t] = "remove"
    BY <1>3, <1>8 DEF RemoveDirectory, Goto, CaptureTypeOK
  <2> QED
    BY <1>1, <1>2, <2>1 DEF ProfileOf, Borrowed, StartPhases
<1> QED
  BY <1>4, <1>5, <1>6, <1>7, <1>8 DEF Capture, CaptureStep

\* Steps of the call in which its capture starts or ends.
LEMMA DriveProfile ==
  ASSUME NEW t \in Threads, SessionInv, CaptureInv, ProfileOf(t),
         StartProfile(t) \/ RunPanics(t) \/ LeaveProfile(t) \/ Continue(t)
  PROVE ProfileOf(t)'
<1> USE DEF Threads
<1>1. /\ pc \in [Threads -> Places] /\ kind \in [Threads -> Kinds]
      /\ operation \in [Threads -> {"none", "ok", "error"}] /\ result \in [Threads -> Results]
  BY DEF SessionInv, CallType
<1>2. CaptureTypeOK /\ PurposeInv /\ OutputInv
  BY DEF CaptureInv
<1>3. CASE StartProfile(t)
  <2>1. phase[t] = "idle" /\ purpose[t] = "start" /\ kind[t] = "profile" /\ operation[t] = "none"
    BY <1>2, <1>3 DEF StartProfile, ProfileOf, PurposeInv, SessionInv, ResultInv
  <2>2. CASE pc' = [pc EXCEPT ![t] = "starting"] /\ Reserve(t) /\ UNCHANGED result
    BY <1>1, <1>2, <1>3, <2>1, <2>2 DEF StartProfile, Reserve, Goto, CaptureTypeOK, ProfileOf, Borrowed, StartPhases
  <2>3. CASE Return(t, "profile_error") /\ UNCHANGED captureVars
    BY <1>1, <1>3, <2>1, <2>3 DEF StartProfile, Return, Jump, captureVars, ProfileOf, Borrowed, StartPhases
  <2> QED
    BY <1>3, <2>2, <2>3 DEF StartProfile, Jump
<1>4. CASE RunPanics(t)
  <2>1. CASE kind[t] # "profile" /\ Return(t, "panic") /\ UNCHANGED captureVars
    BY <1>1, <1>4, <2>1 DEF RunPanics, Return, Jump, captureVars, ProfileOf, Borrowed, StartPhases
  <2>2. CASE kind[t] = "profile" /\ pc' = [pc EXCEPT ![t] = "unwinding"] /\ Unwind(t)
    BY <1>1, <1>2, <1>4, <2>2 DEF RunPanics, Unwind, Goto, CaptureTypeOK, ProfileOf, Borrowed, StartPhases
  <2> QED
    BY <1>4, <2>1, <2>2 DEF RunPanics, Jump
<1>5. CASE LeaveProfile(t)
  <2>1. /\ pc' = [pc EXCEPT ![t] = "finishing"] /\ kind[t] = "profile" /\ operation[t] # "none"
        /\ UNCHANGED <<kind, operation>> /\ result'[t] \in {operation[t], "interrupted"}
    BY <1>1, <1>5 DEF LeaveProfile, Jump
  <2>2. phase'[t] = "stop" /\ purpose'[t] = "finish"
    BY <1>2, <1>5 DEF LeaveProfile, Finish, Goto, CaptureTypeOK
  <2> QED
    BY <1>1, <2>1, <2>2 DEF ProfileOf, Borrowed, StartPhases
<1>6. CASE Continue(t)
  <2>1. pc' = [pc EXCEPT ![t] = "idle"] /\ kind' = [kind EXCEPT ![t] = "plan"] /\ phase[t] = "idle" /\ phase' = phase
    BY <1>6 DEF Continue, Jump, Collect
  <2> QED
    BY <1>1, <2>1 DEF ProfileOf, Borrowed, StartPhases
<1> QED
  BY <1>3, <1>4, <1>5, <1>6

\* Steps of the call that leave its capture alone.
LEMMA CallProfile ==
  ASSUME NEW t \in Threads, SessionInv, CaptureInv, ProfileOf(t),
         \/ Mutate(t) \/ ReturnStartFailure(t) \/ Run(t) \/ Execute(t) \/ Work(t) \/ Leave(t)
         \/ ReturnProfiled(t) \/ ReturnUnwound(t) \/ Reattach(t) \/ Yield(t) \/ Park(t) \/ ReplaceAliases(t)
         \/ \E k \in Kinds : Begin(t, k)
  PROVE ProfileOf(t)'
<1>1. /\ pc \in [Threads -> Places] /\ kind \in [Threads -> Kinds]
      /\ operation \in [Threads -> {"none", "ok", "error"}] /\ result \in [Threads -> Results]
  BY DEF SessionInv, CallType
<1>2. UNCHANGED <<phase, purpose, failed, outputs>>
  BY DEF Mutate, ReturnStartFailure, Run, Execute, Work, Leave, ReturnProfiled, ReturnUnwound,
     Reattach, Started, Attach, Resume, FinishProfile, Yield, Park, ReplaceAliases, Begin, captureVars
<1>3. CASE \E k \in Kinds : Begin(t, k)
  BY <1>1, <1>2, <1>3 DEF Begin, Jump, ProfileOf, Borrowed, StartPhases
<1>4. CASE Mutate(t) \/ Leave(t)
  BY <1>1, <1>2, <1>4 DEF Mutate, Leave, Return, Jump, ProfileOf, Borrowed, StartPhases
<1>5. CASE ReturnStartFailure(t) \/ ReturnUnwound(t)
  <2>1. operation[t] = "none" /\ operation' = operation
    BY <1>5 DEF ReturnStartFailure, ReturnUnwound, SessionInv, ResultInv
  <2> QED
    BY <1>1, <1>2, <1>5, <2>1 DEF ReturnStartFailure, ReturnUnwound, Return, Jump, ProfileOf, Borrowed, StartPhases
<1>6. CASE \/ Run(t) \/ Execute(t) \/ Attach(t) \/ Resume(t) \/ Yield(t) \/ Work(t) \/ Park(t)
           \/ ReplaceAliases(t)
  BY <1>1, <1>2, <1>6 DEF Run, Borrowing, Execute, Attach, Resume, Yield, Work, Park, ReplaceAliases, Jump,
     ProfileOf, Borrowed, StartPhases
<1>7. CASE Started(t) \/ FinishProfile(t)
  BY <1>1, <1>2, <1>7 DEF Started, FinishProfile, Jump, ProfileOf, Borrowed, StartPhases
<1>8. CASE ReturnProfiled(t)
  <2>1. /\ pc[t] = "finished" /\ kind[t] = "profile" /\ phase[t] = "idle" /\ operation[t] # "none"
        /\ result[t] \in {operation[t], "interrupted"} /\ (failed[t] \/ "html" \in outputs[t])
    BY <1>8 DEF ReturnProfiled, ProfileOf
  <2>2. failed[t] => "html" \notin outputs[t]
    BY DEF CaptureInv, OutputInv, Threads
  <2>3. /\ pc' = [pc EXCEPT ![t] = "returned"] /\ result'[t] = CombinedResult(t)
        /\ UNCHANGED <<kind, operation>>
    BY <1>1, <1>8 DEF ReturnProfiled, Return, Jump
  <2>4. /\ CombinedResult(t) = "ok" => operation[t] = "ok" /\ "html" \in outputs[t]
        /\ CombinedResult(t) = "completed_profile_error" => operation[t] = "ok" /\ "html" \notin outputs[t]
        /\ CombinedResult(t) # "profile_error"
        /\ operation[t] = "error" => CombinedResult(t) \in {"error", "interrupted"}
    BY <1>1, <2>1, <2>2 DEF CombinedResult
  <2> QED
    BY <1>1, <1>2, <2>1, <2>3, <2>4 DEF ProfileOf, Borrowed, StartPhases
<1> QED
  BY <1>3, <1>4, <1>5, <1>6, <1>7, <1>8 DEF Reattach

LEMMA ProfileStep == SessionInv /\ CaptureInv /\ ProfileInv /\ [Next]_vars => ProfileInv'
<1> SUFFICES ASSUME SessionInv, CaptureInv, ProfileInv, [Next]_vars, NEW u \in Threads PROVE ProfileOf(u)'
  BY DEF ProfileInv
<1>1. ProfileOf(u) /\ CaptureTypeOK
  BY DEF ProfileInv, CaptureInv
<1>2. CASE UNCHANGED vars
  BY <1>1, <1>2, ProfileKept DEF vars, captureVars, ProfileState
<1>3. ASSUME NEW t \in Threads, Step(t) PROVE ProfileOf(u)'
  <2>1. CASE t = u
    BY <1>1, <1>3, <2>1, CaptureProfile, DriveProfile, CallProfile DEF Step
  <2>2. CASE t # u
    BY <1>1, <1>3, <2>2, StepOfOne, ProfileKept
  <2> QED
    BY <2>1, <2>2
<1>4. ASSUME NEW t \in Threads,
             Reattach(t) \/ Yield(t) \/ Park(t) \/ ReplaceAliases(t) \/ \E k \in Kinds : Begin(t, k)
      PROVE ProfileOf(u)'
  <2>1. CASE t = u
    BY <1>1, <1>4, <2>1, CallProfile
  <2>2. CASE t # u
    <3>1. UNCHANGED ProfileState(u)
      BY <1>4, <2>2 DEF Reattach, Started, Attach, Resume, FinishProfile, Yield, Park, ReplaceAliases, Begin, Jump,
         SessionInv, CallType, ProfileState, captureVars
    <3> QED
      BY <1>1, <3>1, ProfileKept
  <2> QED
    BY <2>1, <2>2
<1>5. ASSUME NEW t \in Threads, WorkerEvent(t) \/ WorkerAttach(t) \/ WorkerLog(t) \/ Child(t) PROVE ProfileOf(u)'
  <2>1. UNCHANGED ProfileState(u)
    BY <1>5 DEF WorkerEvent, WorkerAttach, WorkerLog, Child, ChildReady, ChildExit, pythonVars, captureVars, ProfileState
  <2> QED
    BY <1>1, <2>1, ProfileKept
<1> QED
  BY <1>2, <1>3, <1>4, <1>5 DEF Next

\* ProfiledResult: start_ranked_profile, finish and their errors combine with those of the
\* operation as the results say, however many threads profile, mutate and plan at once.
THEOREM ProfiledCallsReport == Spec => []ProfiledResult
<1>1. Init => ProfileInv
  BY DEF Init, CaptureInit, ProfileInv, ProfileOf, Borrowed, StartPhases, Threads
<1>2. SessionInv /\ CaptureInv /\ ProfileInv => ProfiledResult
  <2> SUFFICES ASSUME SessionInv, CaptureInv, ProfileInv, NEW t \in Threads, kind[t] = "profile"
      PROVE /\ pc[t] \in {"executing", "executed", "python", "yielded"} => phase[t] = "capturing" /\ holder = t
            /\ pc[t] = "returned" =>
                 /\ result[t] = "ok" => operation[t] = "ok" /\ "html" \in outputs[t]
                 /\ result[t] = "completed_profile_error" => operation[t] = "ok" /\ "html" \notin outputs[t]
                 /\ result[t] = "profile_error" => operation[t] = "none"
                 /\ operation[t] = "error" => result[t] \in {"error", "interrupted"}
    BY DEF ProfiledResult
  <2>1. ProfileOf(t)
    BY DEF ProfileInv
  <2>2. phase[t] = "capturing" => holder = t
    BY DEF CaptureInv, HolderInv, Held, StartPhases, Threads
  <2> QED
    BY <2>1, <2>2 DEF ProfileOf, Borrowed, StartPhases
<1> QED
  BY <1>1, <1>2, ProfileStep, SessionInit, SessionStep, CaptureInvariant, CallsImplementCapture, PTL DEF Spec

-----------------------------------------------------------------------------
\* The holder of the GIL and the workers, which the invariants above do not need.
GilType == gil \in {Nobody} \cup {Caller(t) : t \in Threads} \cup {Worker(t) : t \in Threads}
WorkerType == worker \in [Threads -> {"idle", "attaching", "logging"}]

LEMMA GilStep == GilType /\ [Next]_vars => GilType'
<1> SUFFICES ASSUME GilType, [Next]_vars PROVE GilType'
  OBVIOUS
<1>1. CASE UNCHANGED vars
  BY <1>1 DEF vars, GilType
<1>2. ASSUME NEW t \in Threads, Step(t)
      PROVE  gil' \in {gil, Nobody}
  BY <1>2 DEF Step, Mutate, StartProfile, ReturnStartFailure, Run, RunPanics, Execute, Work, Leave,
     LeaveProfile, ReturnProfiled, ReturnUnwound, Capture, Continue, DropsGil, pythonVars
<1>3. ASSUME NEW t \in Threads, Reattach(t) \/ Yield(t) \/ \E k \in Kinds : Begin(t, k)
      PROVE  gil' \in {Nobody, Caller(t)}
  BY <1>3 DEF Reattach, Started, Attach, Resume, FinishProfile, Yield, Begin, TakesGil, DropsGil
<1>4. ASSUME NEW t \in Threads, \/ WorkerEvent(t) \/ WorkerAttach(t) \/ WorkerLog(t) \/ Child(t)
                                \/ Park(t) \/ ReplaceAliases(t)
      PROVE  gil' \in {gil, Nobody, Worker(t)}
  BY <1>4 DEF WorkerEvent, WorkerAttach, WorkerLog, Child, Park, ReplaceAliases, pythonVars
<1> QED
  BY <1>1, <1>2, <1>3, <1>4 DEF Next, GilType

LEMMA WorkerStep == WorkerType /\ [Next]_vars => WorkerType'
<1> SUFFICES ASSUME WorkerType, [Next]_vars PROVE WorkerType'
  OBVIOUS
<1>1. CASE UNCHANGED vars
  BY <1>1 DEF vars, WorkerType
<1>2. ASSUME NEW t \in Threads, Step(t)
      PROVE  worker' = worker
  BY <1>2 DEF Step, Mutate, StartProfile, ReturnStartFailure, Run, RunPanics, Execute, Work, Leave,
     LeaveProfile, ReturnProfiled, ReturnUnwound, Capture, Continue, pythonVars
<1>3. ASSUME NEW t \in Threads, \/ Reattach(t) \/ Yield(t) \/ Park(t) \/ ReplaceAliases(t) \/ Child(t)
                                \/ \E k \in Kinds : Begin(t, k)
      PROVE  worker' = worker
  BY <1>3 DEF Reattach, Started, Attach, Resume, FinishProfile, Yield, Park, ReplaceAliases, Begin, Child,
     pythonVars
<1>4. ASSUME NEW t \in Threads, WorkerEvent(t) \/ WorkerAttach(t) \/ WorkerLog(t)
      PROVE  WorkerType'
  BY <1>4 DEF WorkerEvent, WorkerAttach, WorkerLog, WorkerType
<1> QED
  BY <1>1, <1>2, <1>3, <1>4 DEF Next, WorkerType

\* Types of the calls and of the capture, for any number of threads.
THEOREM CallsTypeCorrect == Spec => []TypeOK
<1>1. Init => GilType /\ WorkerType
  BY DEF Init, GilType, WorkerType
<1>2. SessionInv /\ CaptureInv /\ GilType /\ WorkerType => TypeOK
  BY DEF SessionInv, CallType, BorrowInv, CaptureInv, GilType, WorkerType, TypeOK
<1> QED
  BY <1>1, <1>2, GilStep, WorkerStep, SessionInit, SessionStep, CaptureInvariant, CallsImplementCapture, PTL DEF Spec
=============================================================================
