------------------------------ MODULE MCWorkUnit ------------------------------
(* Instances of WorkUnit for TLC: one process that dies often, or several that   *)
(* make the request at the same time and die less.                               *)
EXTENDS WorkUnit

CONSTANTS First,       \* the process of a lone request
          RaceFaults   \* bound: crashes where several make it

VARIABLE lone

Calls(p) == (lone => p = First) /\ UNCHANGED lone

Goes(p) == Calls(p) /\ (Begin(p) \/ Step(p))

\* Where several make the request, writes are not torn and no bundle is asked for.
Within ==
  ~lone => /\ faults <= RaceFaults /\ action # "bundle"
           /\ \A k \in Kinds : evidence[k] # Torn
           /\ tree # "torn"

MCInit == Init /\ lone \in BOOLEAN /\ Within
MCNext ==
  \/ \E p \in Callers : Goes(p)
  \/ /\ \E p \in Callers :
          Calls(p) /\ (Crash(p) \/ CrashInWrite(p) \/ CrashInCapture(p) \/ CrashAfterRun(p))
     /\ Within'

MCSpec ==
  /\ MCInit /\ [][MCNext]_<<vars, lone>>
  /\ \A p \in Callers : WF_<<vars, lone>>(Goes(p))

\* SuccessIsReal, where one process at a time makes the request: of two, one may
\* checkpoint the tree before the command of the other has come to its end.
LoneSuccessIsReal == lone => SuccessIsReal

\* InterruptionsAreSurvived, where one process at a time makes the request: two may
\* leave each other timestamps with which neither gets past its checkpoints.
LoneInterruptionsAreSurvived == lone => InterruptionsAreSurvived

===============================================================================
