------------------------- MODULE MissionWorkersProofs -------------------------
(***************************************************************************)
(* However many workers are spawned, whatever a customer asks, whoever     *)
(* dies, and whichever stretch of execute a crash cuts.                    *)
(*                                                                         *)
(* The argument has three layers, each inductive over those below it.      *)
(*                                                                         *)
(* Typed: a process has no preview but that of the session it is at, and   *)
(* the numbers it goes by are those of recorded sessions; so the record of *)
(* a stop never names a session that was not recorded.                     *)
(*                                                                         *)
(* WorkIsKnown: unless the server lost or dropped a worker it had not seen *)
(* exit, the one that runs is the entry's, has a channel, and has left     *)
(* neither an error nor an exit in its job.  So whoever is spawned is      *)
(* alone, and as long as somebody runs the server sends a message and      *)
(* stops nothing itself.                                                   *)
(*                                                                         *)
(* PreviewsAreSafe: who is alone is at the newest session, of its own; so  *)
(* nobody records a stop of a process somebody else goes on using, and     *)
(* what is delivered is what was observed.  The mission that a dead worker *)
(* left in VERIFYING needs a clause of its own (VerifiedIsUp): who comes   *)
(* to it has no session and does nothing before it concludes.              *)
(***************************************************************************)
EXTENDS MissionWorkers, TLAPS

\* The record of a process, and of a preview.
Processes == [ run : RunPoints, control : { "none", "stop", "shutdown" }, session : Nat,
               target : Nat, certifying : BOOLEAN, inbox : Seq({ "stop", "shutdown" }),
               outbox : { "none", "completed", "failed" } ]
Session == [ by : Workers, status : SessionStatus ]

-------------------------------------------------------------------------------
(* The types.                                                              *)

LedgerTypes ==
  /\ mission \in MissionStates
  /\ generation \in { "none", "dispatched", "answered" }
  /\ verdict \in { "none", "COMPLETE", "INCOMPLETE" }
  /\ environment \in BOOLEAN /\ provisioned \in BOOLEAN
  /\ observed \in BOOLEAN /\ deleted \in BOOLEAN

PreviewTypes ==
  /\ alive \subseteq Workers \X Nat
  /\ sessions \in Seq(Session) /\ last \in 0..Len(sessions)
  /\ evidence \subseteq { "start", "stop", "isolate" } \X Nat

ProcessTypes == worker \in [Workers -> Processes]

\* A request that waits, waits for a worker.
ServerTypes ==
  /\ server \in { "up", "closing", "down" } /\ linked \subseteq Workers
  /\ active \in Workers \union { NoWorker, NoChild }
  /\ job \in [Workers -> [error : BOOLEAN, completed : BOOLEAN, exited : BOOLEAN]]
  /\ call \in [Callers -> [op : { "none", "cancel", "delete" },
                          pc : { "idle", "sending", "waiting", "answered" },
                          child : Workers \union { NoWorker }]]
  /\ \A c \in Callers : call[c].pc \in { "sending", "waiting" } => call[c].child \in Workers

HistoryTypes == faults \in 0..MaxFaults /\ forgotten \in BOOLEAN /\ cut \subseteq Nat

Types == LedgerTypes /\ PreviewTypes /\ ProcessTypes /\ ServerTypes /\ HistoryTypes

\* The session a process is at, and the one it was told to stop.
Numbered(p, recorded) ==
  /\ p.session <= recorded + 1 /\ p.target <= recorded
  /\ p.run \in { "unborn", "boot", "answering", "build", "launch", "dead" } => p.session = 0
  /\ p.run = "unborn" => p.target = 0
  /\ p.run \in { "observe", "halting", "health", "idle", "stopping" }
       => p.session <= recorded

NumbersAre == \A w \in Workers : Numbered(worker[w], Len(sessions))

\* A process that runs has no preview but that of the session it is at, and none once it
\* killed that.
PreviewsAreOwn ==
  \A w \in Workers : \A n \in Nat :
    ~At(w, "dead") /\ <<w, n>> \in alive =>
      n = worker[w].session /\ n # 0 /\ worker[w].run \notin { "halting", "stopping" }

Typed == Types /\ NumbersAre /\ PreviewsAreOwn

-------------------------------------------------------------------------------

LEMMA TypesSuffice == ASSUME Types PROVE TypeOK
<1>1. sessions \in Seq([by : Workers, status : SessionStatus])
  BY DEF Types, PreviewTypes, Session
<1>2. \A w \in Workers : /\ worker[w].run \in RunPoints
                         /\ worker[w].control \in { "none", "stop", "shutdown" }
                         /\ worker[w].outbox \in { "none", "completed", "failed" }
  BY DEF Types, ProcessTypes, Processes
<1> QED
  BY <1>1, <1>2 DEF Types, TypeOK, LedgerTypes, PreviewTypes, ServerTypes, HistoryTypes

LEMMA InitTyped == ASSUME Init PROVE Typed
<1> USE DEF Init
<1>1. LedgerTypes
  BY DEF LedgerTypes, MissionStates, ActiveStates
<1>2. PreviewTypes
  BY DEF PreviewTypes, PreviewInit
<1>3. ProcessTypes
  BY DEF ProcessTypes, Processes, Unborn, RunPoints
<1>4. ServerTypes
  BY DEF ServerTypes, NewJob
<1>5. HistoryTypes
  <2>1. 0 \in 0..MaxFaults
    BY WorkersAssumption
  <2> QED
    BY <2>1 DEF HistoryTypes
<1>6. NumbersAre
  BY DEF NumbersAre, Numbered, Unborn, PreviewInit
<1>7. PreviewsAreOwn
  BY DEF PreviewsAreOwn, PreviewInit
<1> QED
  BY <1>1, <1>2, <1>3, <1>4, <1>5, <1>6, <1>7 DEF Typed, Types

-------------------------------------------------------------------------------
(* What a worker does.  Most steps leave the previews alone and change the *)
(* point of one process.                                                   *)

\* The other processes are as they were; w is p.
Becomes(w, p) == worker' = [worker EXCEPT ![w] = p]

Moved(w, point) == [worker[w] EXCEPT !.run = point]
Gone(sent) == [Unborn EXCEPT !.run = "dead", !.outbox = sent]

LEMMA GotoBecomes ==
  ASSUME ProcessTypes, NEW w \in Workers, NEW point \in RunPoints, Goto(w, point)
  PROVE  Becomes(w, Moved(w, point)) /\ Moved(w, point) \in Processes
BY DEF ProcessTypes, Processes, Goto, Becomes, Moved

LEMMA GoneIs ==
  ASSUME NEW sent \in { "none", "completed", "failed" }
  PROVE  /\ Gone(sent) \in Processes /\ Gone(sent).run = "dead" /\ Gone(sent).outbox = sent
         /\ Gone(sent).session = 0 /\ Gone(sent).target = 0 /\ Gone(sent).control = "none"
<1>1. Unborn \in Processes /\ "dead" \in RunPoints
  BY DEF Unborn, Processes, RunPoints
<1>2. Unborn.session = 0 /\ Unborn.target = 0 /\ Unborn.control = "none"
  BY DEF Unborn
<1> QED
  BY <1>1, <1>2 DEF Gone, Processes

LEMMA ExitBecomes ==
  ASSUME NEW w \in Workers, NEW sent \in { "none", "completed", "failed" }, Exit(w, sent)
  PROVE  Becomes(w, Gone(sent)) /\ Gone(sent) \in Processes
BY GoneIs DEF Exit, Becomes, Gone

\* One process changes; the sessions may become more, and no other process gets a preview.
LEMMA OneChanges ==
  ASSUME Typed, NEW w \in Workers, NEW p \in Processes, Becomes(w, p),
         PreviewTypes', Len(sessions) <= Len(sessions'),
         Numbered(p, Len(sessions')),
         \A x \in Workers \ {w} : \A n \in Nat : <<x, n>> \in alive' => <<x, n>> \in alive,
         \A n \in Nat : p.run # "dead" /\ <<w, n>> \in alive' =>
           n = p.session /\ n # 0 /\ p.run \notin { "halting", "stopping" }
  PROVE  ProcessTypes' /\ NumbersAre' /\ PreviewsAreOwn'
<1>1. worker \in [Workers -> Processes]
  BY DEF Typed, Types, ProcessTypes
<1>2. worker' \in [Workers -> Processes] /\ worker'[w] = p
  BY <1>1 DEF Becomes
<1>3. \A x \in Workers \ {w} : worker'[x] = worker[x]
  BY <1>1 DEF Becomes
<1>4. Len(sessions) \in Nat /\ Len(sessions') \in Nat
  BY DEF Typed, Types, PreviewTypes
<1>5. ASSUME NEW x \in Workers PROVE Numbered(worker'[x], Len(sessions'))
  <2>1. CASE x = w
    BY <2>1, <1>2
  <2>2. CASE x # w
    <3>1. Numbered(worker[x], Len(sessions)) /\ worker[x] \in Processes
      BY <1>1 DEF Typed, NumbersAre
    <3>2. worker'[x] = worker[x]
      BY <2>2, <1>3
    <3> QED
      BY <3>1, <3>2, <1>4 DEF Numbered, Processes
  <2> QED
    BY <2>1, <2>2
<1>6. ASSUME NEW x \in Workers, NEW n \in Nat, worker'[x].run # "dead", <<x, n>> \in alive'
      PROVE  n = worker'[x].session /\ n # 0 /\ worker'[x].run \notin { "halting", "stopping" }
  <2>1. CASE x = w
    BY <2>1, <1>2, <1>6
  <2>2. CASE x # w
    BY <2>2, <1>3, <1>6 DEF Typed, PreviewsAreOwn, At
  <2> QED
    BY <2>1, <2>2
<1> QED
  BY <1>2, <1>5, <1>6 DEF ProcessTypes, NumbersAre, PreviewsAreOwn, At

\* The process moves on, with the session it is at; the previews are as they were.
LEMMA MoveIsTyped ==
  ASSUME Typed, NEW w \in Workers, NEW point \in RunPoints, Goto(w, point),
         UNCHANGED previewVars, ~At(w, "dead"),
         point \notin { "unborn", "halting", "stopping", "dead" },
         point \in { "boot", "answering", "build", "launch", "observe", "health", "idle" }
           => worker[w].run \in { "unborn", "boot", "answering", "build", "launch" }
  PROVE  ProcessTypes' /\ NumbersAre' /\ PreviewsAreOwn'
<1>1. ProcessTypes /\ PreviewTypes
  BY DEF Typed, Types
<1>2. PICK p \in Processes : p = Moved(w, point) /\ Becomes(w, p)
  BY <1>1, GotoBecomes
<1>3. p.run = point /\ p.session = worker[w].session /\ p.target = worker[w].target
  BY <1>1, <1>2 DEF Moved, ProcessTypes, Processes
<1>4. Numbered(worker[w], Len(sessions)) /\ worker[w] \in Processes /\ Len(sessions) \in Nat
  BY <1>1 DEF Typed, NumbersAre, ProcessTypes, PreviewTypes
<1>5. Numbered(p, Len(sessions))
  BY <1>3, <1>4 DEF Numbered, Processes
<1>6. sessions' = sessions /\ alive' = alive /\ last' = last /\ evidence' = evidence
  BY DEF previewVars
<1>7. PreviewTypes'
  BY <1>1, <1>6 DEF PreviewTypes
<1>8. \A n \in Nat : <<w, n>> \in alive => n = worker[w].session /\ n # 0
  BY DEF Typed, PreviewsAreOwn, At
<1>9. \A n \in Nat : p.run # "dead" /\ <<w, n>> \in alive' =>
        n = p.session /\ n # 0 /\ p.run \notin { "halting", "stopping" }
  BY <1>3, <1>6, <1>8
<1>10. Numbered(p, Len(sessions'))
  BY <1>5, <1>6
<1>11. Len(sessions) <= Len(sessions')
  BY <1>4, <1>6
<1>12. \A x \in Workers \ {w} : \A n \in Nat : <<x, n>> \in alive' => <<x, n>> \in alive
  BY <1>6
<1> QED
  BY <1>2, <1>7, <1>9, <1>10, <1>11, <1>12, OneChanges

\* The process ends; no preview is spawned.
LEMMA ExitIsTyped ==
  ASSUME Typed, NEW w \in Workers, NEW sent \in { "none", "completed", "failed" },
         Exit(w, sent), PreviewTypes', Len(sessions) <= Len(sessions'), alive' \subseteq alive
  PROVE  ProcessTypes' /\ NumbersAre' /\ PreviewsAreOwn'
<1>1. PICK p \in Processes : p = Gone(sent) /\ Becomes(w, p)
  BY ExitBecomes
<1>2. p.run = "dead" /\ p.session = 0 /\ p.target = 0
  BY <1>1, GoneIs
<1>3. Len(sessions') \in Nat
  BY DEF PreviewTypes
<1>4. Numbered(p, Len(sessions'))
  BY <1>2, <1>3 DEF Numbered
<1> QED
  BY <1>1, <1>2, <1>4, OneChanges

LEMMA StatusIsSet ==
  ASSUME NEW s \in Seq(Session), NEW n \in Nat, NEW st \in SessionStatus
  PROVE  /\ [s EXCEPT ![n].status = st] \in Seq(Session)
         /\ Len([s EXCEPT ![n].status = st]) = Len(s)
<1> DEFINE t == [s EXCEPT ![n].status = st]
<1>1. Len(s) \in Nat /\ DOMAIN s = 1..Len(s) /\ s \in [1..Len(s) -> Session]
  OBVIOUS
<1>2. t \in [1..Len(s) -> Session]
  BY <1>1 DEF Session
<1>3. t \in Seq(Session) /\ Len(t) = Len(s)
  BY <1>1, <1>2
<1> QED
  BY <1>3

\* A stop is recorded, or its evidence is a duplicate.
LEMMA StopIsTyped ==
  ASSUME PreviewTypes, NEW n \in 0..Len(sessions), FixedStop(n), alive' \subseteq alive
  PROVE  PreviewTypes' /\ Len(sessions') = Len(sessions)
<1>1. n \in Nat /\ Len(sessions) \in Nat
  BY DEF PreviewTypes
<1>2. CASE StopIsDuplicate(n)
  BY <1>2 DEF FixedStop, PreviewTypes
<1>3. CASE ~StopIsDuplicate(n)
  <2>1. /\ sessions' = [sessions EXCEPT ![n].status = "stopped"] /\ last' = n
        /\ evidence' = evidence \union { <<"stop", n>> }
    BY <1>3 DEF FixedStop, StopRecorded
  <2>2. sessions' \in Seq(Session) /\ Len(sessions') = Len(sessions)
    BY <1>1, <2>1, StatusIsSet DEF PreviewTypes, SessionStatus
  <2> QED
    BY <1>1, <2>1, <2>2 DEF PreviewTypes
<1> QED
  BY <1>2, <1>3

LEMMA StopLastIsTyped ==
  ASSUME PreviewTypes, StopLast
  PROVE  PreviewTypes' /\ Len(sessions') = Len(sessions) /\ alive' \subseteq alive
<1>1. CASE ToStop = {}
  BY <1>1 DEF StopLast, previewVars, PreviewTypes
<1>2. CASE ToStop # {}
  <2>1. alive' \subseteq alive /\ FixedStop(last)
    BY <1>2 DEF StopLast, Killed
  <2>2. last \in 0..Len(sessions)
    BY DEF PreviewTypes
  <2> QED
    BY <2>1, <2>2, StopIsTyped
<1> QED
  BY <1>1, <1>2

LEMMA StopAtOnceIsTyped ==
  ASSUME PreviewTypes, LedgerTypes, NEW op, StopAtOnce(op)
  PROVE  /\ PreviewTypes' /\ Len(sessions') = Len(sessions) /\ alive' \subseteq alive
         /\ mission' \in MissionStates
<1>1. CASE NothingToStop(op)
  BY <1>1 DEF StopAtOnce, previewVars, PreviewTypes, LedgerTypes
<1>2. CASE ~NothingToStop(op)
  <2>1. StopLast /\ mission' \in { mission, "CANCELLED" }
    BY <1>2 DEF StopAtOnce, Cancelled
  <2> QED
    BY <2>1, StopLastIsTyped DEF LedgerTypes, MissionStates, TerminalStates
<1> QED
  BY <1>1, <1>2

LEMMA MarkedIsTyped ==
  ASSUME LedgerTypes, MarkFailed PROVE mission' \in MissionStates
BY DEF LedgerTypes, MarkFailed, MissionStates, TerminalStates

LEMMA CancelledIsTyped ==
  ASSUME LedgerTypes, NEW op, NEW threw, Cancelled(op, threw) PROVE mission' \in MissionStates
BY DEF LedgerTypes, Cancelled, MissionStates, TerminalStates

\* No process changes but by what is in its inbox, and no preview is spawned.
LEMMA QuietIsTyped ==
  ASSUME Typed, PreviewTypes', Len(sessions') = Len(sessions), alive' \subseteq alive,
         ProcessTypes',
         \A w \in Workers : /\ worker'[w].run = worker[w].run
                            /\ worker'[w].session = worker[w].session
                            /\ worker'[w].target = worker[w].target
  PROVE  NumbersAre' /\ PreviewsAreOwn'
<1>1. NumbersAre'
  BY DEF Typed, NumbersAre, Numbered
<1>2. PreviewsAreOwn'
  BY DEF Typed, PreviewsAreOwn, At
<1> QED
  BY <1>1, <1>2

\* What is put into an inbox.
LEMMA InboxIsTyped ==
  ASSUME Typed, NEW w \in Workers, NEW q \in Seq({ "stop", "shutdown" }),
         worker' = [worker EXCEPT ![w].inbox = q]
  PROVE  /\ ProcessTypes'
         /\ \A x \in Workers : /\ worker'[x].run = worker[x].run
                               /\ worker'[x].session = worker[x].session
                               /\ worker'[x].target = worker[x].target
                               /\ worker'[x].control = worker[x].control
                               /\ worker'[x].outbox = worker[x].outbox
                               /\ worker'[x].certifying = worker[x].certifying
<1>1. worker \in [Workers -> Processes]
  BY DEF Typed, Types, ProcessTypes
<1> QED
  BY <1>1 DEF ProcessTypes, Processes

-------------------------------------------------------------------------------
(* Each step keeps the types.                                              *)

LEMMA ServerUntouched ==
  ASSUME ServerTypes, UNCHANGED serverVars PROVE ServerTypes'
BY DEF ServerTypes, serverVars

LEMMA RequestGoes ==
  ASSUME LedgerTypes, NEW w \in Workers, Request(w)
  PROVE  /\ generation' \in { "none", "dispatched", "answered" }
         /\ \E point \in { "build", "answering" } : Goto(w, point)
BY DEF LedgerTypes, Request

\* The conclusion of a run: the process is idle, or gone.
LEMMA ConcludeIsTyped ==
  ASSUME Typed, NEW w \in Workers, worker[w].run \in { "boot", "health" }, Conclude(w),
         PreviewTypes', Len(sessions') = Len(sessions), alive' \subseteq alive
  PROVE  /\ ProcessTypes' /\ NumbersAre' /\ PreviewsAreOwn'
         /\ mission' \in MissionStates /\ verdict' \in { "COMPLETE", "INCOMPLETE" }
<1>1. mission' \in MissionStates /\ verdict' \in { "COMPLETE", "INCOMPLETE" }
  BY DEF Conclude, MissionStates, ActiveStates, TerminalStates
<1>2. Len(sessions) \in Nat
  BY DEF Typed, Types, PreviewTypes
<1>3. CASE w \in linked
  <2>1. worker' = [worker EXCEPT ![w].run = "idle", ![w].outbox = "completed"]
    BY <1>3 DEF Conclude
  <2>2. worker \in [Workers -> Processes]
    BY DEF Typed, Types, ProcessTypes
  <2>3. PICK p \in Processes : p = [worker[w] EXCEPT !.run = "idle", !.outbox = "completed"]
    BY <2>2 DEF Processes, RunPoints, Awaiting
  <2>4. p.run = "idle" /\ p.session = worker[w].session /\ p.target = worker[w].target
    BY <2>2, <2>3 DEF Processes
  <2>5. Becomes(w, p)
    BY <2>1, <2>2, <2>3 DEF Becomes
  <2>6. Numbered(worker[w], Len(sessions)) /\ worker[w] \in Processes
    BY <2>2 DEF Typed, NumbersAre
  <2>7. Numbered(p, Len(sessions'))
    BY <1>2, <2>4, <2>6 DEF Numbered, Processes
  <2>8. \A n \in Nat : <<w, n>> \in alive => n = worker[w].session /\ n # 0
    BY DEF Typed, PreviewsAreOwn, At
  <2>9. \A n \in Nat : p.run # "dead" /\ <<w, n>> \in alive' =>
          n = p.session /\ n # 0 /\ p.run \notin { "halting", "stopping" }
    BY <2>4, <2>8
  <2>10. ProcessTypes' /\ NumbersAre' /\ PreviewsAreOwn'
    BY <1>2, <2>5, <2>7, <2>9, OneChanges
  <2> QED
    BY <1>1, <2>10
<1>4. CASE w \notin linked
  <2>1. Exit(w, "none")
    BY <1>4 DEF Conclude
  <2>2. ProcessTypes' /\ NumbersAre' /\ PreviewsAreOwn'
    BY <1>2, <2>1, ExitIsTyped
  <2> QED
    BY <1>1, <2>2
<1> QED
  BY <1>3, <1>4

LEMMA BootIsTyped ==
  ASSUME Typed, NEW w \in Workers, BootFresh(w) \/ BootVerify(w) \/ BootThrows(w)
  PROVE  Typed'
<1> USE DEF Typed, Types
<1>1. CASE BootFresh(w)
  <2>1. UNCHANGED previewVars /\ UNCHANGED serverVars /\ UNCHANGED historyVars /\ At(w, "boot")
    BY <1>1 DEF BootFresh
  <2>2. PICK point \in { "build", "answering" } : Goto(w, point)
    BY <1>1, RequestGoes DEF BootFresh
  <2>3. ProcessTypes' /\ NumbersAre' /\ PreviewsAreOwn'
    BY <2>1, <2>2, MoveIsTyped DEF At, RunPoints, Awaiting
  <2>4. LedgerTypes'
    BY <1>1, RequestGoes DEF BootFresh, LedgerTypes, MissionStates, ActiveStates
  <2>5. PreviewTypes' /\ ServerTypes' /\ HistoryTypes'
    BY <2>1, ServerUntouched DEF PreviewTypes, previewVars, HistoryTypes, historyVars
  <2> QED
    BY <2>3, <2>4, <2>5
<1>2. CASE BootVerify(w)
  <2>1. UNCHANGED previewVars /\ UNCHANGED serverVars /\ UNCHANGED historyVars /\ At(w, "boot")
    BY <1>2 DEF BootVerify
  <2>2. PreviewTypes' /\ ServerTypes' /\ HistoryTypes'
    BY <2>1, ServerUntouched DEF PreviewTypes, previewVars, HistoryTypes, historyVars
  <2>3. Len(sessions') = Len(sessions) /\ alive' \subseteq alive
    BY <2>1 DEF previewVars
  <2>4. /\ ProcessTypes' /\ NumbersAre' /\ PreviewsAreOwn'
        /\ mission' \in MissionStates /\ verdict' \in { "COMPLETE", "INCOMPLETE" }
    BY <1>2, <2>1, <2>2, <2>3, ConcludeIsTyped DEF BootVerify, At
  <2>5. LedgerTypes'
    BY <1>2, <2>4 DEF BootVerify, LedgerTypes
  <2> QED
    BY <2>2, <2>4, <2>5
<1>3. CASE BootThrows(w)
  <2>1. /\ UNCHANGED previewVars /\ UNCHANGED serverVars /\ UNCHANGED historyVars
        /\ UNCHANGED ledgerVars /\ At(w, "boot") /\ Goto(w, "failing")
    BY <1>3 DEF BootThrows
  <2>2. ProcessTypes' /\ NumbersAre' /\ PreviewsAreOwn'
    BY <2>1, MoveIsTyped DEF At, RunPoints
  <2>3. LedgerTypes'
    BY <2>1 DEF LedgerTypes, ledgerVars
  <2>4. PreviewTypes' /\ ServerTypes' /\ HistoryTypes'
    BY <2>1, ServerUntouched DEF PreviewTypes, previewVars, HistoryTypes, historyVars
  <2> QED
    BY <2>2, <2>3, <2>4
<1> QED
  BY <1>1, <1>2, <1>3

LEMMA ResumeIsTyped ==
  ASSUME Typed, NEW w \in Workers, BootResume(w)
  PROVE  Typed'
<1> USE DEF Typed, Types
<1>1. UNCHANGED serverVars /\ UNCHANGED historyVars /\ At(w, "boot")
  BY DEF BootResume
<1>2. LedgerTypes'
  BY RequestGoes DEF BootResume, LedgerTypes
<1>3. ServerTypes' /\ HistoryTypes'
  BY <1>1, ServerUntouched DEF HistoryTypes, historyVars
<1>4. PICK point \in { "build", "answering" } : Goto(w, point)
  BY RequestGoes DEF BootResume
<1>5. PreviewTypes' /\ Len(sessions') = Len(sessions) /\ alive' \subseteq alive
  <2>1. CASE observed /\ OpenSessions # {}
    <3>1. /\ alive' = alive \ { Pid(n) : n \in OpenSessions }
          /\ evidence' = evidence \union { <<"isolate", n>> : n \in OpenSessions }
          /\ sessions' = [n \in DOMAIN sessions |-> [sessions[n] EXCEPT !.status = "stopped"]]
          /\ last' \in OpenSessions
      BY <2>1 DEF BootResume
    <3>2. Len(sessions) \in Nat /\ DOMAIN sessions = 1..Len(sessions)
          /\ \A n \in DOMAIN sessions : sessions[n] \in Session
      BY DEF PreviewTypes
    <3>3. sessions' \in [1..Len(sessions) -> Session]
      BY <3>1, <3>2 DEF Session, SessionStatus
    <3>4. sessions' \in Seq(Session) /\ Len(sessions') = Len(sessions)
      BY <3>2, <3>3
    <3>5. last' \in 1..Len(sessions)
      BY <3>1, <3>2 DEF OpenSessions
    <3>6. evidence' \subseteq { "start", "stop", "isolate" } \X Nat
      BY <3>1, <3>2 DEF OpenSessions, PreviewTypes
    <3> QED
      BY <3>1, <3>2, <3>4, <3>5, <3>6 DEF PreviewTypes
  <2>2. CASE ~(observed /\ OpenSessions # {})
    <3>1. UNCHANGED previewVars
      BY <2>2 DEF BootResume
    <3> QED
      BY <3>1 DEF previewVars, PreviewTypes
  <2> QED
    BY <2>1, <2>2
<1>6. ProcessTypes' /\ NumbersAre' /\ PreviewsAreOwn'
  <2>1. PICK p \in Processes : p = Moved(w, point) /\ Becomes(w, p)
    BY <1>4, GotoBecomes DEF RunPoints, Awaiting
  <2>2. p.run = point /\ p.session = worker[w].session /\ p.target = worker[w].target
    BY <2>1 DEF Moved, ProcessTypes, Processes
  <2>3. Numbered(worker[w], Len(sessions)) /\ worker[w] \in Processes /\ Len(sessions) \in Nat
    BY DEF NumbersAre, ProcessTypes, PreviewTypes
  <2>4. Numbered(p, Len(sessions'))
    BY <1>1, <1>5, <2>2, <2>3 DEF Numbered, Processes, At
  <2>5. \A n \in Nat : <<w, n>> \in alive => n = worker[w].session /\ n # 0
    BY <1>1 DEF PreviewsAreOwn, At
  <2>6. \A n \in Nat : p.run # "dead" /\ <<w, n>> \in alive' =>
          n = p.session /\ n # 0 /\ p.run \notin { "halting", "stopping" }
    BY <1>5, <2>2, <2>5
  <2>7. Len(sessions) <= Len(sessions')
    BY <1>5, <2>3
  <2> QED
    BY <1>5, <2>1, <2>4, <2>6, <2>7, OneChanges
<1> QED
  BY <1>2, <1>3, <1>5, <1>6

LEMMA PlainMoveIsTyped ==
  ASSUME Typed, NEW w \in Workers, Answer(w) \/ Build(w) \/ Throw(w)
  PROVE  Typed'
<1> USE DEF Typed, Types
<1>1. /\ UNCHANGED previewVars /\ UNCHANGED serverVars /\ UNCHANGED historyVars
      /\ PreviewTypes' /\ ServerTypes' /\ HistoryTypes'
  <2>1. UNCHANGED previewVars /\ UNCHANGED serverVars /\ UNCHANGED historyVars
    BY DEF Answer, Build, Throw
  <2> QED
    BY <2>1, ServerUntouched DEF PreviewTypes, previewVars, HistoryTypes, historyVars
<1>2. LedgerTypes'
  BY DEF Answer, Build, Throw, Transition, LedgerTypes, ledgerVars, MissionStates, TerminalStates
<1>3. PICK point \in { "build", "launch", "failing" } :
        /\ Goto(w, point)
        /\ point = "failing" \/ worker[w].run \in { "answering", "build" }
        /\ ~At(w, "dead")
  BY DEF Answer, Build, Throw, At
<1>4. ProcessTypes' /\ NumbersAre' /\ PreviewsAreOwn'
  BY <1>1, <1>3, MoveIsTyped DEF RunPoints, Awaiting
<1> QED
  BY <1>1, <1>2, <1>4

LEMMA LaunchIsTyped ==
  ASSUME Typed, NEW w \in Workers, Launch(w)
  PROVE  Typed'
<1> USE DEF Typed, Types
<1>1. /\ At(w, "launch") /\ Spawn(w) /\ UNCHANGED <<ledgerVars, serverVars, historyVars>>
      /\ worker' = [worker EXCEPT ![w].run = "probing", ![w].session = NextSession]
  BY DEF Launch
<1>2. LedgerTypes' /\ ServerTypes' /\ HistoryTypes'
  BY <1>1, ServerUntouched DEF LedgerTypes, ledgerVars, HistoryTypes, historyVars
<1>3. Len(sessions) \in Nat /\ worker \in [Workers -> Processes]
  BY DEF PreviewTypes, ProcessTypes
<1>4. /\ alive' = alive \union { <<w, NextSession>> }
      /\ sessions' = sessions /\ last' = last /\ evidence' = evidence
  BY <1>1 DEF Spawn
<1>5. PreviewTypes'
  BY <1>3, <1>4 DEF PreviewTypes, NextSession
<1>6. PICK p \in Processes : p = [worker[w] EXCEPT !.run = "probing", !.session = NextSession]
  <2>1. NextSession \in Nat
    BY <1>3 DEF NextSession
  <2> QED
    BY <1>3, <2>1 DEF Processes, RunPoints, Awaiting
<1>7. Becomes(w, p)
  BY <1>1, <1>3, <1>6 DEF Becomes
<1>8. p.run = "probing" /\ p.session = Len(sessions) + 1 /\ p.target = worker[w].target
  BY <1>3, <1>6 DEF Processes, NextSession
<1>9. Numbered(worker[w], Len(sessions)) /\ worker[w] \in Processes
  BY <1>3 DEF NumbersAre
<1>10. Numbered(p, Len(sessions'))
  BY <1>3, <1>4, <1>8, <1>9 DEF Numbered, Processes
<1>11. \A n \in Nat : <<w, n>> \notin alive
  BY <1>1, <1>9 DEF PreviewsAreOwn, At, Numbered
<1>12. \A n \in Nat : p.run # "dead" /\ <<w, n>> \in alive' =>
         n = p.session /\ n # 0 /\ p.run \notin { "halting", "stopping" }
  BY <1>3, <1>4, <1>8, <1>11 DEF NextSession
<1>13. \A x \in Workers \ {w} : \A n \in Nat : <<x, n>> \in alive' => <<x, n>> \in alive
  BY <1>4
<1>14. Len(sessions) <= Len(sessions')
  BY <1>3, <1>4
<1> QED
  BY <1>2, <1>5, <1>7, <1>10, <1>12, <1>13, <1>14, OneChanges

\* A session is recorded.
LEMMA StartIsTyped ==
  ASSUME PreviewTypes, NEW w \in Workers, NEW n \in Nat, NEW ready \in BOOLEAN,
         n = Len(sessions) + 1, Started(w, n, ready)
  PROVE  /\ PreviewTypes' /\ Len(sessions') = n /\ alive' \subseteq alive
         /\ \A i \in 1..Len(sessions) : sessions'[i] = sessions[i]
         /\ sessions'[n] = [by |-> w, status |-> IF ready THEN "up" ELSE "failed"]
<1> DEFINE s == [by |-> w, status |-> IF ready THEN "up" ELSE "failed"]
<1>1. s \in Session
  BY DEF Session, SessionStatus
<1>2. /\ sessions' = Append(sessions, s) /\ last' = n /\ alive' \subseteq alive
      /\ evidence' = evidence \union { <<"start", n>> }
  BY DEF Started
<1> HIDE DEF s
<1>3. /\ sessions' \in Seq(Session) /\ Len(sessions') = n /\ sessions'[n] = s
      /\ \A i \in 1..Len(sessions) : sessions'[i] = sessions[i]
  BY <1>1, <1>2 DEF PreviewTypes
<1>4. last' \in 0..Len(sessions') /\ evidence' \subseteq { "start", "stop", "isolate" } \X Nat
  BY <1>2, <1>3 DEF PreviewTypes
<1>5. PreviewTypes'
  BY <1>2, <1>3, <1>4 DEF PreviewTypes
<1> QED
  BY <1>2, <1>3, <1>5 DEF s

LEMMA ProbeIsTyped ==
  ASSUME Typed, NEW w \in Workers, Probe(w)
  PROVE  Typed'
<1> USE DEF Typed, Types
<1> DEFINE n == worker[w].session
<1>1. At(w, "probing") /\ UNCHANGED <<ledgerVars, serverVars, historyVars>>
  BY DEF Probe
<1>2. LedgerTypes' /\ ServerTypes' /\ HistoryTypes'
  BY <1>1, ServerUntouched DEF LedgerTypes, ledgerVars, HistoryTypes, historyVars
<1>3. /\ Len(sessions) \in Nat /\ worker \in [Workers -> Processes] /\ n \in Nat
      /\ Numbered(worker[w], Len(sessions)) /\ worker[w] \in Processes
  BY DEF PreviewTypes, ProcessTypes, Processes, NumbersAre
<1>4. \A m \in Nat : <<w, m>> \in alive => m = n /\ m # 0
  BY <1>1 DEF PreviewsAreOwn, At
<1>5. PICK ready \in BOOLEAN :
        IF StartIsDuplicate(n) \/ ~Replayable
        THEN /\ alive' = IF ready THEN alive ELSE alive \ { <<w, n>> }
             /\ UNCHANGED <<sessions, last, evidence>>
             /\ Goto(w, "failing")
        ELSE /\ Started(w, n, ready)
             /\ Goto(w, IF ~ready THEN "failing"
                        ELSE IF worker[w].certifying THEN "health" ELSE "observe")
  BY DEF Probe
<1>6. /\ PreviewTypes' /\ Len(sessions) <= Len(sessions') /\ alive' \subseteq alive
      /\ \E point \in { "failing", "health", "observe" } :
           Goto(w, point) /\ (point # "failing" => n <= Len(sessions'))
  <2>1. CASE StartIsDuplicate(n) \/ ~Replayable
    BY <1>3, <1>5, <2>1 DEF PreviewTypes
  <2>2. CASE ~(StartIsDuplicate(n) \/ ~Replayable)
    <3>1. n = Len(sessions) + 1
      BY <1>3, <2>2 DEF StartIsDuplicate, Numbered
    <3>2. PreviewTypes' /\ Len(sessions') = n /\ alive' \subseteq alive
      BY <1>3, <1>5, <2>2, <3>1, StartIsTyped
    <3> QED
      BY <1>3, <1>5, <2>2, <3>1, <3>2
  <2> QED
    BY <2>1, <2>2
<1>7. PICK point \in { "failing", "health", "observe" } :
        Goto(w, point) /\ (point # "failing" => n <= Len(sessions'))
  BY <1>6
<1>8. PICK p \in Processes : p = Moved(w, point) /\ Becomes(w, p)
  BY <1>7, GotoBecomes DEF RunPoints, Awaiting
<1>9. p.run = point /\ p.session = n /\ p.target = worker[w].target
  BY <1>3, <1>8 DEF Moved, Processes
<1>10. Len(sessions') \in Nat
  BY <1>6 DEF PreviewTypes
<1>11. Numbered(p, Len(sessions'))
  BY <1>3, <1>6, <1>7, <1>9, <1>10 DEF Numbered, Processes
<1>12. \A m \in Nat : p.run # "dead" /\ <<w, m>> \in alive' =>
         m = p.session /\ m # 0 /\ p.run \notin { "halting", "stopping" }
  BY <1>4, <1>6, <1>9
<1> QED
  BY <1>2, <1>6, <1>8, <1>11, <1>12, OneChanges

LEMMA ObserveIsTyped ==
  ASSUME Typed, NEW w \in Workers, Observe(w)
  PROVE  Typed'
<1> USE DEF Typed, Types
<1>1. /\ At(w, "observe") /\ UNCHANGED <<sessions, last, evidence, serverVars, historyVars>>
      /\ alive' \subseteq alive
  BY DEF Observe
<1>2. LedgerTypes'
  BY DEF Observe, Transition, LedgerTypes, MissionStates, TerminalStates
<1>3. ServerTypes' /\ HistoryTypes'
  BY <1>1, ServerUntouched DEF HistoryTypes, historyVars
<1>4. /\ Len(sessions) \in Nat /\ worker \in [Workers -> Processes] /\ worker[w] \in Processes
      /\ Numbered(worker[w], Len(sessions)) /\ Len(sessions') = Len(sessions)
  BY <1>1 DEF PreviewTypes, ProcessTypes, NumbersAre
<1>5. PreviewTypes'
  BY <1>1 DEF PreviewTypes
<1>6. \A n \in Nat : <<w, n>> \in alive => n = worker[w].session /\ n # 0
  BY <1>1 DEF PreviewsAreOwn, At
<1>7. PICK p \in Processes :
        /\ Becomes(w, p) /\ p.session = worker[w].session /\ p.target = worker[w].target
        /\ \/ p.run = "halting" /\ alive' = alive \ { <<w, worker[w].session>> }
           \/ p.run = "failing"
  <2>1. CASE /\ worker' = [worker EXCEPT ![w].run = "halting", ![w].certifying = TRUE]
             /\ alive' = alive \ { <<w, worker[w].session>> }
    <3>1. PICK p \in Processes : p = [worker[w] EXCEPT !.run = "halting", !.certifying = TRUE]
      BY <1>4 DEF Processes, RunPoints, Awaiting
    <3>2. p.run = "halting" /\ p.session = worker[w].session /\ p.target = worker[w].target
      BY <1>4, <3>1 DEF Processes
    <3>3. Becomes(w, p)
      BY <1>4, <2>1, <3>1 DEF Becomes
    <3> QED
      BY <2>1, <3>2, <3>3
  <2>2. CASE Goto(w, "halting") /\ alive' = alive \ { <<w, worker[w].session>> }
    <3>1. PICK p \in Processes : p = Moved(w, "halting") /\ Becomes(w, p)
      BY <2>2, GotoBecomes DEF RunPoints, Awaiting
    <3> QED
      BY <1>4, <2>2, <3>1 DEF Moved, Processes
  <2>3. CASE Goto(w, "failing")
    <3>1. PICK p \in Processes : p = Moved(w, "failing") /\ Becomes(w, p)
      BY <2>3, GotoBecomes DEF RunPoints, Awaiting
    <3> QED
      BY <1>4, <2>3, <3>1 DEF Moved, Processes
  <2> QED
    BY <2>1, <2>2, <2>3 DEF Observe
<1>8. Numbered(p, Len(sessions'))
  BY <1>1, <1>4, <1>7 DEF Numbered, Processes, At
<1>9. \A n \in Nat : p.run # "dead" /\ <<w, n>> \in alive' =>
        n = p.session /\ n # 0 /\ p.run \notin { "halting", "stopping" }
  BY <1>1, <1>6, <1>7
<1>10. Len(sessions) <= Len(sessions')
  BY <1>4
<1> QED
  BY <1>1, <1>2, <1>3, <1>5, <1>7, <1>8, <1>9, <1>10, OneChanges

LEMMA HaltedIsTyped ==
  ASSUME Typed, NEW w \in Workers, Halted(w)
  PROVE  Typed'
<1> USE DEF Typed, Types
<1>1. /\ At(w, "halting") /\ UNCHANGED <<alive, evidence, serverVars, historyVars>>
      /\ worker' = [worker EXCEPT ![w].run = "launch", ![w].session = 0]
      /\ sessions' = [sessions EXCEPT ![worker[w].session].status = "stopped"]
      /\ last' = worker[w].session
  BY DEF Halted, StopRecorded
<1>2. LedgerTypes'
  BY DEF Halted, LedgerTypes
<1>3. ServerTypes' /\ HistoryTypes'
  BY <1>1, ServerUntouched DEF HistoryTypes, historyVars
<1>4. /\ Len(sessions) \in Nat /\ worker \in [Workers -> Processes] /\ worker[w] \in Processes
      /\ Numbered(worker[w], Len(sessions)) /\ worker[w].session \in 0..Len(sessions)
  BY <1>1 DEF PreviewTypes, ProcessTypes, NumbersAre, Numbered, At, Processes
<1>5. sessions' \in Seq(Session) /\ Len(sessions') = Len(sessions)
  <2>1. worker[w].session \in Nat /\ "stopped" \in SessionStatus /\ sessions \in Seq(Session)
    BY <1>4 DEF PreviewTypes, SessionStatus
  <2> QED
    BY <1>1, <2>1, StatusIsSet
<1>6. PreviewTypes'
  BY <1>1, <1>4, <1>5 DEF PreviewTypes
<1>7. \A n \in Nat : <<w, n>> \notin alive
  BY <1>1 DEF PreviewsAreOwn, At
<1>8. PICK p \in Processes : p = [worker[w] EXCEPT !.run = "launch", !.session = 0]
  BY <1>4 DEF Processes, RunPoints, Awaiting
<1>9. p.run = "launch" /\ p.session = 0 /\ p.target = worker[w].target
  BY <1>4, <1>8 DEF Processes
<1>10. Becomes(w, p)
  BY <1>1, <1>4, <1>8 DEF Becomes
<1>11. Numbered(p, Len(sessions'))
  BY <1>4, <1>5, <1>9 DEF Numbered
<1> QED
  BY <1>1, <1>2, <1>3, <1>4, <1>5, <1>6, <1>7, <1>10, <1>11, OneChanges

\* The health record changes the status of a session, and nothing else of it.
LEMMA HealthIsSet ==
  ASSUME sessions \in Seq(Session), NEW n \in Nat, HealthRecorded(n)
  PROVE  /\ sessions' \in Seq(Session) /\ Len(sessions') = Len(sessions)
         /\ \A m \in DOMAIN sessions : sessions'[m].by = sessions[m].by
         /\ \A m \in DOMAIN sessions : sessions'[m].status = "stopped"
                                         => sessions[m].status = "stopped"
<1>1. PICK status \in { "up", "crashed" } :
        sessions' = [sessions EXCEPT ![n].status = status]
  BY DEF HealthRecorded
<1>2. status \in SessionStatus
  BY DEF SessionStatus
<1>3. sessions' \in Seq(Session) /\ Len(sessions') = Len(sessions)
  BY <1>1, <1>2, StatusIsSet
<1>4. \A m \in DOMAIN sessions : sessions[m] \in Session
  OBVIOUS
<1>5. \A m \in DOMAIN sessions : sessions'[m].by = sessions[m].by
  BY <1>1, <1>4 DEF Session
<1>6. \A m \in DOMAIN sessions : sessions'[m].status = "stopped" => sessions[m].status = "stopped"
  BY <1>1, <1>4 DEF Session
<1> QED
  BY <1>3, <1>5, <1>6

LEMMA HealthIsTyped ==
  ASSUME Typed, NEW w \in Workers, Health(w)
  PROVE  Typed'
<1> USE DEF Typed, Types
<1>1. /\ At(w, "health") /\ UNCHANGED <<alive, evidence, serverVars, historyVars>>
      /\ HealthRecorded(worker[w].session)
      /\ last' = worker[w].session /\ Conclude(w)
      /\ UNCHANGED <<environment, provisioned, generation, observed, deleted>>
  BY DEF Health, HealthRecorded
<1>2. worker[w].session \in 0..Len(sessions) /\ Len(sessions) \in Nat
  BY <1>1 DEF PreviewTypes, ProcessTypes, NumbersAre, Numbered, At, Processes
<1>3. sessions' \in Seq(Session) /\ Len(sessions') = Len(sessions)
  BY <1>1, <1>2, HealthIsSet DEF PreviewTypes
<1>4. PreviewTypes'
  BY <1>1, <1>2, <1>3 DEF PreviewTypes
<1>5. ServerTypes' /\ HistoryTypes'
  BY <1>1, ServerUntouched DEF HistoryTypes, historyVars
<1>6. worker[w].run \in { "boot", "health" } /\ alive' \subseteq alive
  BY <1>1 DEF At
<1>7. /\ ProcessTypes' /\ NumbersAre' /\ PreviewsAreOwn'
      /\ mission' \in MissionStates /\ verdict' \in { "COMPLETE", "INCOMPLETE" }
  BY <1>1, <1>3, <1>4, <1>6, ConcludeIsTyped
<1>8. LedgerTypes'
  BY <1>1, <1>7 DEF LedgerTypes
<1> QED
  BY <1>4, <1>5, <1>7, <1>8

LEMMA FailIsTyped ==
  ASSUME Typed, NEW w \in Workers, Fail(w)
  PROVE  Typed'
<1> USE DEF Typed, Types
<1>1. /\ At(w, "failing") /\ UNCHANGED <<serverVars, historyVars>>
      /\ UNCHANGED <<environment, provisioned, generation, observed, verdict, deleted>>
  BY DEF Fail
<1>2. ServerTypes' /\ HistoryTypes'
  BY <1>1, ServerUntouched DEF HistoryTypes, historyVars
<1>3. CASE /\ MustWait(w) /\ alive' = alive \ { <<w, last>> } /\ Goto(w, "stopping")
           /\ UNCHANGED <<mission, sessions, last, evidence>>
  <2>1. /\ worker \in [Workers -> Processes] /\ worker[w] \in Processes
        /\ Numbered(worker[w], Len(sessions)) /\ last \in 0..Len(sessions)
        /\ Len(sessions) \in Nat
    BY DEF ProcessTypes, NumbersAre, PreviewTypes
  <2>2. last = worker[w].session /\ \A n \in Nat : <<w, n>> \in alive => n = last
    BY <1>1, <1>3, <2>1 DEF MustWait, OwnPreview, PreviewsAreOwn, At
  <2>3. PICK p \in Processes : p = Moved(w, "stopping") /\ Becomes(w, p)
    BY <1>3, GotoBecomes DEF RunPoints, Awaiting
  <2>4. p.run = "stopping" /\ p.session = worker[w].session /\ p.target = worker[w].target
    BY <2>1, <2>3 DEF Moved, Processes
  <2>5. PreviewTypes' /\ LedgerTypes'
    BY <1>1, <1>3 DEF PreviewTypes, LedgerTypes
  <2>6. Numbered(p, Len(sessions'))
    BY <1>3, <2>1, <2>2, <2>4 DEF Numbered, Processes
  <2>7. \A n \in Nat : <<w, n>> \notin alive'
    BY <1>3, <2>2
  <2>8. Len(sessions) <= Len(sessions') /\ alive' \subseteq alive
    BY <1>3, <2>1
  <2> QED
    BY <1>2, <2>3, <2>5, <2>6, <2>7, <2>8, OneChanges
<1>4. CASE /\ IF Replayable THEN StopLast /\ MarkFailed ELSE UNCHANGED <<previewVars, mission>>
           /\ SendAndExit(w)
  <2>1. PreviewTypes' /\ Len(sessions') = Len(sessions) /\ alive' \subseteq alive
    BY <1>4, StopLastIsTyped DEF PreviewTypes, previewVars
  <2>2. mission' \in MissionStates
    BY <1>4, MarkedIsTyped DEF LedgerTypes
  <2>3. PICK sent \in { "none", "failed" } : Exit(w, sent)
    BY <1>4 DEF SendAndExit
  <2>4. Len(sessions) <= Len(sessions')
    BY <2>1 DEF PreviewTypes
  <2>5. ProcessTypes' /\ NumbersAre' /\ PreviewsAreOwn'
    BY <2>1, <2>3, <2>4, ExitIsTyped
  <2>6. LedgerTypes'
    BY <1>1, <2>2 DEF LedgerTypes
  <2> QED
    BY <1>2, <2>1, <2>5, <2>6
<1> QED
  BY <1>3, <1>4 DEF Fail

LEMMA FailAfterStopIsTyped ==
  ASSUME Typed, NEW w \in Workers, FailAfterStop(w)
  PROVE  Typed'
<1> USE DEF Typed, Types
<1>1. /\ At(w, "stopping") /\ UNCHANGED <<alive, serverVars, historyVars>>
      /\ UNCHANGED <<environment, provisioned, generation, observed, verdict, deleted>>
      /\ IF Replayable THEN FixedStop(worker[w].session) /\ MarkFailed
                      ELSE UNCHANGED <<sessions, last, evidence, mission>>
      /\ SendAndExit(w)
  BY DEF FailAfterStop
<1>2. ServerTypes' /\ HistoryTypes'
  BY <1>1, ServerUntouched DEF HistoryTypes, historyVars
<1>3. worker[w].session \in 0..Len(sessions) /\ Len(sessions) \in Nat
  BY <1>1 DEF PreviewTypes, ProcessTypes, NumbersAre, Numbered, At, Processes
<1>4. PreviewTypes' /\ Len(sessions') = Len(sessions)
  BY <1>1, <1>3, StopIsTyped DEF PreviewTypes
<1>5. mission' \in MissionStates
  BY <1>1, MarkedIsTyped DEF LedgerTypes
<1>6. PICK sent \in { "none", "failed" } : Exit(w, sent)
  BY <1>1 DEF SendAndExit
<1>7. ProcessTypes' /\ NumbersAre' /\ PreviewsAreOwn'
  BY <1>1, <1>3, <1>4, <1>6, ExitIsTyped
<1>8. LedgerTypes'
  BY <1>1, <1>5 DEF LedgerTypes
<1> QED
  BY <1>2, <1>4, <1>7, <1>8

LEMMA HearIsTyped ==
  ASSUME Typed, NEW w \in Workers, Hear(w)
  PROVE  Typed'
<1> USE DEF Typed, Types
<1> DEFINE op   == Head(worker[w].inbox)
           rest == [worker EXCEPT ![w].inbox = Tail(@)]
<1>1. /\ worker[w].run \in Awaiting /\ worker[w].inbox # << >>
      /\ UNCHANGED <<serverVars, faults, forgotten>>
      /\ UNCHANGED <<environment, provisioned, generation, observed, verdict, deleted>>
      /\ cut' \in { cut, cut \union { last } }
  BY DEF Hear
<1>2. ServerTypes' /\ HistoryTypes'
  <2>1. last \in Nat
    BY DEF PreviewTypes
  <2> QED
    BY <1>1, <2>1, ServerUntouched DEF HistoryTypes
<1>3. /\ worker \in [Workers -> Processes] /\ worker[w] \in Processes
      /\ Numbered(worker[w], Len(sessions)) /\ last \in 0..Len(sessions)
      /\ Len(sessions) \in Nat
  BY DEF ProcessTypes, NumbersAre, PreviewTypes
<1>4. worker[w].inbox \in Seq({ "stop", "shutdown" }) /\ worker[w].inbox # << >>
  BY <1>1, <1>3 DEF Processes
<1>5. op \in { "stop", "shutdown" } /\ Tail(worker[w].inbox) \in Seq({ "stop", "shutdown" })
  BY <1>4
<1> HIDE DEF op
<1>6. CASE worker[w].control # "none"
  <2>1. worker' = rest /\ UNCHANGED <<mission, previewVars>>
    BY <1>6 DEF Hear
  <2>2. worker' = [worker EXCEPT ![w].inbox = Tail(worker[w].inbox)]
    BY <2>1, <1>3
  <2>3. /\ ProcessTypes'
        /\ \A x \in Workers : /\ worker'[x].run = worker[x].run
                              /\ worker'[x].session = worker[x].session
                              /\ worker'[x].target = worker[x].target
    BY <1>5, <2>2, InboxIsTyped
  <2>4. PreviewTypes' /\ LedgerTypes' /\ Len(sessions') = Len(sessions) /\ alive' \subseteq alive
    BY <1>1, <2>1 DEF PreviewTypes, previewVars, LedgerTypes
  <2>5. NumbersAre' /\ PreviewsAreOwn'
    BY <2>3, <2>4, QuietIsTyped
  <2> QED
    BY <1>2, <2>3, <2>4, <2>5
<1>7. CASE worker[w].control = "none" /\ MustWait(w) /\ ~NothingToStop(op)
  <2>1. /\ alive' = alive \ { <<w, last>> }
        /\ worker' = [rest EXCEPT ![w].control = op, ![w].target = last]
        /\ UNCHANGED <<mission, sessions, last, evidence>>
    BY <1>7 DEF Hear, op
  <2>2. PICK p \in Processes :
          p = [worker[w] EXCEPT !.inbox = Tail(@), !.control = op, !.target = last]
    <3>1. PICK q \in Seq({ "stop", "shutdown" }) : q = Tail(worker[w].inbox)
      BY <1>5
    <3>2. last \in Nat
      BY <1>3
    <3>3. [worker[w] EXCEPT !.inbox = q, !.control = op, !.target = last] \in Processes
      BY <1>3, <1>5, <3>2 DEF Processes
    <3> QED
      BY <1>3, <3>1, <3>3
  <2>3. /\ p.run = worker[w].run /\ p.session = worker[w].session /\ p.target = last
    BY <1>3, <2>2 DEF Processes
  <2>4. Becomes(w, p)
    BY <1>3, <2>1, <2>2 DEF Becomes
  <2>5. PreviewTypes' /\ LedgerTypes'
    BY <1>1, <2>1 DEF PreviewTypes, LedgerTypes
  <2>6. Numbered(p, Len(sessions'))
    BY <1>1, <1>3, <2>1, <2>3 DEF Numbered, Processes, Awaiting
  <2>7. worker[w].run # "dead"
    BY <1>1 DEF Awaiting
  <2>8. \A n \in Nat : p.run # "dead" /\ <<w, n>> \in alive' =>
          n = p.session /\ n # 0 /\ p.run \notin { "halting", "stopping" }
    BY <2>1, <2>3, <2>7 DEF PreviewsAreOwn, At
  <2>9. Len(sessions) <= Len(sessions') /\ alive' \subseteq alive
    BY <1>3, <2>1
  <2> QED
    BY <1>2, <2>4, <2>5, <2>6, <2>8, <2>9, OneChanges
<1>8. CASE worker[w].control = "none" /\ ~(MustWait(w) /\ ~NothingToStop(op))
  <2>1. StopAtOnce(op) /\ Exit(w, worker[w].outbox)
    BY <1>8 DEF Hear, op
  <2>2. /\ PreviewTypes' /\ Len(sessions') = Len(sessions) /\ alive' \subseteq alive
        /\ mission' \in MissionStates
    BY <2>1, StopAtOnceIsTyped
  <2>3. worker[w].outbox \in { "none", "completed", "failed" }
    BY <1>3 DEF Processes
  <2>4. Len(sessions) <= Len(sessions')
    BY <1>3, <2>2
  <2>5. ProcessTypes' /\ NumbersAre' /\ PreviewsAreOwn'
    BY <2>1, <2>2, <2>3, <2>4, ExitIsTyped
  <2>6. LedgerTypes'
    BY <1>1, <2>2 DEF LedgerTypes
  <2> QED
    BY <1>2, <2>2, <2>5, <2>6
<1> QED
  BY <1>6, <1>7, <1>8

LEMMA HearOnIsTyped ==
  ASSUME Typed, NEW w \in Workers, HearOn(w)
  PROVE  Typed'
<1> USE DEF Typed, Types
<1>1. /\ worker[w].run \in Awaiting /\ UNCHANGED <<alive, serverVars, historyVars>>
      /\ UNCHANGED <<environment, provisioned, generation, observed, verdict, deleted>>
      /\ IF Replayable
         THEN /\ FixedStop(worker[w].target)
              /\ Cancelled(worker[w].control, StopIsDuplicate(worker[w].target))
         ELSE UNCHANGED <<sessions, last, evidence, mission>>
      /\ Exit(w, worker[w].outbox)
  BY DEF HearOn
<1>2. ServerTypes' /\ HistoryTypes'
  BY <1>1, ServerUntouched DEF HistoryTypes, historyVars
<1>3. worker[w].target \in 0..Len(sessions) /\ Len(sessions) \in Nat
  BY DEF PreviewTypes, ProcessTypes, NumbersAre, Numbered, Processes
<1>4. PreviewTypes' /\ Len(sessions') = Len(sessions)
  BY <1>1, <1>3, StopIsTyped DEF PreviewTypes
<1>5. mission' \in MissionStates
  BY <1>1, CancelledIsTyped DEF LedgerTypes
<1>6. worker[w].outbox \in { "none", "completed", "failed" }
  BY DEF ProcessTypes, Processes
<1>7. ProcessTypes' /\ NumbersAre' /\ PreviewsAreOwn'
  BY <1>1, <1>3, <1>4, <1>6, ExitIsTyped
<1>8. LedgerTypes'
  BY <1>1, <1>5 DEF LedgerTypes
<1> QED
  BY <1>2, <1>4, <1>7, <1>8

LEMMA StartIsWellTyped ==
  ASSUME Typed, NEW w \in Workers, Start(w)
  PROVE  Typed'
<1> USE DEF Typed, Types
<1>1. /\ At(w, "unborn") /\ Goto(w, "boot") /\ linked' = linked \union {w} /\ active' = w
      /\ UNCHANGED <<ledgerVars, previewVars, server, job, call, historyVars>>
  BY DEF Start, Spawned
<1>2. ServerTypes'
  BY <1>1 DEF ServerTypes
<1>3. LedgerTypes' /\ HistoryTypes' /\ PreviewTypes'
  BY <1>1 DEF LedgerTypes, ledgerVars, HistoryTypes, historyVars, PreviewTypes, previewVars
<1>4. ProcessTypes' /\ NumbersAre' /\ PreviewsAreOwn'
  BY <1>1, MoveIsTyped DEF At, RunPoints
<1> QED
  BY <1>2, <1>3, <1>4

LEMMA StopIsWellTyped ==
  ASSUME Typed, NEW c \in Callers, NEW op \in { "cancel", "delete" }, Stop(c, op)
  PROVE  Typed'
<1> USE DEF Typed, Types
<1>1. /\ UNCHANGED <<environment, provisioned, generation, observed, verdict,
                     server, linked, job, faults, cut>>
      /\ Message(op) \in { "stop", "shutdown" }
  BY DEF Stop, Message
<1>2. CASE Reachable
  <2>1. /\ worker' = [worker EXCEPT ![active].inbox = Append(@, Message(op))]
        /\ call' = [call EXCEPT ![c] = [op |-> op, pc |-> "sending", child |-> active]]
        /\ UNCHANGED <<mission, deleted, previewVars, active, forgotten>>
    BY <1>2 DEF Stop
  <2>2. active \in Workers /\ worker \in [Workers -> Processes]
    BY <1>2 DEF Reachable, ServerTypes, ProcessTypes
  <2>3. PICK q \in Seq({ "stop", "shutdown" }) : q = Append(worker[active].inbox, Message(op))
    <3>1. worker[active].inbox \in Seq({ "stop", "shutdown" })
      BY <2>2 DEF Processes
    <3>2. PICK m \in { "stop", "shutdown" } : m = Message(op)
      BY <1>1
    <3>3. Append(worker[active].inbox, m) \in Seq({ "stop", "shutdown" })
      BY <3>1
    <3> QED
      BY <3>2, <3>3
  <2>4. worker' = [worker EXCEPT ![active].inbox = q]
    BY <2>1, <2>2, <2>3
  <2>5. /\ ProcessTypes'
        /\ \A x \in Workers : /\ worker'[x].run = worker[x].run
                              /\ worker'[x].session = worker[x].session
                              /\ worker'[x].target = worker[x].target
    BY <2>2, <2>4, InboxIsTyped
  <2>6. LedgerTypes' /\ PreviewTypes' /\ HistoryTypes'
        /\ Len(sessions') = Len(sessions) /\ alive' \subseteq alive
    BY <1>1, <2>1 DEF LedgerTypes, HistoryTypes, PreviewTypes, previewVars
  <2>7. NumbersAre' /\ PreviewsAreOwn'
    BY <2>5, <2>6, QuietIsTyped
  <2>8. ServerTypes'
    BY <1>1, <2>1, <2>2 DEF ServerTypes
  <2> QED
    BY <2>5, <2>6, <2>7, <2>8
<1>3. CASE ~Reachable
  <2>1. /\ StopAtOnce(Message(op)) /\ Drop /\ Deleting({op})
        /\ call' = [call EXCEPT ![c] = Answered] /\ UNCHANGED worker
    BY <1>3 DEF Stop
  <2>2. /\ PreviewTypes' /\ Len(sessions') = Len(sessions) /\ alive' \subseteq alive
        /\ mission' \in MissionStates
    BY <2>1, StopAtOnceIsTyped
  <2>3. ProcessTypes' /\ NumbersAre' /\ PreviewsAreOwn'
    BY <2>1, <2>2, QuietIsTyped DEF ProcessTypes
  <2>4. LedgerTypes'
    BY <1>1, <2>1, <2>2 DEF LedgerTypes, Deleting
  <2>5. HistoryTypes'
    BY <1>1, <2>1 DEF HistoryTypes, Drop
  <2>6. ServerTypes'
    BY <1>1, <2>1 DEF ServerTypes, Drop, Answered
  <2> QED
    BY <2>2, <2>3, <2>4, <2>5, <2>6
<1> QED
  BY <1>2, <1>3

LEMMA ServerStepIsTyped ==
  ASSUME Typed,
         \/ \E c \in Callers : Sent(c) \/ GaveUp(c)
         \/ \E w \in Workers : Heard(w) \/ Exited(w)
         \/ Closed \/ ServerDies
  PROVE  Typed'
<1> USE DEF Typed, Types
<1>1. UNCHANGED previewVars
  BY DEF Sent, GaveUp, Heard, Exited, Closed, ServerDies
<1>2. PreviewTypes' /\ Len(sessions') = Len(sessions) /\ alive' \subseteq alive
  BY <1>1 DEF PreviewTypes, previewVars
<1>3. worker \in [Workers -> Processes]
  BY DEF ProcessTypes
<1>4. /\ UNCHANGED <<mission, environment, provisioned, generation, observed, verdict>>
      /\ UNCHANGED deleted \/ \E ops : Deleting(ops)
  BY DEF Sent, GaveUp, Heard, Exited, Closed, ServerDies, ledgerVars
<1>5. LedgerTypes'
  BY <1>4 DEF LedgerTypes, Deleting
<1>6. ASSUME ServerGone PROVE ServerTypes'
  BY <1>6 DEF ServerGone, ServerTypes, NewJob, Answered
<1>7. ASSUME NEW c \in Callers, Sent(c) PROVE Typed'
  <2>1. /\ call' = [call EXCEPT ![c].pc = "waiting"] /\ call[c].pc = "sending"
        /\ UNCHANGED <<worker, server, linked, active, job, historyVars>>
    BY <1>7 DEF Sent
  <2>2. ServerTypes' /\ HistoryTypes'
    BY <2>1 DEF ServerTypes, HistoryTypes, historyVars
  <2>3. ProcessTypes' /\ NumbersAre' /\ PreviewsAreOwn'
    BY <1>2, <2>1, QuietIsTyped DEF ProcessTypes
  <2> QED
    BY <1>2, <1>5, <2>2, <2>3
<1>8. ASSUME NEW c \in Callers, GaveUp(c) PROVE Typed'
  <2>1. /\ call' = [call EXCEPT ![c] = Answered] /\ Drop
        /\ UNCHANGED <<worker, server, linked, job, cut>>
    BY <1>8 DEF GaveUp
  <2>2. ServerTypes'
    BY <2>1 DEF ServerTypes, Drop, Answered
  <2>3. faults' \in 0..MaxFaults
    BY <1>8, WorkersAssumption DEF GaveUp, Fault, HistoryTypes
  <2>4. HistoryTypes'
    BY <2>1, <2>3 DEF HistoryTypes, Drop
  <2>5. ProcessTypes' /\ NumbersAre' /\ PreviewsAreOwn'
    BY <1>2, <2>1, QuietIsTyped DEF ProcessTypes
  <2> QED
    BY <1>2, <1>5, <2>2, <2>4, <2>5
<1>9. ASSUME NEW w \in Workers, Heard(w) PROVE Typed'
  <2>1. /\ job' = [job EXCEPT ![w].error = @ \/ worker[w].outbox = "failed",
                              ![w].completed = @ \/ worker[w].outbox = "completed"]
        /\ worker' = [worker EXCEPT ![w].outbox = "none"]
        /\ UNCHANGED <<server, linked, active, call, historyVars>>
    BY <1>9 DEF Heard
  <2>2. job' \in [Workers -> [error : BOOLEAN, completed : BOOLEAN, exited : BOOLEAN]]
    <3>1. PICK e \in BOOLEAN, d \in BOOLEAN :
            /\ e = (job[w].error \/ worker[w].outbox = "failed")
            /\ d = (job[w].completed \/ worker[w].outbox = "completed")
      OBVIOUS
    <3>2. job' = [job EXCEPT ![w].error = e, ![w].completed = d]
      BY <2>1, <3>1
    <3> QED
      BY <3>2 DEF ServerTypes
  <2>3. ServerTypes' /\ HistoryTypes'
    BY <2>1, <2>2 DEF ServerTypes, HistoryTypes, historyVars
  <2>4. /\ ProcessTypes'
        /\ \A x \in Workers : /\ worker'[x].run = worker[x].run
                              /\ worker'[x].session = worker[x].session
                              /\ worker'[x].target = worker[x].target
    BY <1>3, <2>1 DEF ProcessTypes, Processes
  <2>5. NumbersAre' /\ PreviewsAreOwn'
    BY <1>2, <2>4, QuietIsTyped
  <2> QED
    BY <1>2, <1>5, <2>3, <2>4, <2>5
<1>10. ASSUME NEW w \in Workers, Exited(w) PROVE Typed'
  <2>1. /\ job' = JobAfterExit(w)
        /\ call' = [c \in Callers |-> IF c \in Listening(w) THEN Answered ELSE call[c]]
        /\ active' \in { active, NoWorker }
        /\ forgotten' \in { forgotten, forgotten \/ active \in Workers \ {w} }
        /\ UNCHANGED <<worker, server, linked, faults, cut>>
    BY <1>10 DEF Exited
  <2>2. job' \in [Workers -> [error : BOOLEAN, completed : BOOLEAN, exited : BOOLEAN]]
    BY <2>1 DEF ServerTypes, JobAfterExit
  <2>3. ServerTypes'
    BY <2>1, <2>2 DEF ServerTypes, Answered
  <2>4. HistoryTypes'
    BY <2>1 DEF HistoryTypes
  <2>5. ProcessTypes' /\ NumbersAre' /\ PreviewsAreOwn'
    BY <1>2, <2>1, QuietIsTyped DEF ProcessTypes
  <2> QED
    BY <1>2, <1>5, <2>3, <2>4, <2>5
<1>11. ASSUME Closed PROVE Typed'
  <2>1. ServerTypes'
    BY <1>6, <1>11 DEF Closed
  <2>2. HistoryTypes'
    BY <1>11 DEF Closed, HistoryTypes
  <2>3. CASE active \in Workers
    <3>1. worker' = [worker EXCEPT ![active] = [Unborn EXCEPT !.run = "dead"]]
      BY <1>11, <2>3 DEF Closed
    <3>2. [Unborn EXCEPT !.run = "dead"] = Gone("none")
      <4>1. Unborn \in Processes /\ Unborn.outbox = "none" /\ "dead" \in RunPoints
        BY DEF Unborn, Processes, RunPoints
      <4>2. PICK u \in Processes : u = [Unborn EXCEPT !.run = "dead"] /\ u.outbox = "none"
        <5>1. [Unborn EXCEPT !.run = "dead"] \in Processes
          BY <4>1 DEF Processes
        <5>2. [Unborn EXCEPT !.run = "dead"].outbox = "none"
          BY <4>1 DEF Processes
        <5> QED
          BY <5>1, <5>2
      <4>3. [u EXCEPT !.outbox = "none"] = u
        BY <4>2 DEF Processes
      <4> QED
        BY <4>2, <4>3 DEF Gone
    <3>3. Exit(active, "none")
      BY <3>1, <3>2 DEF Exit, Gone
    <3>4. Len(sessions) <= Len(sessions')
      BY <1>2 DEF PreviewTypes
    <3>5. ProcessTypes' /\ NumbersAre' /\ PreviewsAreOwn'
      BY <1>2, <2>3, <3>3, <3>4, ExitIsTyped
    <3> QED
      BY <1>2, <1>5, <2>1, <2>2, <3>5
  <2>4. CASE active \notin Workers
    <3>1. worker' = worker
      BY <1>11, <2>4 DEF Closed
    <3>2. ProcessTypes' /\ NumbersAre' /\ PreviewsAreOwn'
      BY <1>2, <3>1, QuietIsTyped DEF ProcessTypes
    <3> QED
      BY <1>2, <1>5, <2>1, <2>2, <3>2
  <2> QED
    BY <2>3, <2>4
<1>12. ASSUME ServerDies PROVE Typed'
  <2>1. worker' = worker /\ ServerTypes'
    BY <1>6, <1>12 DEF ServerDies
  <2>2. HistoryTypes'
    BY <1>12, WorkersAssumption DEF ServerDies, Fault, HistoryTypes
  <2>3. ProcessTypes' /\ NumbersAre' /\ PreviewsAreOwn'
    BY <1>2, <2>1, QuietIsTyped DEF ProcessTypes
  <2> QED
    BY <1>2, <1>5, <2>1, <2>2, <2>3
<1> QED
  BY <1>7, <1>8, <1>9, <1>10, <1>11, <1>12

LEMMA ShutdownIsTyped == ASSUME Typed, Shutdown PROVE Typed'
<1> USE DEF Typed, Types
<1>1. /\ server' = "closing"
      /\ UNCHANGED <<ledgerVars, previewVars, linked, active, job, call, forgotten>>
  BY DEF Shutdown
<1>2. /\ LedgerTypes' /\ PreviewTypes' /\ ServerTypes'
      /\ Len(sessions') = Len(sessions) /\ alive' \subseteq alive
  BY <1>1 DEF LedgerTypes, ledgerVars, PreviewTypes, previewVars, ServerTypes
<1>3. HistoryTypes'
  BY WorkersAssumption DEF Shutdown, Fault, HistoryTypes
<1>4. CASE active \in linked
  <2>1. active \in Workers /\ worker \in [Workers -> Processes]
    BY <1>4 DEF ServerTypes, ProcessTypes
  <2>2. worker[active].inbox \in Seq({ "stop", "shutdown" })
    BY <2>1 DEF Processes
  <2>3. PICK q \in Seq({ "stop", "shutdown" }) : q = Append(worker[active].inbox, "stop")
    <3>1. Append(worker[active].inbox, "stop") \in Seq({ "stop", "shutdown" })
      BY <2>2
    <3> QED
      BY <3>1
  <2>4. worker' = [worker EXCEPT ![active].inbox = q]
    BY <1>4, <2>1, <2>3 DEF Shutdown
  <2>5. /\ ProcessTypes'
        /\ \A x \in Workers : /\ worker'[x].run = worker[x].run
                              /\ worker'[x].session = worker[x].session
                              /\ worker'[x].target = worker[x].target
    BY <2>1, <2>4, InboxIsTyped
  <2>6. NumbersAre' /\ PreviewsAreOwn'
    BY <1>2, <2>5, QuietIsTyped
  <2> QED
    BY <1>2, <1>3, <2>5, <2>6
<1>5. CASE active \notin linked
  <2>1. worker' = worker
    BY <1>5 DEF Shutdown
  <2>2. ProcessTypes' /\ NumbersAre' /\ PreviewsAreOwn'
    BY <1>2, <2>1, QuietIsTyped DEF ProcessTypes
  <2> QED
    BY <1>2, <1>3, <2>2
<1> QED
  BY <1>4, <1>5

LEMMA SignalIsTyped == ASSUME Typed, NEW w \in Workers, Signal(w) PROVE Typed'
<1> USE DEF Typed, Types
<1>1. UNCHANGED <<ledgerVars, previewVars, serverVars, forgotten>>
  BY DEF Signal
<1>2. /\ LedgerTypes' /\ PreviewTypes' /\ ServerTypes'
      /\ Len(sessions') = Len(sessions) /\ alive' \subseteq alive
  BY <1>1, ServerUntouched DEF LedgerTypes, ledgerVars, PreviewTypes, previewVars
<1>3. HistoryTypes'
  BY WorkersAssumption DEF Signal, Fault, HistoryTypes
<1>4. worker \in [Workers -> Processes]
  BY DEF ProcessTypes
<1>5. worker[w].inbox \in Seq({ "stop", "shutdown" })
  BY <1>4 DEF Processes
<1>6. PICK q \in Seq({ "stop", "shutdown" }) : q = <<"shutdown">> \o worker[w].inbox
  <2>1. <<"shutdown">> \in Seq({ "stop", "shutdown" })
    OBVIOUS
  <2>2. <<"shutdown">> \o worker[w].inbox \in Seq({ "stop", "shutdown" })
    BY <1>5, <2>1
  <2> QED
    BY <2>2
<1>7. worker' = [worker EXCEPT ![w].inbox = q]
  BY <1>4, <1>6 DEF Signal
<1>8. /\ ProcessTypes'
      /\ \A x \in Workers : /\ worker'[x].run = worker[x].run
                            /\ worker'[x].session = worker[x].session
                            /\ worker'[x].target = worker[x].target
  BY <1>7, InboxIsTyped
<1>9. NumbersAre' /\ PreviewsAreOwn'
  BY <1>2, <1>8, QuietIsTyped
<1> QED
  BY <1>2, <1>3, <1>8, <1>9

LEMMA RestartIsTyped == ASSUME Typed, Restart PROVE Typed'
<1> USE DEF Typed, Types
<1>1. server' = "up" /\ UNCHANGED <<ledgerVars, previewVars, job, call, historyVars>>
  BY DEF Restart
<1>2. /\ LedgerTypes' /\ PreviewTypes' /\ HistoryTypes'
      /\ Len(sessions') = Len(sessions) /\ alive' \subseteq alive
  BY <1>1 DEF LedgerTypes, ledgerVars, PreviewTypes, previewVars, HistoryTypes, historyVars
<1>3. CASE Recovers /\ ~Interrupted
  <2>1. PICK w \in Workers : Spawned(w)
    BY <1>3 DEF Restart
  <2>2. At(w, "unborn") /\ Goto(w, "boot") /\ linked' = linked \union {w} /\ active' = w
    BY <2>1 DEF Spawned
  <2>3. ProcessTypes' /\ NumbersAre' /\ PreviewsAreOwn'
    BY <1>1, <2>2, MoveIsTyped DEF At, RunPoints
  <2>4. ServerTypes'
    BY <1>1, <2>2 DEF ServerTypes
  <2> QED
    BY <1>2, <2>3, <2>4
<1>4. CASE ~(Recovers /\ ~Interrupted)
  <2>1. active' \in { NoChild, NoWorker } /\ UNCHANGED <<worker, linked>>
    BY <1>4 DEF Restart
  <2>2. ProcessTypes' /\ NumbersAre' /\ PreviewsAreOwn'
    BY <1>2, <2>1, QuietIsTyped DEF ProcessTypes
  <2>3. ServerTypes'
    BY <1>1, <2>1 DEF ServerTypes
  <2> QED
    BY <1>2, <2>2, <2>3
<1> QED
  BY <1>3, <1>4

LEMMA DeathIsTyped ==
  ASSUME Typed, NEW w \in Workers,
         WorkerDies(w) \/ DiesAtBoot(w) \/ DiesVerifying(w) \/ DiesBetween(w)
  PROVE  Typed'
<1> USE DEF Typed, Types
<1>1. /\ UNCHANGED <<serverVars, forgotten, cut>> /\ Fault
      /\ UNCHANGED <<generation, observed, deleted>>
  BY DEF WorkerDies, DiesAtBoot, DiesVerifying, DiesBetween, ledgerVars
<1>2. ServerTypes' /\ HistoryTypes'
  BY <1>1, ServerUntouched, WorkersAssumption DEF Fault, HistoryTypes
<1>3. PICK sent \in { "none", "completed", "failed" } : Exit(w, sent)
  BY DEF WorkerDies, DiesAtBoot, DiesVerifying, DiesBetween, ProcessTypes, Processes
<1>4. LedgerTypes'
  <2>1. CASE DiesAtBoot(w)
    BY <2>1 DEF DiesAtBoot, LedgerTypes, MissionStates, ActiveStates
  <2>2. CASE DiesVerifying(w)
    BY <2>2 DEF DiesVerifying, LedgerTypes, MissionStates, ActiveStates
  <2>3. CASE WorkerDies(w) \/ DiesBetween(w)
    BY <2>3 DEF WorkerDies, DiesBetween, LedgerTypes, ledgerVars
  <2> QED
    BY <2>1, <2>2, <2>3
<1>5. PreviewTypes' /\ Len(sessions') = Len(sessions) /\ alive' \subseteq alive
  <2>1. CASE WorkerDies(w) \/ DiesAtBoot(w)
    BY <2>1 DEF WorkerDies, DiesAtBoot, PreviewTypes, previewVars
  <2>2. CASE DiesBetween(w)
    <3>1. worker[w].session \in Nat /\ worker[w].target \in Nat
      BY DEF ProcessTypes, Processes
    <3>2. /\ sessions' = sessions /\ last' = last /\ alive' \subseteq alive
          /\ \E n \in Nat : \E step \in { "start", "stop" } :
               evidence' = evidence \union { <<step, n>> }
      BY <2>2, <3>1 DEF DiesBetween, StartCaptured, StopCaptured
    <3> QED
      BY <3>2 DEF PreviewTypes
  <2>3. CASE DiesVerifying(w)
    <3>1. /\ At(w, "health") /\ alive' = alive /\ evidence' = evidence
          /\ HealthRecorded(worker[w].session) /\ last' = worker[w].session
      BY <2>3 DEF DiesVerifying, HealthRecorded
    <3>2. worker[w].session \in 0..Len(sessions) /\ Len(sessions) \in Nat
      BY <3>1 DEF PreviewTypes, ProcessTypes, NumbersAre, Numbered, At, Processes
    <3>3. sessions' \in Seq(Session) /\ Len(sessions') = Len(sessions)
      BY <3>1, <3>2, HealthIsSet DEF PreviewTypes
    <3> QED
      BY <3>1, <3>2, <3>3 DEF PreviewTypes
  <2> QED
    BY <2>1, <2>2, <2>3
<1>6. Len(sessions) <= Len(sessions')
  BY <1>5 DEF PreviewTypes
<1>7. ProcessTypes' /\ NumbersAre' /\ PreviewsAreOwn'
  BY <1>3, <1>5, <1>6, ExitIsTyped
<1> QED
  BY <1>2, <1>4, <1>5, <1>7

LEMMA NextTyped == ASSUME Typed, [Next]_vars PROVE Typed'
<1>1. ASSUME NEW w \in Workers, WorkerStep(w) \/ ControlStep(w) PROVE Typed'
  BY <1>1, BootIsTyped, ResumeIsTyped, PlainMoveIsTyped, LaunchIsTyped, ProbeIsTyped,
     ObserveIsTyped, HaltedIsTyped, HealthIsTyped, FailIsTyped, FailAfterStopIsTyped,
     HearIsTyped, HearOnIsTyped DEF WorkerStep, ControlStep
<1>2. CASE ServerStep
  BY <1>2, ServerStepIsTyped DEF ServerStep
<1>3. CASE Customer
  BY <1>3, StartIsWellTyped, StopIsWellTyped DEF Customer
<1>4. CASE Faults
  BY <1>4, ServerStepIsTyped, ShutdownIsTyped, RestartIsTyped, DeathIsTyped, SignalIsTyped
     DEF Faults
<1>5. CASE UNCHANGED vars
  <2>1. /\ UNCHANGED <<mission, environment, provisioned, generation, observed, verdict, deleted>>
        /\ UNCHANGED <<alive, sessions, last, evidence, worker, server, linked, active>>
        /\ UNCHANGED <<job, call, faults, forgotten, cut>>
    BY <1>5 DEF vars, ledgerVars, previewVars, serverVars, historyVars
  <2>2. LedgerTypes' /\ PreviewTypes' /\ ProcessTypes' /\ ServerTypes' /\ HistoryTypes'
    BY <2>1 DEF Typed, Types, LedgerTypes, PreviewTypes, ProcessTypes, ServerTypes, HistoryTypes
  <2>3. NumbersAre' /\ PreviewsAreOwn'
    BY <2>1 DEF Typed, NumbersAre, PreviewsAreOwn, At
  <2> QED
    BY <2>2, <2>3 DEF Typed, Types
<1> QED
  BY <1>1, <1>2, <1>3, <1>4, <1>5 DEF Next, System

LEMMA AlwaysTyped == Spec => []Typed
BY InitTyped, NextTyped, PTL DEF Spec

\* Every variable has its type: the numbers and pids recorded of previews are those of
\* sessions that were recorded.
THEOREM TypesAreKept == Spec => []TypeOK
<1>1. Typed => TypeOK
  BY TypesSuffice DEF Typed
<1> QED
  BY <1>1, AlwaysTyped, PTL

-------------------------------------------------------------------------------
(* Who works, and who is known to.                                         *)

\* Unless a worker was forgotten, one that runs is the entry's, and the server lives.
Employed == ~forgotten => \A w \in Workers : Live(w) => server # "down" /\ active = w

\* What was heard of a worker is so.
ReportsAreTrue ==
  \A w \in Workers : worker[w].outbox = "failed" \/ job[w].error \/ job[w].exited => At(w, "dead")

\* The entry's worker has a channel, and an exit that leaves the entry leaves an error.
EntryIsKept ==
  /\ server # "down" /\ active \in Workers => active \in linked
  /\ \A w \in Workers : job[w].exited /\ active = w => job[w].error

WorkIsKnown == Employed /\ ReportsAreTrue /\ EntryIsKept

-------------------------------------------------------------------------------

LEMMA InitKnown == ASSUME Init PROVE WorkIsKnown
<1>1. \A w \in Workers : ~Live(w) /\ worker[w].outbox = "none"
  BY DEF Init, Live, Unborn
<1>2. \A w \in Workers : job[w].error = FALSE /\ job[w].exited = FALSE
  BY DEF Init, NewJob
<1>3. active \notin Workers
  BY WorkersAssumption DEF Init
<1> QED
  BY <1>1, <1>2, <1>3 DEF WorkIsKnown, Employed, ReportsAreTrue, EntryIsKept

\* Nobody begins to run, the dead stay dead, and who reports a failure is.
Steady ==
  \A w \in Workers :
    /\ Live(w)' => Live(w)
    /\ At(w, "dead") => At(w, "dead")'
    /\ worker'[w].outbox = "failed" => worker[w].outbox = "failed" \/ At(w, "dead")'

LEMMA SteadyIsKnown ==
  ASSUME Typed, WorkIsKnown, Steady, UNCHANGED <<serverVars, forgotten>>
  PROVE  WorkIsKnown'
<1>1. /\ server' = server /\ linked' = linked /\ active' = active /\ job' = job
      /\ forgotten' = forgotten
  BY DEF serverVars
<1>2. Employed'
  BY <1>1 DEF Employed, WorkIsKnown, Steady
<1>3. ReportsAreTrue'
  BY <1>1 DEF ReportsAreTrue, WorkIsKnown, Steady
<1>4. EntryIsKept'
  BY <1>1 DEF EntryIsKept, WorkIsKnown
<1> QED
  BY <1>2, <1>3, <1>4 DEF WorkIsKnown

\* A process that changes and was running, or is dead now.
LEMMA OneIsSteady ==
  ASSUME ProcessTypes, ProcessTypes', NEW w \in Workers,
         \A x \in Workers \ {w} : worker'[x] = worker[x],
         \/ Live(w) /\ worker'[w].outbox \in { worker[w].outbox, "completed" }
         \/ worker'[w].run = "dead"
  PROVE  Steady
BY DEF Steady, Live, At

LEMMA ExitIsSteady ==
  ASSUME Typed, Typed', NEW w \in Workers, NEW sent \in { "none", "completed", "failed" },
         Exit(w, sent)
  PROVE  Steady
<1>1. worker \in [Workers -> Processes] /\ ProcessTypes /\ ProcessTypes'
  BY DEF Typed, Types, ProcessTypes
<1>2. worker'[w].run = "dead" /\ \A x \in Workers \ {w} : worker'[x] = worker[x]
  BY <1>1, ExitBecomes, GoneIs DEF Becomes
<1> QED
  BY <1>1, <1>2, OneIsSteady

LEMMA GotoIsSteady ==
  ASSUME Typed, Typed', NEW w \in Workers, NEW point, Live(w), Goto(w, point)
  PROVE  Steady
<1>1. worker \in [Workers -> Processes] /\ ProcessTypes /\ ProcessTypes'
  BY DEF Typed, Types, ProcessTypes
<1>2. worker'[w].outbox = worker[w].outbox /\ \A x \in Workers \ {w} : worker'[x] = worker[x]
  BY <1>1 DEF Goto, Processes
<1> QED
  BY <1>1, <1>2, OneIsSteady

LEMMA ConcludeIsSteady ==
  ASSUME Typed, Typed', NEW w \in Workers, Live(w), Conclude(w)
  PROVE  Steady
<1>1. worker \in [Workers -> Processes] /\ ProcessTypes /\ ProcessTypes'
  BY DEF Typed, Types, ProcessTypes
<1>2. CASE w \in linked
  <2>1. worker' = [worker EXCEPT ![w].run = "idle", ![w].outbox = "completed"]
    BY <1>2 DEF Conclude
  <2>2. worker'[w].outbox = "completed" /\ \A x \in Workers \ {w} : worker'[x] = worker[x]
    BY <1>1, <2>1 DEF Processes
  <2> QED
    BY <1>1, <2>2, OneIsSteady
<1>3. CASE w \notin linked
  BY <1>3, ExitIsSteady DEF Conclude
<1> QED
  BY <1>2, <1>3

LEMMA WorkerStepIsSteady ==
  ASSUME Typed, Typed', NEW w \in Workers, WorkerStep(w) \/ ControlStep(w) \/ Signal(w)
  PROVE  Steady /\ UNCHANGED <<serverVars, forgotten>>
<1>1. worker \in [Workers -> Processes] /\ ProcessTypes /\ ProcessTypes'
  BY DEF Typed, Types, ProcessTypes
<1>2. UNCHANGED <<serverVars, forgotten>>
  BY DEF WorkerStep, ControlStep, Signal, BootFresh, BootResume, BootVerify, BootThrows, Answer,
         Build, Launch, Probe, Observe, Halted, Health, Throw, Fail, FailAfterStop, Hear, HearOn,
         serverVars, historyVars
<1>3. worker[w].outbox \in { "none", "completed", "failed" }
  BY <1>1 DEF Processes
<1>4. CASE BootFresh(w) \/ BootResume(w) \/ BootThrows(w)
  <2>1. Live(w) /\ \E point \in RunPoints : Goto(w, point)
    BY <1>4 DEF BootFresh, BootResume, BootThrows, Request, Live, At, RunPoints, Awaiting
  <2> QED
    BY <1>2, <2>1, GotoIsSteady
<1>5. CASE BootVerify(w) \/ Health(w)
  BY <1>2, <1>5, ConcludeIsSteady DEF BootVerify, Health, Live, At
<1>6. CASE Answer(w) \/ Build(w) \/ Throw(w)
  <2>1. Live(w) /\ \E point \in RunPoints : Goto(w, point)
    BY <1>6 DEF Answer, Build, Throw, Live, At, RunPoints, Awaiting
  <2> QED
    BY <1>2, <2>1, GotoIsSteady
<1>7. CASE Launch(w)
  <2>1. worker' = [worker EXCEPT ![w].run = "probing", ![w].session = NextSession] /\ Live(w)
    BY <1>7 DEF Launch, Live, At
  <2>2. worker'[w].outbox = worker[w].outbox /\ \A x \in Workers \ {w} : worker'[x] = worker[x]
    BY <1>1, <2>1 DEF Processes
  <2> QED
    BY <1>1, <1>2, <2>1, <2>2, OneIsSteady
<1>8. CASE Probe(w)
  <2>1. Live(w) /\ \E point \in RunPoints : Goto(w, point)
    BY <1>8 DEF Probe, Live, At, RunPoints, Awaiting
  <2> QED
    BY <1>2, <2>1, GotoIsSteady
<1>9. CASE Observe(w)
  <2>1. Live(w)
    BY <1>9 DEF Observe, Live, At
  <2>2. CASE worker' = [worker EXCEPT ![w].run = "halting", ![w].certifying = TRUE]
    <3>1. worker'[w].outbox = worker[w].outbox /\ \A x \in Workers \ {w} : worker'[x] = worker[x]
      BY <1>1, <2>2 DEF Processes
    <3> QED
      BY <1>1, <1>2, <2>1, <3>1, OneIsSteady
  <2>3. CASE \E point \in RunPoints : Goto(w, point)
    BY <1>2, <2>1, <2>3, GotoIsSteady
  <2> QED
    BY <1>9, <2>2, <2>3 DEF Observe, RunPoints, Awaiting
<1>10. CASE Halted(w)
  <2>1. worker' = [worker EXCEPT ![w].run = "launch", ![w].session = 0] /\ Live(w)
    BY <1>10 DEF Halted, Live, At
  <2>2. worker'[w].outbox = worker[w].outbox /\ \A x \in Workers \ {w} : worker'[x] = worker[x]
    BY <1>1, <2>1 DEF Processes
  <2> QED
    BY <1>1, <1>2, <2>1, <2>2, OneIsSteady
<1>11. CASE Fail(w)
  <2>1. Live(w) /\ (Goto(w, "stopping") \/ SendAndExit(w))
    BY <1>11 DEF Fail, Live, At
  <2> QED
    BY <1>2, <2>1, GotoIsSteady, ExitIsSteady DEF SendAndExit
<1>12. CASE FailAfterStop(w)
  BY <1>2, <1>12, ExitIsSteady DEF FailAfterStop, SendAndExit
<1>13. CASE Hear(w)
  <2>1. Live(w)
    BY <1>13 DEF Hear, Live, Awaiting
  <2>2. CASE worker' = [worker EXCEPT ![w].inbox = Tail(@)]
    <3>1. worker'[w].outbox = worker[w].outbox /\ \A x \in Workers \ {w} : worker'[x] = worker[x]
      BY <1>1, <2>2 DEF Processes
    <3> QED
      BY <1>1, <1>2, <2>1, <3>1, OneIsSteady
  <2>3. CASE \E op : worker' = [[worker EXCEPT ![w].inbox = Tail(@)]
                                  EXCEPT ![w].control = op, ![w].target = last]
    <3>1. worker'[w].outbox = worker[w].outbox /\ \A x \in Workers \ {w} : worker'[x] = worker[x]
      BY <1>1, <2>3 DEF Processes
    <3> QED
      BY <1>1, <1>2, <2>1, <3>1, OneIsSteady
  <2>4. CASE Exit(w, worker[w].outbox)
    BY <1>2, <1>3, <2>4, ExitIsSteady
  <2> QED
    BY <1>13, <2>2, <2>3, <2>4 DEF Hear
<1>14. CASE HearOn(w)
  BY <1>2, <1>3, <1>14, ExitIsSteady DEF HearOn
<1>15. CASE Signal(w)
  <2>1. worker' = [worker EXCEPT ![w].inbox = <<"shutdown">> \o @] /\ Live(w)
    BY <1>15 DEF Signal, Live, Awaiting
  <2>2. worker'[w].outbox = worker[w].outbox /\ \A x \in Workers \ {w} : worker'[x] = worker[x]
    BY <1>1, <2>1 DEF Processes
  <2> QED
    BY <1>1, <1>2, <2>1, <2>2, OneIsSteady
<1> QED
  BY <1>4, <1>5, <1>6, <1>7, <1>8, <1>9, <1>10, <1>11, <1>12, <1>13, <1>14, <1>15
     DEF WorkerStep, ControlStep

LEMMA DeathIsSteady ==
  ASSUME Typed, Typed', NEW w \in Workers,
         WorkerDies(w) \/ DiesAtBoot(w) \/ DiesVerifying(w) \/ DiesBetween(w)
  PROVE  Steady /\ UNCHANGED <<serverVars, forgotten>>
<1>1. PICK sent \in { "none", "completed", "failed" } : Exit(w, sent)
  BY DEF WorkerDies, DiesAtBoot, DiesVerifying, DiesBetween, Typed, Types, ProcessTypes, Processes
<1>2. UNCHANGED <<serverVars, forgotten>>
  BY DEF WorkerDies, DiesAtBoot, DiesVerifying, DiesBetween
<1> QED
  BY <1>1, <1>2, ExitIsSteady

\* A worker is spawned where none runs.
LEMMA SpawnedIsKnown ==
  ASSUME Typed, Typed', WorkIsKnown, NEW w \in Workers, Spawned(w), UNCHANGED <<job, forgotten>>,
         server' # "down",
         ~forgotten => \A x \in Workers : ~Live(x)
  PROVE  WorkIsKnown'
<1>1. worker \in [Workers -> Processes] /\ At(w, "unborn")
  BY DEF Typed, Types, ProcessTypes, Spawned
<1>2. /\ worker' = [worker EXCEPT ![w].run = "boot"] /\ active' = w /\ w \in linked'
      /\ job' = job /\ forgotten' = forgotten
  BY DEF Spawned, Goto
<1>3. /\ \A x \in Workers \ {w} : worker'[x] = worker[x]
      /\ worker'[w].run = "boot" /\ worker'[w].outbox = worker[w].outbox
  BY <1>1, <1>2 DEF Processes
<1>4. Employed'
  BY <1>2, <1>3 DEF Employed, Live
<1>5. ReportsAreTrue'
  BY <1>1, <1>2, <1>3 DEF ReportsAreTrue, WorkIsKnown, At
<1>6. ~job[w].exited
  BY <1>1 DEF ReportsAreTrue, WorkIsKnown, At
<1>7. EntryIsKept'
  BY <1>2, <1>6 DEF EntryIsKept
<1> QED
  BY <1>4, <1>5, <1>7 DEF WorkIsKnown

LEMMA StartIsKnown ==
  ASSUME Typed, Typed', WorkIsKnown, NEW w \in Workers, Start(w)
  PROVE  WorkIsKnown'
<1>1. /\ server # "down" /\ server' = server /\ ~Blocks /\ Spawned(w)
      /\ UNCHANGED <<job, forgotten>>
  BY DEF Start, historyVars
<1>2. ASSUME ~forgotten, NEW x \in Workers, Live(x) PROVE FALSE
  <2>1. active = x
    BY <1>2 DEF WorkIsKnown, Employed
  <2>2. job[x].error
    BY <1>1, <2>1 DEF Blocks
  <2> QED
    BY <1>2, <2>2 DEF WorkIsKnown, ReportsAreTrue, Live, At
<1> QED
  BY <1>1, <1>2, SpawnedIsKnown

LEMMA RestartIsKnown ==
  ASSUME Typed, Typed', WorkIsKnown, Restart
  PROVE  WorkIsKnown'
<1>1. server = "down" /\ server' = "up" /\ UNCHANGED <<job, forgotten>>
  BY DEF Restart, historyVars
<1>2. ~forgotten => \A x \in Workers : ~Live(x)
  BY <1>1 DEF WorkIsKnown, Employed
<1>3. CASE Recovers /\ ~Interrupted
  <2>1. PICK w \in Workers : Spawned(w)
    BY <1>3 DEF Restart
  <2> QED
    BY <1>1, <1>2, <2>1, SpawnedIsKnown
<1>4. CASE ~(Recovers /\ ~Interrupted)
  <2>1. active' \in { NoChild, NoWorker } /\ UNCHANGED <<worker, linked>>
    BY <1>4 DEF Restart
  <2>2. active' \notin Workers
    BY <2>1, WorkersAssumption
  <2>3. Employed'
    BY <1>1, <1>2, <2>1 DEF Employed, Live
  <2>4. ReportsAreTrue'
    BY <1>1, <2>1 DEF ReportsAreTrue, WorkIsKnown, At
  <2>5. EntryIsKept'
    BY <1>1, <2>2 DEF EntryIsKept
  <2> QED
    BY <2>3, <2>4, <2>5 DEF WorkIsKnown
<1> QED
  BY <1>3, <1>4

\* The entry is dropped: who runs then is forgotten.
LEMMA DropIsKnown ==
  ASSUME Typed, WorkIsKnown, Drop, UNCHANGED <<worker, linked, job>>
  PROVE  WorkIsKnown'
<1>1. active' = NoWorker /\ forgotten' = (forgotten \/ (active \in Workers /\ ~job[active].exited))
  BY DEF Drop
<1>2. active' \notin Workers
  BY <1>1, WorkersAssumption
<1>3. ASSUME ~forgotten', NEW w \in Workers, Live(w)' PROVE FALSE
  <2>1. Live(w) /\ ~forgotten
    BY <1>1, <1>3 DEF Live
  <2>2. active = w
    BY <2>1 DEF WorkIsKnown, Employed
  <2>3. job[w].exited
    BY <1>1, <1>3, <2>2
  <2> QED
    BY <2>1, <2>3 DEF WorkIsKnown, ReportsAreTrue, Live, At
<1>4. Employed'
  BY <1>3 DEF Employed
<1>5. ReportsAreTrue'
  BY DEF ReportsAreTrue, WorkIsKnown, At
<1>6. EntryIsKept'
  BY <1>2 DEF EntryIsKept
<1> QED
  BY <1>4, <1>5, <1>6 DEF WorkIsKnown

\* An inbox has a message more.
LEMMA InboxIsSteady ==
  ASSUME ProcessTypes, NEW w \in Workers, NEW q, worker' = [worker EXCEPT ![w].inbox = q]
  PROVE  Steady
<1>1. \A x \in Workers : worker'[x].run = worker[x].run /\ worker'[x].outbox = worker[x].outbox
  BY DEF ProcessTypes, Processes
<1> QED
  BY <1>1 DEF Steady, Live, At

LEMMA StopIsKnown ==
  ASSUME Typed, WorkIsKnown, NEW c \in Callers, NEW op \in { "cancel", "delete" }, Stop(c, op)
  PROVE  WorkIsKnown'
<1>1. UNCHANGED <<server, linked, job>>
  BY DEF Stop
<1>2. CASE Reachable
  <2>1. /\ worker' = [worker EXCEPT ![active].inbox = Append(@, Message(op))]
        /\ UNCHANGED <<active, forgotten>>
    BY <1>2 DEF Stop
  <2>2. active \in Workers /\ ProcessTypes
    BY <1>2 DEF Reachable, Typed, Types, ServerTypes
  <2>3. Steady
    BY <2>1, <2>2, InboxIsSteady DEF ProcessTypes
  <2>4. Employed' /\ ReportsAreTrue' /\ EntryIsKept'
    BY <1>1, <2>1, <2>3 DEF Employed, ReportsAreTrue, EntryIsKept, WorkIsKnown, Steady
  <2> QED
    BY <2>4 DEF WorkIsKnown
<1>3. CASE ~Reachable
  BY <1>1, <1>3, DropIsKnown DEF Stop
<1> QED
  BY <1>2, <1>3

LEMMA ShutdownIsKnown ==
  ASSUME Typed, WorkIsKnown, Shutdown
  PROVE  WorkIsKnown'
<1>1. server = "up" /\ server' = "closing" /\ UNCHANGED <<linked, active, job, forgotten>>
  BY DEF Shutdown
<1>2. Steady
  <2>1. CASE active \in linked
    <3>1. active \in Workers /\ ProcessTypes
      BY <2>1 DEF Typed, Types, ServerTypes
    <3> QED
      BY <2>1, <3>1, InboxIsSteady DEF Shutdown, ProcessTypes
  <2>2. CASE active \notin linked
    BY <2>2 DEF Shutdown, Steady, Live, At
  <2> QED
    BY <2>1, <2>2
<1>3. Employed' /\ ReportsAreTrue' /\ EntryIsKept'
  BY <1>1, <1>2 DEF Employed, ReportsAreTrue, EntryIsKept, WorkIsKnown, Steady
<1> QED
  BY <1>3 DEF WorkIsKnown

\* The server is gone: its jobs are, and who still runs is forgotten.
LEMMA ServerGoneIsKnown ==
  ASSUME Typed, WorkIsKnown, ServerGone, Steady,
         forgotten' = (forgotten \/ \E w \in Workers : Live(w)')
  PROVE  WorkIsKnown'
<1>1. server' = "down" /\ active' = NoWorker /\ job' = [w \in Workers |-> NewJob]
  BY DEF ServerGone
<1>2. Employed'
  BY DEF Employed
<1>3. \A w \in Workers : job'[w].error = FALSE /\ job'[w].exited = FALSE
  BY <1>1 DEF NewJob
<1>4. ReportsAreTrue'
  BY <1>3 DEF ReportsAreTrue, WorkIsKnown, Steady
<1>5. EntryIsKept'
  BY <1>1, <1>3 DEF EntryIsKept
<1> QED
  BY <1>2, <1>4, <1>5 DEF WorkIsKnown

LEMMA HeardIsKnown ==
  ASSUME Typed, WorkIsKnown, NEW w \in Workers, Heard(w)
  PROVE  WorkIsKnown'
<1>1. worker \in [Workers -> Processes]
      /\ job \in [Workers -> [error : BOOLEAN, completed : BOOLEAN, exited : BOOLEAN]]
  BY DEF Typed, Types, ProcessTypes, ServerTypes
<1>2. PICK e \in BOOLEAN, d \in BOOLEAN :
        /\ e = (job[w].error \/ worker[w].outbox = "failed")
        /\ job' = [job EXCEPT ![w].error = e, ![w].completed = d]
  <2>1. PICK e \in BOOLEAN, d \in BOOLEAN :
          /\ e = (job[w].error \/ worker[w].outbox = "failed")
          /\ d = (job[w].completed \/ worker[w].outbox = "completed")
    OBVIOUS
  <2> QED
    BY <2>1 DEF Heard
<1>3. /\ worker' = [worker EXCEPT ![w].outbox = "none"]
      /\ UNCHANGED <<server, linked, active, forgotten>>
  BY DEF Heard, historyVars
<1>4. \A x \in Workers : /\ worker'[x].run = worker[x].run
                         /\ worker'[x].outbox \in { worker[x].outbox, "none" }
  BY <1>1, <1>3 DEF Processes
<1>5. /\ \A x \in Workers \ {w} : job'[x] = job[x]
      /\ job'[w].error = e /\ job'[w].exited = job[w].exited
  BY <1>1, <1>2
<1>6. Employed'
  BY <1>3, <1>4 DEF Employed, WorkIsKnown, Live
<1>7. ReportsAreTrue'
  <2>1. SUFFICES ASSUME NEW x \in Workers,
                        worker'[x].outbox = "failed" \/ job'[x].error \/ job'[x].exited
                 PROVE  At(x, "dead")
    BY <1>4 DEF ReportsAreTrue, At
  <2>2. worker[x].outbox = "failed" \/ job[x].error \/ job[x].exited
    <3>1. CASE x = w
      BY <1>2, <1>4, <1>5, <2>1, <3>1
    <3>2. CASE x # w
      BY <1>4, <1>5, <2>1, <3>2
    <3> QED
      BY <3>1, <3>2
  <2> QED
    BY <2>2 DEF ReportsAreTrue, WorkIsKnown
<1>8. EntryIsKept'
  <2>1. SUFFICES ASSUME NEW x \in Workers, job'[x].exited, active = x
                 PROVE  job'[x].error
    BY <1>3 DEF EntryIsKept, WorkIsKnown
  <2>2. job[x].exited /\ job[x].error
    BY <1>5, <2>1 DEF EntryIsKept, WorkIsKnown
  <2>3. CASE x = w
    BY <1>2, <1>5, <2>2, <2>3
  <2>4. CASE x # w
    BY <1>5, <2>2, <2>4
  <2> QED
    BY <2>3, <2>4
<1> QED
  BY <1>6, <1>7, <1>8 DEF WorkIsKnown

LEMMA ExitedIsKnown ==
  ASSUME Typed, WorkIsKnown, NEW w \in Workers, Exited(w)
  PROVE  WorkIsKnown'
<1>1. job \in [Workers -> [error : BOOLEAN, completed : BOOLEAN, exited : BOOLEAN]]
  BY DEF Typed, Types, ServerTypes
<1>2. PICK e \in BOOLEAN : /\ e = (job[w].error \/ ~job[w].completed)
                           /\ job' = [job EXCEPT ![w].exited = TRUE, ![w].error = e]
  <2>1. PICK e \in BOOLEAN : e = (job[w].error \/ ~job[w].completed)
    OBVIOUS
  <2> QED
    BY <2>1 DEF Exited, JobAfterExit
<1>3. /\ worker' = worker /\ server' = server /\ linked' = linked /\ At(w, "dead")
      /\ IF job[w].completed \/ Listening(w) # {}
         THEN active' = NoWorker /\ forgotten' = (forgotten \/ active \in Workers \ {w})
         ELSE UNCHANGED <<active, forgotten>>
  BY DEF Exited
<1>4. /\ \A x \in Workers \ {w} : job'[x] = job[x]
      /\ job'[w].error = e /\ job'[w].exited = TRUE
  BY <1>1, <1>2
<1>5. ReportsAreTrue'
  <2>1. SUFFICES ASSUME NEW x \in Workers, x # w,
                        worker'[x].outbox = "failed" \/ job'[x].error \/ job'[x].exited
                 PROVE  At(x, "dead")
    BY <1>3 DEF ReportsAreTrue, At
  <2> QED
    BY <1>3, <1>4, <2>1 DEF ReportsAreTrue, WorkIsKnown
<1>6. CASE job[w].completed \/ Listening(w) # {}
  <2>1. active' = NoWorker /\ forgotten' = (forgotten \/ active \in Workers \ {w})
    BY <1>3, <1>6
  <2>2. active' \notin Workers
    BY <2>1, WorkersAssumption
  <2>3. ASSUME ~forgotten', NEW x \in Workers, Live(x)' PROVE FALSE
    <3>1. Live(x) /\ ~forgotten /\ active \notin Workers \ {w}
      BY <1>3, <2>1, <2>3 DEF Live
    <3>2. active = x
      BY <3>1 DEF WorkIsKnown, Employed
    <3> QED
      BY <1>3, <3>1, <3>2 DEF Live, At
  <2>4. Employed' /\ EntryIsKept'
    BY <2>2, <2>3 DEF Employed, EntryIsKept
  <2> QED
    BY <1>5, <2>4 DEF WorkIsKnown
<1>7. CASE ~(job[w].completed \/ Listening(w) # {})
  <2>1. active' = active /\ forgotten' = forgotten /\ e = TRUE
    BY <1>2, <1>3, <1>7
  <2>2. Employed'
    BY <1>3, <2>1 DEF Employed, WorkIsKnown, Live
  <2>3. \A x \in Workers : job'[x].exited /\ active' = x => job'[x].error
    BY <1>4, <2>1 DEF EntryIsKept, WorkIsKnown
  <2>4. EntryIsKept'
    BY <1>3, <2>1, <2>3 DEF EntryIsKept, WorkIsKnown
  <2> QED
    BY <1>5, <2>2, <2>4 DEF WorkIsKnown
<1> QED
  BY <1>6, <1>7

LEMMA NextKnown == ASSUME Typed, WorkIsKnown, [Next]_vars PROVE WorkIsKnown'
<1>1. Typed'
  BY NextTyped
<1>2. ASSUME NEW w \in Workers, WorkerStep(w) \/ ControlStep(w) \/ Signal(w)
      PROVE  WorkIsKnown'
  BY <1>1, <1>2, WorkerStepIsSteady, SteadyIsKnown
<1>3. ASSUME NEW w \in Workers,
             WorkerDies(w) \/ DiesAtBoot(w) \/ DiesVerifying(w) \/ DiesBetween(w)
      PROVE  WorkIsKnown'
  BY <1>1, <1>3, DeathIsSteady, SteadyIsKnown
<1>4. ASSUME NEW c \in Callers, Sent(c) PROVE WorkIsKnown'
  <2>1. UNCHANGED <<worker, server, linked, active, job, forgotten>>
    BY <1>4 DEF Sent, historyVars
  <2>2. Employed' /\ ReportsAreTrue' /\ EntryIsKept'
    BY <2>1 DEF WorkIsKnown, Employed, ReportsAreTrue, EntryIsKept, Live, At
  <2> QED
    BY <2>2 DEF WorkIsKnown
<1>5. ASSUME NEW c \in Callers, GaveUp(c) PROVE WorkIsKnown'
  BY <1>5, DropIsKnown DEF GaveUp
<1>6. CASE ServerDies
  <2>1. Steady /\ \A w \in Workers : Live(w)' <=> Live(w)
    BY <1>6 DEF ServerDies, Steady, Live, At
  <2> QED
    BY <1>6, <2>1, ServerGoneIsKnown DEF ServerDies
<1>7. CASE Closed
  <2>1. CASE active \in Workers
    <3>1. worker' = [worker EXCEPT ![active] = [Unborn EXCEPT !.run = "dead"]]
      BY <1>7, <2>1 DEF Closed
    <3>2. [Unborn EXCEPT !.run = "dead"].run = "dead"
      BY DEF Unborn
    <3>3. ProcessTypes /\ ProcessTypes' /\ worker \in [Workers -> Processes]
      BY <1>1 DEF Typed, Types, ProcessTypes
    <3>4. worker'[active].run = "dead" /\ \A x \in Workers \ {active} : worker'[x] = worker[x]
      BY <2>1, <3>1, <3>2, <3>3
    <3>5. Steady
      BY <2>1, <3>3, <3>4, OneIsSteady
    <3> QED
      BY <1>7, <3>5, ServerGoneIsKnown DEF Closed, Live
  <2>2. CASE active \notin Workers
    <3>1. Steady
      BY <1>7, <2>2 DEF Closed, Steady, Live, At
    <3> QED
      BY <1>7, <3>1, ServerGoneIsKnown DEF Closed, Live
  <2> QED
    BY <2>1, <2>2
<1>8. CASE UNCHANGED vars
  <2>1. UNCHANGED <<worker, server, linked, active, job, forgotten>>
    BY <1>8 DEF vars, serverVars, historyVars
  <2>2. Employed' /\ ReportsAreTrue' /\ EntryIsKept'
    BY <2>1 DEF WorkIsKnown, Employed, ReportsAreTrue, EntryIsKept, Live, At
  <2> QED
    BY <2>2 DEF WorkIsKnown
<1> QED
  BY <1>1, <1>2, <1>3, <1>4, <1>5, <1>6, <1>7, <1>8, HeardIsKnown, ExitedIsKnown, StartIsKnown,
     StopIsKnown, ShutdownIsKnown, RestartIsKnown
     DEF Next, System, ServerStep, Customer, Faults

LEMMA AlwaysKnown == Spec => [](Typed /\ WorkIsKnown)
<1>1. Init => Typed /\ WorkIsKnown
  BY InitTyped, InitKnown
<1>2. Typed /\ WorkIsKnown /\ [Next]_vars => (Typed /\ WorkIsKnown)'
  BY NextTyped, NextKnown
<1> QED
  BY <1>1, <1>2, PTL DEF Spec

\* As long as the server has not lost or dropped one it had not seen exit, a running worker
\* is the one activeJobs names: it can be stopped, and no second one works on the mission.
THEOREM WorkersAreKnown == Spec => []RunningWorkIsKnown
<1>1. WorkIsKnown => RunningWorkIsKnown
  BY DEF WorkIsKnown, Employed, RunningWorkIsKnown
<1> QED
  BY <1>1, AlwaysKnown, PTL

\* When nobody works on the mission and the server has seen every exit, the start route
\* accepts: every exit leaves no entry, or one with an error.
THEOREM NobodyIsShutOut == Spec => []IdleMissionCanStart
<1>1. ASSUME WorkIsKnown, server # "down", \A w \in linked : job[w].exited PROVE ~Blocks
  BY <1>1 DEF WorkIsKnown, EntryIsKept, Blocks
<1>2. WorkIsKnown => IdleMissionCanStart
  BY <1>1 DEF IdleMissionCanStart
<1> QED
  BY <1>2, AlwaysKnown, PTL

-------------------------------------------------------------------------------
(* The previews, as long as no worker was forgotten.                       *)

\* The session a process is at is its own, and the newest until it is over; at the
\* verdict it runs, unless the process killed it because it was told to stop; the one it
\* was told to stop has no process left.
SessionIsOwn(w) ==
  /\ At(w, "probing") => /\ worker[w].session = Len(sessions) + 1
                          /\ <<w, worker[w].session>> \in alive
  /\ worker[w].session \in DOMAIN sessions => sessions[worker[w].session].by = w
  /\ At(w, "health") =>
       /\ last = worker[w].session /\ last = Len(sessions) /\ last # 0
       /\ Pid(last) \in alive \/ last \in cut
  /\ worker[w].control # "none" /\ worker[w].target # 0 => Pid(worker[w].target) \notin alive

SessionsAreOwn == ~forgotten => \A w \in Workers : Live(w) => SessionIsOwn(w)

\* A mission that was left at its verification has the preview that is to be delivered, and
\* whoever came to it since has done nothing yet.
VerifiedIsUp ==
  ~forgotten /\ ~deleted /\ mission = "VERIFYING" =>
    /\ last = Len(sessions) /\ last # 0 /\ (Pid(last) \in alive \/ last \in cut)
    /\ \A w \in Workers : Live(w) => worker[w].run \in { "boot", "failing" }
                                     /\ worker[w].session = 0

\* The evidence of a stop is captured after its session was killed, also where no fact
\* follows: whoever meets it and throws has no preview to leave behind.
CapturedStopsAreDead ==
  ~forgotten => \A n \in Nat : <<"stop", n>> \in evidence =>
                  n <= Len(sessions) /\ (n # 0 => Pid(n) \notin alive)

PreviewsAreSafe == SessionsAreOwn /\ VerifiedIsUp /\ StoppedPreviewsAreDead

\* What all of them rest on.
Settled == Typed /\ WorkIsKnown /\ PreviewsAreSafe /\ CapturedStopsAreDead

-------------------------------------------------------------------------------

LEMMA InitSafe == ASSUME Init PROVE PreviewsAreSafe
<1>1. \A w \in Workers : ~Live(w)
  BY DEF Init, Live, Unborn
<1>2. sessions = << >> /\ mission = "INTAKE"
  BY DEF Init, PreviewInit
<1> QED
  BY <1>1, <1>2 DEF PreviewsAreSafe, SessionsAreOwn, VerifiedIsUp, StoppedPreviewsAreDead

\* One worker at a time.
LEMMA NobodyElse ==
  ASSUME WorkIsKnown, ~forgotten, NEW w \in Workers, Live(w), NEW x \in Workers, Live(x)
  PROVE  x = w
BY DEF WorkIsKnown, Employed

\* The server can talk to a worker that runs.
LEMMA WorkerIsReachable ==
  ASSUME WorkIsKnown, ~forgotten, NEW w \in Workers, Live(w)
  PROVE  Reachable /\ active = w
<1>1. server # "down" /\ active = w
  BY DEF WorkIsKnown, Employed
<1>2. active \in linked /\ ~job[active].exited
  BY <1>1 DEF WorkIsKnown, EntryIsKept, ReportsAreTrue, Live, At
<1> QED
  BY <1>1, <1>2 DEF Reachable

\* Previews only end, and no process comes to a session.
LEMMA EndingsAreSafe ==
  ASSUME Typed, PreviewsAreSafe, forgotten => forgotten',
         sessions' = sessions, last' = last, alive' \subseteq alive, cut \subseteq cut',
         \A w \in Workers : ~forgotten' /\ Live(w)' =>
           /\ worker'[w].run \in { "probing", "health" } => alive' = alive
           /\ Live(w) /\ worker'[w].session = worker[w].session
           /\ worker'[w].control = worker[w].control /\ worker'[w].target = worker[w].target
           /\ worker'[w].run = worker[w].run \/ worker'[w].run \notin { "probing", "health" }
  PROVE  SessionsAreOwn' /\ StoppedPreviewsAreDead'
<1>1. \A n \in DOMAIN sessions : Pid(n)' = Pid(n)
  BY DEF Pid
<1>2. StoppedPreviewsAreDead'
  BY <1>1 DEF StoppedPreviewsAreDead, PreviewsAreSafe
<1>3. ASSUME ~forgotten', NEW w \in Workers, Live(w)' PROVE SessionIsOwn(w)'
  <2>1. SessionIsOwn(w)
    BY <1>3 DEF PreviewsAreSafe, SessionsAreOwn
  <2>2. Pid(worker[w].target)' = Pid(worker[w].target)
    BY <1>3 DEF Pid
  <2>3. (worker[w].control # "none" /\ worker[w].target # 0 => Pid(worker[w].target) \notin alive)'
    BY <1>3, <2>1 DEF SessionIsOwn, Pid
  <2>4. At(w, "health")' => (Pid(last) \in alive \/ last \in cut)'
    BY <1>3, <2>1 DEF SessionIsOwn, Pid, At
  <2> QED
    BY <1>3, <2>1, <2>3, <2>4 DEF SessionIsOwn, At
<1>4. SessionsAreOwn'
  BY <1>3 DEF SessionsAreOwn
<1> QED
  BY <1>2, <1>4

\* Nobody runs, and what is recorded as stopped has no process.
LEMMA StopsAreSafe ==
  ASSUME Typed, PreviewsAreSafe, forgotten => forgotten',
         NEW n \in 0..Len(sessions), n = 0 \/ forgotten \/ Pid(n) \notin alive',
         FixedStop(n), alive' \subseteq alive
  PROVE  StoppedPreviewsAreDead'
<1>1. CASE StopIsDuplicate(n)
  BY <1>1 DEF FixedStop, StoppedPreviewsAreDead, PreviewsAreSafe, Pid
<1>2. CASE ~StopIsDuplicate(n)
  <2>1. sessions' = [sessions EXCEPT ![n].status = "stopped"]
    BY <1>2 DEF FixedStop, StopRecorded
  <2>2. sessions \in Seq(Session) /\ Len(sessions) \in Nat
    BY DEF Typed, Types, PreviewTypes
  <2>3. /\ DOMAIN sessions' = DOMAIN sessions /\ DOMAIN sessions = 1..Len(sessions)
        /\ \A m \in DOMAIN sessions : /\ sessions'[m].by = sessions[m].by
                                      /\ m # n => sessions'[m] = sessions[m]
    BY <2>1, <2>2 DEF Session
  <2>4. SUFFICES ASSUME ~forgotten', NEW m \in DOMAIN sessions, sessions'[m].status = "stopped"
                 PROVE  <<sessions[m].by, m>> \notin alive'
    BY <2>3 DEF StoppedPreviewsAreDead, Pid
  <2>5. CASE m = n
    BY <2>3, <2>4, <2>5 DEF Pid
  <2>6. CASE m # n
    BY <2>3, <2>4, <2>6 DEF PreviewsAreSafe, StoppedPreviewsAreDead, Pid
  <2> QED
    BY <2>5, <2>6
<1> QED
  BY <1>1, <1>2

LEMMA LastStopIsSafe ==
  ASSUME Typed, PreviewsAreSafe, forgotten => forgotten', StopLast
  PROVE  StoppedPreviewsAreDead'
<1>1. CASE ToStop = {}
  BY <1>1 DEF StopLast, previewVars, StoppedPreviewsAreDead, PreviewsAreSafe, Pid
<1>2. CASE ToStop # {}
  <2>1. alive' = alive \ { Pid(last) } /\ FixedStop(last)
    BY <1>2 DEF StopLast, Killed
  <2>2. last \in 0..Len(sessions)
    BY DEF Typed, Types, PreviewTypes
  <2> QED
    BY <2>1, <2>2, StopsAreSafe
<1> QED
  BY <1>1, <1>2

LEMMA StopAtOnceIsSafe ==
  ASSUME Typed, PreviewsAreSafe, forgotten => forgotten', NEW op, StopAtOnce(op)
  PROVE  StoppedPreviewsAreDead'
<1>1. CASE NothingToStop(op)
  BY <1>1 DEF StopAtOnce, previewVars, StoppedPreviewsAreDead, PreviewsAreSafe, Pid
<1>2. CASE ~NothingToStop(op)
  BY <1>2, LastStopIsSafe DEF StopAtOnce
<1> QED
  BY <1>1, <1>2

\* A worker at work is at a mission that is not left at its verification.
LEMMA BusyIsSafe ==
  ASSUME PreviewsAreSafe, NEW w \in Workers, Live(w), worker[w].run \notin { "boot", "failing" },
         forgotten => forgotten', deleted => deleted',
         mission' = "VERIFYING" => mission = "VERIFYING"
  PROVE  VerifiedIsUp'
BY DEF PreviewsAreSafe, VerifiedIsUp

-------------------------------------------------------------------------------

LEMMA ForgottenIsSafe == ASSUME forgotten' PROVE PreviewsAreSafe'
BY DEF PreviewsAreSafe, SessionsAreOwn, VerifiedIsUp, StoppedPreviewsAreDead

\* Where one worker runs, the others need no look.
LEMMA OneIsOwn ==
  ASSUME WorkIsKnown, ~forgotten, NEW w \in Workers, Live(w), Steady,
         Live(w)' => SessionIsOwn(w)'
  PROVE  SessionsAreOwn'
<1>1. ASSUME NEW x \in Workers, Live(x)' PROVE x = w
  BY <1>1, NobodyElse DEF Steady
<1> QED
  BY <1>1 DEF SessionsAreOwn

LEMMA NobodyIsOwn ==
  ASSUME WorkIsKnown, ~forgotten, NEW w \in Workers, Live(w), Typed,
         NEW sent \in { "none", "completed", "failed" }, Exit(w, sent)
  PROVE  SessionsAreOwn'
<1>1. worker \in [Workers -> Processes]
  BY DEF Typed, Types, ProcessTypes
<1>2. worker'[w].run = "dead" /\ \A x \in Workers \ {w} : worker'[x] = worker[x]
  BY <1>1, ExitBecomes, GoneIs DEF Becomes
<1>3. \A x \in Workers : ~Live(x)'
  BY <1>2, NobodyElse DEF Live
<1> QED
  BY <1>3 DEF SessionsAreOwn

LEMMA MoveIsSafe ==
  ASSUME Settled, NEW w \in Workers, NEW point, Live(w), Goto(w, point),
         point \notin { "probing", "health" }, forgotten => forgotten',
         sessions' = sessions, last' = last, alive' \subseteq alive, cut' = cut
  PROVE  SessionsAreOwn' /\ StoppedPreviewsAreDead'
<1> USE DEF Settled
<1>1. worker \in [Workers -> Processes]
  BY DEF Typed, Types, ProcessTypes
<1>2. /\ \A x \in Workers \ {w} : worker'[x] = worker[x]
      /\ worker'[w].run = point /\ worker'[w].session = worker[w].session
      /\ worker'[w].control = worker[w].control /\ worker'[w].target = worker[w].target
  BY <1>1 DEF Goto, Processes
<1>3. ~forgotten' => \A x \in Workers \ {w} : ~Live(x)'
  BY <1>2, NobodyElse DEF Live
<1> QED
  BY <1>2, <1>3, EndingsAreSafe DEF Live

LEMMA ExitIsSafe ==
  ASSUME Typed, PreviewsAreSafe, NEW w \in Workers,
         NEW sent \in { "none", "completed", "failed" }, Exit(w, sent), forgotten => forgotten',
         sessions' = sessions, last' = last, alive' = alive, cut' = cut
  PROVE  SessionsAreOwn' /\ StoppedPreviewsAreDead'
<1>1. worker \in [Workers -> Processes]
  BY DEF Typed, Types, ProcessTypes
<1>2. worker'[w].run = "dead" /\ \A x \in Workers \ {w} : worker'[x] = worker[x]
  BY <1>1, ExitBecomes, GoneIs DEF Becomes
<1> QED
  BY <1>2, EndingsAreSafe DEF Live

\* A conclusion changes neither the processes' sessions nor the previews.
LEMMA ConcludeIsSafe ==
  ASSUME Typed, PreviewsAreSafe, NEW w \in Workers, Live(w), Conclude(w),
         forgotten => forgotten', sessions' = sessions, last' = last, alive' = alive, cut' = cut
  PROVE  SessionsAreOwn' /\ StoppedPreviewsAreDead' /\ VerifiedIsUp'
<1>1. mission' # "VERIFYING"
  BY DEF Conclude
<1>2. VerifiedIsUp'
  BY <1>1 DEF VerifiedIsUp
<1>3. CASE w \in linked
  <2>1. worker' = [worker EXCEPT ![w].run = "idle", ![w].outbox = "completed"]
    BY <1>3 DEF Conclude
  <2>2. worker \in [Workers -> Processes]
    BY DEF Typed, Types, ProcessTypes
  <2>3. /\ \A x \in Workers \ {w} : worker'[x] = worker[x]
        /\ worker'[w].run = "idle" /\ worker'[w].session = worker[w].session
        /\ worker'[w].control = worker[w].control /\ worker'[w].target = worker[w].target
    BY <2>1, <2>2 DEF Processes
  <2>4. SessionsAreOwn' /\ StoppedPreviewsAreDead'
    BY <2>3, EndingsAreSafe DEF Live
  <2> QED
    BY <1>2, <2>4
<1>4. CASE w \notin linked
  <2>1. SessionsAreOwn' /\ StoppedPreviewsAreDead'
    BY <1>4, ExitIsSafe DEF Conclude
  <2> QED
    BY <1>2, <2>1
<1> QED
  BY <1>3, <1>4

-------------------------------------------------------------------------------

LEMMA BootIsSafe ==
  ASSUME Settled, ~forgotten, NEW w \in Workers, BootFresh(w) \/ BootVerify(w) \/ BootThrows(w)
  PROVE  PreviewsAreSafe'
<1> USE DEF Settled
<1>1. /\ UNCHANGED previewVars /\ forgotten' = forgotten /\ Live(w) /\ At(w, "boot")
      /\ deleted' = deleted /\ cut' = cut
  BY DEF BootFresh, BootVerify, BootThrows, historyVars, ledgerVars, Live, At
<1>2. sessions' = sessions /\ last' = last /\ alive' = alive
  BY <1>1 DEF previewVars
<1>3. CASE BootFresh(w)
  <2>1. mission' = "EXECUTING" /\ \E point \in { "build", "answering" } : Goto(w, point)
    BY <1>3, RequestGoes DEF BootFresh, Typed, Types
  <2>2. SessionsAreOwn' /\ StoppedPreviewsAreDead'
    BY <1>1, <1>2, <2>1, MoveIsSafe
  <2>3. VerifiedIsUp'
    BY <2>1 DEF VerifiedIsUp
  <2> QED
    BY <2>2, <2>3 DEF PreviewsAreSafe
<1>4. CASE BootVerify(w)
  BY <1>1, <1>2, <1>4, ConcludeIsSafe DEF BootVerify, PreviewsAreSafe
<1>5. CASE BootThrows(w)
  <2>1. Goto(w, "failing") /\ mission' = mission
    BY <1>5 DEF BootThrows, ledgerVars
  <2>2. SessionsAreOwn' /\ StoppedPreviewsAreDead'
    BY <1>1, <1>2, <2>1, MoveIsSafe
  <2>3. worker \in [Workers -> Processes]
    BY DEF Typed, Types, ProcessTypes
  <2>4. /\ \A x \in Workers \ {w} : worker'[x] = worker[x]
        /\ worker'[w].run = "failing" /\ worker'[w].session = worker[w].session
    BY <2>1, <2>3 DEF Goto, Processes
  <2>5. VerifiedIsUp'
    BY <1>1, <1>2, <2>1, <2>4 DEF VerifiedIsUp, PreviewsAreSafe, Live, Pid
  <2> QED
    BY <2>2, <2>5 DEF PreviewsAreSafe
<1> QED
  BY <1>3, <1>4, <1>5

LEMMA ResumeIsSafe ==
  ASSUME Settled, Typed', ~forgotten, NEW w \in Workers, BootResume(w)
  PROVE  PreviewsAreSafe'
<1> USE DEF Settled
<1>1. /\ forgotten' = forgotten /\ Live(w) /\ At(w, "boot") /\ mission = "EXECUTING"
      /\ mission' = mission /\ cut' = cut
  BY DEF BootResume, historyVars, Live, At, Executing
<1>2. PICK point \in { "build", "answering" } : Goto(w, point)
  BY RequestGoes DEF BootResume, Typed, Types
<1>3. VerifiedIsUp'
  BY <1>1 DEF VerifiedIsUp
<1>4. CASE observed /\ OpenSessions # {}
  <2>1. /\ alive' = alive \ { Pid(n) : n \in OpenSessions }
        /\ sessions' = [n \in DOMAIN sessions |-> [sessions[n] EXCEPT !.status = "stopped"]]
    BY <1>4 DEF BootResume
  <2>2. \A n \in DOMAIN sessions : sessions[n] \in Session
    BY DEF Typed, Types, PreviewTypes
  <2>3. /\ DOMAIN sessions' = DOMAIN sessions
        /\ \A n \in DOMAIN sessions : sessions'[n].by = sessions[n].by
    BY <2>1, <2>2 DEF Session
  <2>4. StoppedPreviewsAreDead'
    <3>1. SUFFICES ASSUME NEW n \in DOMAIN sessions
                   PROVE  <<sessions[n].by, n>> \notin alive'
      BY <2>3 DEF StoppedPreviewsAreDead, Pid
    <3>2. CASE n \in OpenSessions
      BY <2>1, <3>2 DEF Pid
    <3>3. CASE n \notin OpenSessions
      BY <2>1, <3>3 DEF OpenSessions, PreviewsAreSafe, StoppedPreviewsAreDead, Pid
    <3> QED
      BY <3>2, <3>3
  <2>5. worker \in [Workers -> Processes]
    BY DEF Typed, Types, ProcessTypes
  <2>6. /\ worker'[w].run = point /\ worker'[w].session = worker[w].session
        /\ worker'[w].control = worker[w].control /\ worker'[w].target = worker[w].target
    BY <1>2, <2>5 DEF Goto, Processes
  <2>7. worker[w].target \in Nat /\ worker[w].target <= Len(sessions)
        /\ Len(sessions) \in Nat /\ DOMAIN sessions = 1..Len(sessions)
    BY <2>5 DEF Typed, Types, NumbersAre, Numbered, PreviewTypes, Processes
  <2>8. SessionIsOwn(w)
    BY <1>1 DEF PreviewsAreSafe, SessionsAreOwn
  <2>9. worker[w].control # "none" /\ worker[w].target # 0
          => <<sessions'[worker[w].target].by, worker[w].target>> \notin alive'
    <3>1. ASSUME worker[w].target # 0 PROVE worker[w].target \in DOMAIN sessions
      BY <2>7, <3>1
    <3>2. SUFFICES ASSUME worker[w].control # "none", worker[w].target # 0
                   PROVE  <<sessions'[worker[w].target].by, worker[w].target>> \notin alive'
      OBVIOUS
    <3>3. sessions'[worker[w].target].by = sessions[worker[w].target].by
      BY <2>3, <3>1, <3>2
    <3>4. <<sessions[worker[w].target].by, worker[w].target>> \notin alive
      BY <2>8, <3>2 DEF SessionIsOwn, Pid
    <3> QED
      BY <2>1, <3>3, <3>4
  <2>10. SessionIsOwn(w)'
    <3>1. ~At(w, "probing")' /\ ~At(w, "health")'
      BY <2>6 DEF At
    <3> QED
      BY <2>3, <2>6, <2>8, <2>9, <3>1 DEF SessionIsOwn, Pid
  <2>11. Steady
    BY <1>1, <1>2, GotoIsSteady
  <2>12. SessionsAreOwn'
    BY <1>1, <2>10, <2>11, OneIsOwn
  <2> QED
    BY <1>3, <2>4, <2>12 DEF PreviewsAreSafe
<1>5. CASE ~(observed /\ OpenSessions # {})
  <2>1. sessions' = sessions /\ last' = last /\ alive' \subseteq alive
    BY <1>5 DEF BootResume, previewVars
  <2>2. SessionsAreOwn' /\ StoppedPreviewsAreDead'
    BY <1>1, <1>2, <2>1, MoveIsSafe
  <2> QED
    BY <1>3, <2>2 DEF PreviewsAreSafe
<1> QED
  BY <1>4, <1>5

LEMMA PlainMoveIsSafe ==
  ASSUME Settled, ~forgotten, NEW w \in Workers, Answer(w) \/ Build(w) \/ Throw(w)
  PROVE  PreviewsAreSafe'
<1> USE DEF Settled
<1>1. /\ UNCHANGED previewVars /\ forgotten' = forgotten /\ deleted' = deleted /\ cut' = cut
      /\ Live(w) /\ worker[w].run \notin { "boot", "failing" }
      /\ mission' = "VERIFYING" => mission = "VERIFYING"
      /\ \E point \in { "build", "launch", "failing" } : Goto(w, point)
  BY DEF Answer, Build, Throw, Transition, historyVars, ledgerVars, Live, At
<1>2. sessions' = sessions /\ last' = last /\ alive' \subseteq alive
  BY <1>1 DEF previewVars
<1>3. SessionsAreOwn' /\ StoppedPreviewsAreDead'
  BY <1>1, <1>2, MoveIsSafe
<1>4. VerifiedIsUp'
  BY <1>1, BusyIsSafe
<1> QED
  BY <1>3, <1>4 DEF PreviewsAreSafe

LEMMA LaunchIsSafe ==
  ASSUME Settled, Typed', ~forgotten, NEW w \in Workers, Launch(w)
  PROVE  PreviewsAreSafe'
<1> USE DEF Settled
<1>1. /\ forgotten' = forgotten /\ deleted' = deleted /\ mission' = mission
      /\ Live(w) /\ worker[w].run \notin { "boot", "failing" }
      /\ worker' = [worker EXCEPT ![w].run = "probing", ![w].session = NextSession]
      /\ alive' = alive \union { <<w, NextSession>> } /\ sessions' = sessions /\ last' = last
  BY DEF Launch, Spawn, historyVars, ledgerVars, Live, At
<1>2. VerifiedIsUp'
  BY <1>1, BusyIsSafe
<1>3. Len(sessions) \in Nat /\ DOMAIN sessions = 1..Len(sessions)
      /\ worker \in [Workers -> Processes]
  BY DEF Typed, Types, PreviewTypes, ProcessTypes
<1>4. NextSession = Len(sessions) + 1 /\ \A n \in DOMAIN sessions : n # NextSession
  BY <1>3 DEF NextSession
<1>5. StoppedPreviewsAreDead'
  BY <1>1, <1>4 DEF StoppedPreviewsAreDead, PreviewsAreSafe, Pid
<1>6. /\ worker'[w].run = "probing" /\ worker'[w].session = NextSession
      /\ worker'[w].control = worker[w].control /\ worker'[w].target = worker[w].target
  BY <1>1, <1>3 DEF Processes
<1>7. worker[w].target <= Len(sessions) /\ worker[w].target \in Nat
  BY <1>3 DEF Typed, NumbersAre, Numbered, Processes
<1>8. SessionIsOwn(w)
  BY <1>1 DEF PreviewsAreSafe, SessionsAreOwn
<1>9. SessionIsOwn(w)'
  <2>1. At(w, "probing")' => /\ worker'[w].session = Len(sessions') + 1
                             /\ <<w, worker'[w].session>> \in alive'
    BY <1>1, <1>4, <1>6
  <2>2. worker'[w].session \notin DOMAIN sessions'
    BY <1>1, <1>4, <1>6
  <2>3. ~At(w, "health")'
    BY <1>6 DEF At
  <2>4. worker[w].target # NextSession
    BY <1>3, <1>4, <1>7
  <2>5. worker[w].control # "none" /\ worker[w].target # 0
          => <<sessions[worker[w].target].by, worker[w].target>> \notin alive'
    BY <1>1, <1>8, <2>4 DEF SessionIsOwn, Pid
  <2> QED
    BY <1>1, <1>6, <2>1, <2>2, <2>3, <2>5 DEF SessionIsOwn, Pid
<1>10. Steady
  BY WorkerStepIsSteady DEF WorkerStep
<1>11. SessionsAreOwn'
  BY <1>1, <1>9, <1>10, OneIsOwn
<1> QED
  BY <1>2, <1>5, <1>11 DEF PreviewsAreSafe

LEMMA ProbeIsSafe ==
  ASSUME Settled, Typed', ~forgotten, NEW w \in Workers, Probe(w)
  PROVE  PreviewsAreSafe'
<1> USE DEF Settled
<1> DEFINE n == worker[w].session
<1>1. /\ forgotten' = forgotten /\ deleted' = deleted /\ mission' = mission /\ cut' = cut
      /\ Live(w) /\ worker[w].run \notin { "boot", "failing" } /\ At(w, "probing")
  BY DEF Probe, historyVars, ledgerVars, Live, At
<1>2. VerifiedIsUp'
  BY <1>1, BusyIsSafe
<1>3. Len(sessions) \in Nat /\ DOMAIN sessions = 1..Len(sessions)
      /\ worker \in [Workers -> Processes] /\ PreviewTypes
  BY DEF Typed, Types, PreviewTypes, ProcessTypes
<1>4. SessionIsOwn(w) /\ n = Len(sessions) + 1 /\ n \in Nat /\ <<w, n>> \in alive
  BY <1>1, <1>3 DEF PreviewsAreSafe, SessionsAreOwn, SessionIsOwn
<1>5. PICK ready \in BOOLEAN :
        IF StartIsDuplicate(n) \/ ~Replayable
        THEN /\ alive' = IF ready THEN alive ELSE alive \ { <<w, n>> }
             /\ UNCHANGED <<sessions, last, evidence>>
             /\ Goto(w, "failing")
        ELSE /\ Started(w, n, ready)
             /\ Goto(w, IF ~ready THEN "failing"
                        ELSE IF worker[w].certifying THEN "health" ELSE "observe")
  BY DEF Probe
<1>6. CASE StartIsDuplicate(n) \/ ~Replayable
  <2>1. /\ alive' \subseteq alive /\ sessions' = sessions /\ last' = last
        /\ Goto(w, "failing")
    BY <1>5, <1>6
  <2>2. SessionsAreOwn' /\ StoppedPreviewsAreDead'
    BY <1>1, <2>1, MoveIsSafe
  <2> QED
    BY <1>2, <2>2 DEF PreviewsAreSafe
<1>7. CASE ~(StartIsDuplicate(n) \/ ~Replayable)
  <2>1. Started(w, n, ready) /\ last' = n
    BY <1>5, <1>7 DEF Started
  <2>2. /\ PreviewTypes' /\ Len(sessions') = n /\ alive' \subseteq alive
        /\ \A i \in 1..Len(sessions) : sessions'[i] = sessions[i]
        /\ sessions'[n] = [by |-> w, status |-> IF ready THEN "up" ELSE "failed"]
    BY <1>3, <1>4, <2>1, StartIsTyped
  <2>3. DOMAIN sessions' = 1..n /\ \A m \in 1..n : m = n \/ m \in 1..Len(sessions)
    BY <1>3, <1>4, <2>2 DEF PreviewTypes
  <2>4. sessions'[n].by = w /\ sessions'[n].status = IF ready THEN "up" ELSE "failed"
    BY <2>2
  <2>5. StoppedPreviewsAreDead'
    BY <1>1, <1>3, <2>2, <2>3, <2>4 DEF StoppedPreviewsAreDead, PreviewsAreSafe, Pid
  <2>6. PICK point \in { "failing", "health", "observe" } :
          Goto(w, point) /\ (point = "health" => ready)
    BY <1>5, <1>7
  <2>7. /\ worker'[w].run = point /\ worker'[w].session = n
        /\ worker'[w].control = worker[w].control /\ worker'[w].target = worker[w].target
    BY <1>3, <2>6 DEF Goto, Processes
  <2>8. worker[w].target <= Len(sessions) /\ worker[w].target \in Nat
    BY <1>3 DEF Typed, NumbersAre, Numbered, Processes
  <2>9. SessionIsOwn(w)'
    <3>1. ~At(w, "probing")'
      BY <2>7 DEF At
    <3>2. sessions'[worker'[w].session].by = w
      BY <2>4, <2>7
    <3>3. At(w, "health")' => /\ last' = worker'[w].session /\ last' = Len(sessions')
                              /\ last' # 0 /\ <<sessions'[last'].by, last'>> \in alive'
      BY <1>3, <1>4, <2>1, <2>2, <2>4, <2>6, <2>7 DEF At, Started
    <3>4. ASSUME worker[w].control # "none", worker[w].target # 0
          PROVE  <<sessions'[worker[w].target].by, worker[w].target>> \notin alive'
      <4>1. worker[w].target \in 1..Len(sessions)
        BY <1>3, <2>8, <3>4
      <4>2. sessions'[worker[w].target] = sessions[worker[w].target]
        BY <2>2, <4>1
      <4>3. <<sessions[worker[w].target].by, worker[w].target>> \notin alive
        BY <1>4, <3>4 DEF SessionIsOwn, Pid
      <4> QED
        BY <2>2, <4>2, <4>3
    <3> QED
      BY <2>7, <3>1, <3>2, <3>3, <3>4 DEF SessionIsOwn, Pid
  <2>10. Steady
    BY WorkerStepIsSteady DEF WorkerStep
  <2>11. SessionsAreOwn'
    BY <1>1, <2>9, <2>10, OneIsOwn
  <2> QED
    BY <1>2, <2>5, <2>11 DEF PreviewsAreSafe
<1> QED
  BY <1>6, <1>7

LEMMA ObserveIsSafe ==
  ASSUME Settled, ~forgotten, NEW w \in Workers, Observe(w)
  PROVE  PreviewsAreSafe'
<1> USE DEF Settled
<1>1. /\ forgotten' = forgotten /\ deleted' = deleted
      /\ Live(w) /\ worker[w].run \notin { "boot", "failing" }
      /\ mission' = "VERIFYING" => mission = "VERIFYING"
      /\ sessions' = sessions /\ last' = last /\ alive' \subseteq alive /\ cut' = cut
  BY DEF Observe, Transition, historyVars, Live, At
<1>2. VerifiedIsUp'
  BY <1>1, BusyIsSafe
<1>3. CASE worker' = [worker EXCEPT ![w].run = "halting", ![w].certifying = TRUE]
  <2>1. worker \in [Workers -> Processes]
    BY DEF Typed, Types, ProcessTypes
  <2>2. /\ \A x \in Workers \ {w} : worker'[x] = worker[x]
        /\ worker'[w].run = "halting" /\ worker'[w].session = worker[w].session
        /\ worker'[w].control = worker[w].control /\ worker'[w].target = worker[w].target
    BY <1>3, <2>1 DEF Processes
  <2>3. \A x \in Workers \ {w} : ~Live(x)'
    BY <1>1, <2>2, NobodyElse DEF Live
  <2>4. SessionsAreOwn' /\ StoppedPreviewsAreDead'
    BY <1>1, <2>2, <2>3, EndingsAreSafe DEF Live
  <2> QED
    BY <1>2, <2>4 DEF PreviewsAreSafe
<1>4. CASE \E point \in { "halting", "failing" } : Goto(w, point)
  <2>1. SessionsAreOwn' /\ StoppedPreviewsAreDead'
    BY <1>1, <1>4, MoveIsSafe
  <2> QED
    BY <1>2, <2>1 DEF PreviewsAreSafe
<1> QED
  BY <1>3, <1>4 DEF Observe

\* A process that killed its preview has none, and the session was its own.
LEMMA KilledIsDead ==
  ASSUME Settled, ~forgotten, NEW w \in Workers, worker[w].run \in { "halting", "stopping" }
  PROVE  worker[w].session = 0 \/ Pid(worker[w].session) \notin alive
<1>1. Live(w) /\ ~At(w, "dead")
  BY DEF Live, At
<1>2. \A n \in Nat : <<w, n>> \notin alive
  BY <1>1 DEF Settled, Typed, PreviewsAreOwn
<1>3. /\ worker[w].session \in Nat /\ worker[w].session <= Len(sessions)
      /\ Len(sessions) \in Nat /\ DOMAIN sessions = 1..Len(sessions)
  BY DEF Settled, Typed, Types, ProcessTypes, Processes, NumbersAre, Numbered, PreviewTypes
<1>4. worker[w].session # 0 => worker[w].session \in DOMAIN sessions
  BY <1>3
<1>5. worker[w].session # 0 => sessions[worker[w].session].by = w
  BY <1>1, <1>4 DEF Settled, PreviewsAreSafe, SessionsAreOwn, SessionIsOwn
<1> QED
  BY <1>2, <1>3, <1>5 DEF Pid

LEMMA HaltedIsSafe ==
  ASSUME Settled, Typed', ~forgotten, NEW w \in Workers, Halted(w)
  PROVE  PreviewsAreSafe'
<1> USE DEF Settled
<1>1. /\ forgotten' = forgotten /\ deleted' = deleted /\ mission' = mission
      /\ Live(w) /\ worker[w].run \notin { "boot", "failing" } /\ At(w, "halting")
      /\ alive' = alive
      /\ sessions' = [sessions EXCEPT ![worker[w].session].status = "stopped"]
      /\ worker' = [worker EXCEPT ![w].run = "launch", ![w].session = 0]
  BY DEF Halted, StopRecorded, historyVars, Live, At
<1>2. VerifiedIsUp'
  BY <1>1, BusyIsSafe
<1>3. worker \in [Workers -> Processes] /\ sessions \in Seq(Session) /\ Len(sessions) \in Nat
  BY DEF Typed, Types, PreviewTypes, ProcessTypes
<1>4. /\ DOMAIN sessions' = DOMAIN sessions /\ DOMAIN sessions = 1..Len(sessions)
      /\ \A m \in DOMAIN sessions : /\ sessions'[m].by = sessions[m].by
                                    /\ m # worker[w].session => sessions'[m] = sessions[m]
  BY <1>1, <1>3 DEF Session
<1>5. worker[w].session = 0 \/ Pid(worker[w].session) \notin alive
  BY <1>1, KilledIsDead DEF At
<1>6. StoppedPreviewsAreDead'
  <2>1. SUFFICES ASSUME NEW m \in DOMAIN sessions, sessions'[m].status = "stopped"
                 PROVE  <<sessions[m].by, m>> \notin alive
    BY <1>1, <1>4 DEF StoppedPreviewsAreDead, Pid
  <2>2. CASE m = worker[w].session
    BY <1>4, <1>5, <2>2 DEF Pid
  <2>3. CASE m # worker[w].session
    BY <1>4, <2>1, <2>3 DEF PreviewsAreSafe, StoppedPreviewsAreDead, Pid
  <2> QED
    BY <2>2, <2>3
<1>7. /\ worker'[w].run = "launch" /\ worker'[w].session = 0
      /\ worker'[w].control = worker[w].control /\ worker'[w].target = worker[w].target
  BY <1>1, <1>3 DEF Processes
<1>8. worker[w].target \in Nat /\ worker[w].target <= Len(sessions)
  BY <1>3 DEF Typed, NumbersAre, Numbered, Processes
<1>9. SessionIsOwn(w)
  BY <1>1 DEF PreviewsAreSafe, SessionsAreOwn
<1>10. ASSUME worker[w].control # "none", worker[w].target # 0
       PROVE  <<sessions'[worker[w].target].by, worker[w].target>> \notin alive
  <2>1. worker[w].target \in DOMAIN sessions
    BY <1>3, <1>4, <1>8, <1>10
  <2>2. <<sessions[worker[w].target].by, worker[w].target>> \notin alive
    BY <1>9, <1>10 DEF SessionIsOwn, Pid
  <2> QED
    BY <1>4, <2>1, <2>2
<1>11. worker'[w].session \notin DOMAIN sessions'
  <2>1. 0 \notin DOMAIN sessions'
    BY <1>3, <1>4
  <2>2. worker'[w].session = 0
    BY <1>7
  <2> QED
    BY <2>1, <2>2, Zenon
<1>12. SessionIsOwn(w)'
  <2>1. ~At(w, "probing")' /\ ~At(w, "health")'
    BY <1>7 DEF At
  <2>2. (worker[w].control # "none" /\ worker[w].target # 0
          => Pid(worker[w].target) \notin alive)'
    BY <1>1, <1>7, <1>10 DEF Pid
  <2> QED
    BY <1>11, <2>1, <2>2 DEF SessionIsOwn
<1>13. Steady
  BY WorkerStepIsSteady DEF WorkerStep
<1>14. SessionsAreOwn'
  BY <1>1, <1>12, <1>13, OneIsOwn
<1> QED
  BY <1>2, <1>6, <1>14 DEF PreviewsAreSafe

\* The session that is delivered has its process before and after.
LEMMA HealthIsSafe ==
  ASSUME Settled, Typed', ~forgotten, NEW w \in Workers, Health(w)
  PROVE  /\ PreviewsAreSafe'
         /\ last' = Len(sessions') /\ (<<sessions'[last'].by, last'>> \in alive' \/ last' \in cut')
<1> USE DEF Settled
<1>1. /\ forgotten' = forgotten /\ alive' = alive /\ cut' = cut /\ Live(w) /\ At(w, "health")
      /\ Conclude(w) /\ last' = worker[w].session /\ HealthRecorded(worker[w].session)
  BY DEF Health, HealthRecorded, historyVars, Live, At
<1>2. SessionIsOwn(w)
  BY <1>1 DEF PreviewsAreSafe, SessionsAreOwn
<1>3. /\ last = worker[w].session /\ last = Len(sessions) /\ last # 0
      /\ Pid(last) \in alive \/ last \in cut
  BY <1>1, <1>2 DEF SessionIsOwn
<1>4. /\ sessions \in Seq(Session) /\ Len(sessions) \in Nat
      /\ worker \in [Workers -> Processes]
  BY DEF Typed, Types, PreviewTypes, ProcessTypes
<1>5. /\ sessions' \in Seq(Session) /\ Len(sessions') = Len(sessions)
      /\ \A m \in DOMAIN sessions : sessions'[m].by = sessions[m].by
      /\ \A m \in DOMAIN sessions : sessions'[m].status = "stopped"
                                      => sessions[m].status = "stopped"
  BY <1>1, <1>3, <1>4, HealthIsSet
<1>6. DOMAIN sessions' = DOMAIN sessions /\ last \in DOMAIN sessions
  BY <1>3, <1>4, <1>5
<1>7. last' = Len(sessions') /\ (<<sessions'[last'].by, last'>> \in alive' \/ last' \in cut')
  BY <1>1, <1>3, <1>5, <1>6 DEF Pid
<1>8. StoppedPreviewsAreDead'
  BY <1>1, <1>5, <1>6 DEF StoppedPreviewsAreDead, PreviewsAreSafe, Pid
<1>9. VerifiedIsUp'
  BY <1>1 DEF VerifiedIsUp, Conclude
<1>10. CASE w \in linked
  <2>1. worker' = [worker EXCEPT ![w].run = "idle", ![w].outbox = "completed"]
    BY <1>1, <1>10 DEF Conclude
  <2>2. /\ worker'[w].run = "idle" /\ worker'[w].session = worker[w].session
        /\ worker'[w].control = worker[w].control /\ worker'[w].target = worker[w].target
    BY <1>4, <2>1 DEF Processes
  <2>3. worker[w].target \in Nat /\ worker[w].target <= Len(sessions)
    BY <1>4 DEF Typed, NumbersAre, Numbered, Processes
  <2>4. ASSUME worker[w].control # "none", worker[w].target # 0
        PROVE  <<sessions'[worker[w].target].by, worker[w].target>> \notin alive
    <3>1. worker[w].target \in DOMAIN sessions
      BY <1>4, <2>3, <2>4
    <3>2. <<sessions[worker[w].target].by, worker[w].target>> \notin alive
      BY <1>2, <2>4 DEF SessionIsOwn, Pid
    <3> QED
      BY <1>5, <3>1, <3>2
  <2>5. sessions'[worker'[w].session].by = w
    BY <1>2, <1>3, <1>5, <1>6, <2>2 DEF SessionIsOwn
  <2>6. SessionIsOwn(w)'
    <3>1. ~At(w, "probing")' /\ ~At(w, "health")'
      BY <2>2 DEF At
    <3>2. (worker[w].control # "none" /\ worker[w].target # 0
            => Pid(worker[w].target) \notin alive)'
      BY <1>1, <2>2, <2>4 DEF Pid
    <3> QED
      BY <2>5, <3>1, <3>2 DEF SessionIsOwn
  <2>7. Steady
    BY WorkerStepIsSteady DEF WorkerStep
  <2>8. SessionsAreOwn'
    BY <1>1, <2>6, <2>7, OneIsOwn
  <2> QED
    BY <1>7, <1>8, <1>9, <2>8 DEF PreviewsAreSafe
<1>11. CASE w \notin linked
  <2>1. SessionsAreOwn'
    BY <1>1, <1>11, NobodyIsOwn DEF Conclude
  <2> QED
    BY <1>7, <1>8, <1>9, <2>1 DEF PreviewsAreSafe
<1> QED
  BY <1>10, <1>11

LEMMA FailIsSafe ==
  ASSUME Settled, ~forgotten, NEW w \in Workers, Fail(w)
  PROVE  PreviewsAreSafe'
<1> USE DEF Settled
<1>1. forgotten' = forgotten /\ deleted' = deleted /\ provisioned' = provisioned
      /\ Live(w) /\ At(w, "failing") /\ cut' = cut
  BY DEF Fail, historyVars, Live, At
<1>2. CASE /\ MustWait(w) /\ alive' = alive \ { <<w, last>> } /\ Goto(w, "stopping")
           /\ UNCHANGED <<mission, sessions, last, evidence>>
  <2>1. SessionsAreOwn' /\ StoppedPreviewsAreDead'
    BY <1>1, <1>2, MoveIsSafe
  <2>2. last = worker[w].session /\ last # 0
    <3>1. last \in Nat
      BY DEF Typed, Types, PreviewTypes
    <3> QED
      BY <1>1, <1>2, <3>1 DEF MustWait, OwnPreview, Typed, PreviewsAreOwn, At
  <2>3. deleted \/ mission # "VERIFYING"
    BY <1>1, <2>2 DEF PreviewsAreSafe, VerifiedIsUp
  <2>4. VerifiedIsUp'
    BY <1>1, <1>2, <2>3 DEF VerifiedIsUp
  <2> QED
    BY <2>1, <2>4 DEF PreviewsAreSafe
<1>3. CASE /\ IF Replayable THEN StopLast /\ MarkFailed ELSE UNCHANGED <<previewVars, mission>>
           /\ SendAndExit(w)
  <2>1. PICK sent \in { "none", "failed" } : Exit(w, sent)
    BY <1>3 DEF SendAndExit
  <2>2. SessionsAreOwn'
    BY <1>1, <2>1, NobodyIsOwn
  <2>3. StoppedPreviewsAreDead'
    BY <1>1, <1>3, LastStopIsSafe
       DEF previewVars, StoppedPreviewsAreDead, PreviewsAreSafe, Pid
  <2>4. mission' = "VERIFYING" => deleted'
    BY <1>1, <1>3 DEF MarkFailed, NotMarked, TerminalStates, IsLegalTransition, LegalTransitions,
                      Replayable
  <2>5. VerifiedIsUp'
    BY <2>4 DEF VerifiedIsUp
  <2> QED
    BY <2>2, <2>3, <2>5 DEF PreviewsAreSafe
<1> QED
  BY <1>2, <1>3 DEF Fail

LEMMA FailAfterStopIsSafe ==
  ASSUME Settled, ~forgotten, NEW w \in Workers, FailAfterStop(w)
  PROVE  PreviewsAreSafe'
<1> USE DEF Settled
<1>1. /\ forgotten' = forgotten /\ deleted' = deleted /\ alive' = alive
      /\ Live(w) /\ At(w, "stopping") /\ worker[w].run \notin { "boot", "failing" }
      /\ IF Replayable THEN FixedStop(worker[w].session) /\ MarkFailed
                      ELSE UNCHANGED <<sessions, last, evidence, mission>>
  BY DEF FailAfterStop, historyVars, Live, At
<1>2. PICK sent \in { "none", "failed" } : Exit(w, sent)
  BY DEF FailAfterStop, SendAndExit
<1>3. SessionsAreOwn'
  BY <1>1, <1>2, NobodyIsOwn
<1>4. mission' = "VERIFYING" => mission = "VERIFYING"
  BY <1>1 DEF MarkFailed
<1>5. VerifiedIsUp'
  BY <1>1, <1>4, BusyIsSafe
<1>6. worker[w].session \in 0..Len(sessions)
  BY <1>1 DEF Typed, Types, PreviewTypes, ProcessTypes, NumbersAre, Numbered, At, Processes
<1>7. worker[w].session = 0 \/ Pid(worker[w].session) \notin alive
  BY <1>1, KilledIsDead DEF At
<1>8. StoppedPreviewsAreDead'
  <2>1. CASE Replayable
    BY <1>1, <1>6, <1>7, <2>1, StopsAreSafe
  <2>2. CASE ~Replayable
    BY <1>1, <2>2 DEF StoppedPreviewsAreDead, PreviewsAreSafe, Pid
  <2> QED
    BY <2>1, <2>2
<1> QED
  BY <1>3, <1>5, <1>8 DEF PreviewsAreSafe

LEMMA HearIsSafe ==
  ASSUME Settled, Typed', ~forgotten, NEW w \in Workers, Hear(w)
  PROVE  PreviewsAreSafe'
<1> USE DEF Settled
<1> DEFINE op   == Head(worker[w].inbox)
           rest == [worker EXCEPT ![w].inbox = Tail(@)]
<1>1. /\ forgotten' = forgotten /\ deleted' = deleted
      /\ Live(w) /\ worker[w].run \notin { "boot", "failing" } /\ ~At(w, "dead")
  BY DEF Hear, Live, Awaiting, At
<1>2. worker \in [Workers -> Processes] /\ last \in Nat /\ last \in 0..Len(sessions)
      /\ Len(sessions) \in Nat /\ DOMAIN sessions = 1..Len(sessions)
  BY DEF Typed, Types, ProcessTypes, PreviewTypes
<1>3. CASE worker[w].control # "none"
  <2>1. worker' = rest /\ UNCHANGED <<mission, previewVars, cut>>
    BY <1>3 DEF Hear
  <2>2. /\ \A x \in Workers \ {w} : worker'[x] = worker[x]
        /\ worker'[w].run = worker[w].run /\ worker'[w].session = worker[w].session
        /\ worker'[w].control = worker[w].control /\ worker'[w].target = worker[w].target
    BY <1>2, <2>1 DEF Processes
  <2>3. sessions' = sessions /\ last' = last /\ alive' = alive /\ mission' = mission /\ cut' = cut
    BY <2>1 DEF previewVars
  <2>4. SessionsAreOwn' /\ StoppedPreviewsAreDead'
    BY <1>1, <2>2, <2>3, EndingsAreSafe DEF Live
  <2>5. VerifiedIsUp'
    BY <1>1, <2>3, BusyIsSafe
  <2> QED
    BY <2>4, <2>5 DEF PreviewsAreSafe
<1>4. CASE worker[w].control = "none" /\ MustWait(w) /\ ~NothingToStop(op)
  <2>1. /\ alive' = alive \ { <<w, last>> }
        /\ worker' = [rest EXCEPT ![w].control = op, ![w].target = last]
        /\ mission' = mission /\ sessions' = sessions /\ last' = last
        /\ cut' = cut \union {last}
    BY <1>4 DEF Hear
  <2>2. /\ worker'[w].run = worker[w].run /\ worker'[w].session = worker[w].session
        /\ worker'[w].target = last
    BY <1>2, <2>1 DEF Processes
  <2>3. last = worker[w].session /\ last # 0
    BY <1>1, <1>2, <1>4 DEF MustWait, OwnPreview, Typed, PreviewsAreOwn
  <2>4. SessionIsOwn(w)
    BY <1>1 DEF PreviewsAreSafe, SessionsAreOwn
  <2>5. last \in DOMAIN sessions
    BY <1>2, <2>3
  <2>6. <<sessions[last].by, last>> \notin alive'
    BY <2>1, <2>3, <2>4, <2>5 DEF SessionIsOwn
  <2>7. SessionIsOwn(w)'
    <3>1. ~At(w, "probing")'
      <4>1. worker[w].session # Len(sessions) + 1
        BY <1>2, <2>3
      <4>2. worker[w].run # "probing"
        BY <2>4, <4>1 DEF SessionIsOwn, At
      <4> QED
        BY <2>2, <4>2 DEF At
    <3>2. At(w, "health")' => /\ last' = worker'[w].session /\ last' = Len(sessions')
                              /\ last' # 0 /\ last' \in cut'
      BY <2>1, <2>2, <2>3, <2>4 DEF SessionIsOwn, At
    <3>3. worker'[w].session \in DOMAIN sessions' => sessions'[worker'[w].session].by = w
      BY <2>1, <2>2, <2>4 DEF SessionIsOwn
    <3> QED
      BY <2>1, <2>2, <2>6, <3>1, <3>2, <3>3 DEF SessionIsOwn, Pid
  <2>8. Steady
    BY WorkerStepIsSteady DEF ControlStep
  <2>9. SessionsAreOwn'
    BY <1>1, <2>7, <2>8, OneIsOwn
  <2>10. StoppedPreviewsAreDead'
    BY <1>1, <2>1 DEF StoppedPreviewsAreDead, PreviewsAreSafe, Pid
  <2>11. VerifiedIsUp'
    BY <1>1, <2>1, BusyIsSafe
  <2> QED
    BY <2>9, <2>10, <2>11 DEF PreviewsAreSafe
<1>5. CASE worker[w].control = "none" /\ ~(MustWait(w) /\ ~NothingToStop(op))
  <2>1. StopAtOnce(op) /\ Exit(w, worker[w].outbox)
    BY <1>5 DEF Hear
  <2>2. worker[w].outbox \in { "none", "completed", "failed" }
    BY <1>2 DEF Processes
  <2>3. SessionsAreOwn'
    BY <1>1, <2>1, <2>2, NobodyIsOwn
  <2>4. StoppedPreviewsAreDead'
    BY <1>1, <2>1, StopAtOnceIsSafe
  <2>5. mission' = "VERIFYING" => mission = "VERIFYING"
    BY <2>1 DEF StopAtOnce, Cancelled
  <2>6. VerifiedIsUp'
    BY <1>1, <2>5, BusyIsSafe
  <2> QED
    BY <2>3, <2>4, <2>6 DEF PreviewsAreSafe
<1> QED
  BY <1>3, <1>4, <1>5

LEMMA HearOnIsSafe ==
  ASSUME Settled, ~forgotten, NEW w \in Workers, HearOn(w)
  PROVE  PreviewsAreSafe'
<1> USE DEF Settled
<1>1. /\ forgotten' = forgotten /\ deleted' = deleted /\ alive' = alive
      /\ Live(w) /\ worker[w].run \notin { "boot", "failing" } /\ worker[w].control # "none"
      /\ IF Replayable
         THEN /\ FixedStop(worker[w].target)
              /\ Cancelled(worker[w].control, StopIsDuplicate(worker[w].target))
         ELSE UNCHANGED <<sessions, last, evidence, mission>>
      /\ Exit(w, worker[w].outbox)
  BY DEF HearOn, historyVars, Live, Awaiting
<1>2. worker[w].outbox \in { "none", "completed", "failed" }
  BY DEF Typed, Types, ProcessTypes, Processes
<1>3. SessionsAreOwn'
  BY <1>1, <1>2, NobodyIsOwn
<1>4. mission' = "VERIFYING" => mission = "VERIFYING"
  BY <1>1 DEF Cancelled
<1>5. VerifiedIsUp'
  BY <1>1, <1>4, BusyIsSafe
<1>6. worker[w].target \in 0..Len(sessions)
  BY DEF Typed, Types, PreviewTypes, ProcessTypes, NumbersAre, Numbered, Processes
<1>7. worker[w].target = 0 \/ Pid(worker[w].target) \notin alive
  BY <1>1 DEF PreviewsAreSafe, SessionsAreOwn, SessionIsOwn
<1>8. StoppedPreviewsAreDead'
  <2>1. CASE Replayable
    BY <1>1, <1>6, <1>7, <2>1, StopsAreSafe
  <2>2. CASE ~Replayable
    BY <1>1, <2>2 DEF StoppedPreviewsAreDead, PreviewsAreSafe, Pid
  <2> QED
    BY <2>1, <2>2
<1> QED
  BY <1>3, <1>5, <1>8 DEF PreviewsAreSafe

LEMMA DeathIsSafe ==
  ASSUME Settled, ~forgotten, NEW w \in Workers,
         WorkerDies(w) \/ DiesAtBoot(w) \/ DiesVerifying(w) \/ DiesBetween(w)
  PROVE  PreviewsAreSafe'
<1> USE DEF Settled
<1>1. /\ forgotten' = forgotten /\ deleted' = deleted /\ alive' = alive /\ cut' = cut
      /\ ~DiesVerifying(w) => sessions' = sessions /\ last' = last
  BY DEF WorkerDies, DiesAtBoot, DiesVerifying, DiesBetween, StartCaptured, ledgerVars, previewVars
<1>2. PICK sent \in { "none", "completed", "failed" } : Exit(w, sent)
  BY DEF WorkerDies, DiesAtBoot, DiesVerifying, DiesBetween, Typed, Types, ProcessTypes, Processes
<1>4. worker \in [Workers -> Processes]
  BY DEF Typed, Types, ProcessTypes
<1>5. worker'[w].run = "dead" /\ \A x \in Workers \ {w} : worker'[x] = worker[x]
  BY <1>2, <1>4, ExitBecomes, GoneIs DEF Becomes
<1>6. CASE DiesVerifying(w)
  <2>1. At(w, "health") /\ Live(w)
    BY <1>6 DEF DiesVerifying, Live, At
  <2>2. /\ last = worker[w].session /\ last = Len(sessions) /\ last # 0
        /\ Pid(last) \in alive \/ last \in cut
    BY <2>1 DEF PreviewsAreSafe, SessionsAreOwn, SessionIsOwn
  <2>3. \A x \in Workers : ~Live(x)'
    BY <1>5, <2>1, NobodyElse DEF Live
  <2>4. HealthRecorded(worker[w].session) /\ last' = worker[w].session
    BY <1>6 DEF DiesVerifying, HealthRecorded
  <2>5. sessions \in Seq(Session) /\ Len(sessions) \in Nat
    BY DEF Typed, Types, PreviewTypes
  <2>6. /\ sessions' \in Seq(Session) /\ Len(sessions') = Len(sessions)
        /\ \A m \in DOMAIN sessions : sessions'[m].by = sessions[m].by
        /\ \A m \in DOMAIN sessions : sessions'[m].status = "stopped"
                                        => sessions[m].status = "stopped"
    BY <2>2, <2>4, <2>5, HealthIsSet
  <2>7. DOMAIN sessions' = DOMAIN sessions /\ last \in DOMAIN sessions
    BY <2>2, <2>5, <2>6
  <2>8. StoppedPreviewsAreDead'
    BY <1>1, <2>6, <2>7 DEF StoppedPreviewsAreDead, PreviewsAreSafe, Pid
  <2>9. VerifiedIsUp'
    BY <1>1, <2>2, <2>3, <2>4, <2>6, <2>7 DEF VerifiedIsUp, Pid
  <2> QED
    BY <2>3, <2>8, <2>9 DEF PreviewsAreSafe, SessionsAreOwn
<1>7. CASE ~DiesVerifying(w)
  <2>1. mission' = "VERIFYING" => mission = "VERIFYING"
    BY <1>7 DEF WorkerDies, DiesAtBoot, DiesBetween, ledgerVars
  <2>2. VerifiedIsUp'
    BY <1>1, <1>5, <1>7, <2>1 DEF VerifiedIsUp, PreviewsAreSafe, Live, Pid
  <2>3. SessionsAreOwn' /\ StoppedPreviewsAreDead'
    BY <1>1, <1>2, <1>7, ExitIsSafe
  <2> QED
    BY <2>2, <2>3 DEF PreviewsAreSafe
<1> QED
  BY <1>6, <1>7

\* A worker is spawned, with no session.
LEMMA SpawnedIsSafe ==
  ASSUME Typed, WorkIsKnown, PreviewsAreSafe, NEW w \in Workers, Spawned(w),
         UNCHANGED <<ledgerVars, previewVars, forgotten, cut>>,
         ~forgotten => \A x \in Workers : ~Live(x)
  PROVE  PreviewsAreSafe'
<1>1. worker \in [Workers -> Processes] /\ At(w, "unborn")
  BY DEF Typed, Types, ProcessTypes, Spawned
<1>2. /\ mission' = mission /\ deleted' = deleted /\ forgotten' = forgotten
      /\ sessions' = sessions /\ last' = last /\ alive' = alive
  BY DEF ledgerVars, previewVars
<1>3. worker[w].session = 0 /\ worker[w].target = 0
  BY <1>1 DEF Typed, NumbersAre, Numbered, At
<1>4. /\ worker'[w].run = "boot" /\ worker'[w].session = 0 /\ worker'[w].target = 0
      /\ \A x \in Workers \ {w} : worker'[x] = worker[x]
  BY <1>1, <1>3 DEF Spawned, Goto, Processes
<1>5. StoppedPreviewsAreDead'
  BY <1>2 DEF StoppedPreviewsAreDead, PreviewsAreSafe, Pid
<1>6. 0 \notin DOMAIN sessions'
  BY <1>2 DEF Typed, Types, PreviewTypes
<1>7. SessionIsOwn(w)'
  <2>1. ~At(w, "probing")' /\ ~At(w, "health")'
    BY <1>4 DEF At
  <2> QED
    BY <1>4, <1>6, <2>1 DEF SessionIsOwn
<1>8. SessionsAreOwn'
  BY <1>2, <1>4, <1>7 DEF SessionsAreOwn, Live
<1>9. VerifiedIsUp'
  BY <1>2, <1>4 DEF VerifiedIsUp, PreviewsAreSafe, Live, Pid
<1> QED
  BY <1>5, <1>8, <1>9 DEF PreviewsAreSafe

\* Neither the previews nor the place of a process change.
LEMMA StillIsSafe ==
  ASSUME Typed, PreviewsAreSafe, forgotten => forgotten', deleted => deleted',
         UNCHANGED <<mission, previewVars, cut>>,
         \A w \in Workers : Live(w)' =>
           /\ worker'[w].run = worker[w].run /\ worker'[w].session = worker[w].session
           /\ worker'[w].control = worker[w].control /\ worker'[w].target = worker[w].target
  PROVE  PreviewsAreSafe'
<1>1. sessions' = sessions /\ last' = last /\ alive' = alive /\ mission' = mission
  BY DEF previewVars
<1>2. SessionsAreOwn' /\ StoppedPreviewsAreDead'
  BY <1>1, EndingsAreSafe DEF Live
<1>3. VerifiedIsUp'
  BY <1>1 DEF VerifiedIsUp, PreviewsAreSafe, Live, Pid
<1> QED
  BY <1>2, <1>3 DEF PreviewsAreSafe

LEMMA InboxIsSafe ==
  ASSUME Typed, PreviewsAreSafe, forgotten => forgotten', deleted => deleted',
         UNCHANGED <<mission, previewVars, cut>>,
         NEW w \in Workers, NEW q, worker' = [worker EXCEPT ![w].inbox = q]
  PROVE  PreviewsAreSafe'
<1>1. worker \in [Workers -> Processes]
  BY DEF Typed, Types, ProcessTypes
<1>2. \A x \in Workers :
        /\ worker'[x].run = worker[x].run /\ worker'[x].session = worker[x].session
        /\ worker'[x].control = worker[x].control /\ worker'[x].target = worker[x].target
  BY <1>1 DEF Processes
<1> QED
  BY <1>2, StillIsSafe

LEMMA StopIsSafe ==
  ASSUME Settled, NEW c \in Callers, NEW op \in { "cancel", "delete" }, Stop(c, op)
  PROVE  PreviewsAreSafe'
<1> USE DEF Settled
<1>1. CASE Reachable
  <2>1. /\ worker' = [worker EXCEPT ![active].inbox = Append(@, Message(op))]
        /\ UNCHANGED <<mission, deleted, previewVars, active, forgotten, cut>>
    BY <1>1 DEF Stop
  <2>2. active \in Workers /\ worker \in [Workers -> Processes]
    BY <1>1 DEF Reachable, Typed, Types, ServerTypes, ProcessTypes
  <2>3. PICK q : worker' = [worker EXCEPT ![active].inbox = q]
    BY <2>1, <2>2
  <2> QED
    BY <2>1, <2>2, <2>3, InboxIsSafe
<1>2. CASE ~Reachable
  <2>1. /\ StopAtOnce(Message(op)) /\ worker' = worker /\ (forgotten => forgotten')
        /\ deleted' = (deleted \/ op = "delete") /\ cut' = cut
    BY <1>2 DEF Stop, Drop, Deleting
  <2>2. CASE forgotten
    BY <2>1, <2>2, ForgottenIsSafe
  <2>3. CASE ~forgotten
    <3>1. \A w \in Workers : ~Live(w)
      BY <1>2, <2>3, WorkerIsReachable
    <3>2. \A w \in Workers : ~Live(w)'
      BY <2>1, <3>1 DEF Live
    <3>3. SessionsAreOwn'
      BY <3>2 DEF SessionsAreOwn
    <3>4. StoppedPreviewsAreDead'
      BY <2>1, StopAtOnceIsSafe
    <3>5. VerifiedIsUp'
      <4>1. SUFFICES ASSUME ~forgotten', ~deleted', mission' = "VERIFYING"
                     PROVE  last' = Len(sessions') /\ last' # 0 /\ last' \in cut'
        BY <3>2 DEF VerifiedIsUp
      <4>2. ~deleted /\ op = "cancel" /\ mission = "VERIFYING"
        BY <2>1, <4>1 DEF StopAtOnce, Cancelled
      <4>3. last = Len(sessions) /\ last # 0 /\ (Pid(last) \in alive \/ last \in cut)
        BY <2>3, <4>2 DEF PreviewsAreSafe, VerifiedIsUp
      <4>4. Message(op) = "stop" /\ ~NothingToStop("stop")
        BY <4>2 DEF Message, NothingToStop, Replayable, IsTerminal, TerminalStates
      <4>5. ToStop # {} /\ StopIsDuplicate(last) /\ StopLast
        BY <2>1, <4>1, <4>2, <4>4 DEF StopAtOnce, Cancelled, IsTerminal, TerminalStates
      <4>6. sessions' = sessions /\ last' = last
        BY <4>5 DEF StopLast, FixedStop
      <4>7. last \in Nat /\ Pid(last) \notin alive
        BY <2>3, <4>3, <4>5
           DEF CapturedStopsAreDead, StopIsDuplicate, Typed, Types, PreviewTypes
      <4> QED
        BY <2>1, <4>3, <4>6, <4>7
    <3> QED
      BY <3>3, <3>4, <3>5 DEF PreviewsAreSafe
  <2> QED
    BY <2>2, <2>3
<1> QED
  BY <1>1, <1>2

LEMMA ServerStepIsSafe ==
  ASSUME Settled,
         \/ \E c \in Callers : Sent(c) \/ GaveUp(c)
         \/ \E w \in Workers : Heard(w) \/ Exited(w)
         \/ Closed \/ ServerDies
  PROVE  PreviewsAreSafe'
<1> USE DEF Settled
<1>1. UNCHANGED <<mission, previewVars, cut>>
  BY DEF Sent, GaveUp, Heard, Exited, Closed, ServerDies, ledgerVars, historyVars
<1>2. (forgotten => forgotten') /\ (deleted => deleted')
  <2>1. forgotten => forgotten'
    BY DEF Sent, GaveUp, Drop, Heard, Exited, Closed, ServerDies, historyVars
  <2>2. deleted => deleted'
    BY DEF Sent, GaveUp, Deleting, Heard, Exited, Closed, ServerDies, ledgerVars
  <2> QED
    BY <2>1, <2>2
<1>3. worker \in [Workers -> Processes]
  BY DEF Typed, Types, ProcessTypes
<1>4. CASE (\E c \in Callers : Sent(c) \/ GaveUp(c)) \/ (\E w \in Workers : Exited(w)) \/ ServerDies
  <2>1. worker' = worker
    BY <1>4 DEF Sent, GaveUp, Exited, ServerDies
  <2> QED
    BY <1>1, <1>2, <2>1, StillIsSafe
<1>5. ASSUME NEW w \in Workers, Heard(w) PROVE PreviewsAreSafe'
  <2>1. worker' = [worker EXCEPT ![w].outbox = "none"]
    BY <1>5 DEF Heard
  <2>2. \A x \in Workers :
          /\ worker'[x].run = worker[x].run /\ worker'[x].session = worker[x].session
          /\ worker'[x].control = worker[x].control /\ worker'[x].target = worker[x].target
    BY <1>3, <2>1 DEF Processes
  <2> QED
    BY <1>1, <1>2, <2>2, StillIsSafe
<1>6. CASE Closed
  <2>1. CASE active \in Workers
    <3>1. worker' = [worker EXCEPT ![active] = [Unborn EXCEPT !.run = "dead"]]
      BY <1>6, <2>1 DEF Closed
    <3>2. [Unborn EXCEPT !.run = "dead"].run = "dead"
      BY DEF Unborn
    <3>3. worker'[active].run = "dead" /\ \A x \in Workers \ {active} : worker'[x] = worker[x]
      BY <1>3, <2>1, <3>1, <3>2
    <3> QED
      BY <1>1, <1>2, <3>3, StillIsSafe DEF Live
  <2>2. CASE active \notin Workers
    <3>1. worker' = worker
      BY <1>6, <2>2 DEF Closed
    <3> QED
      BY <1>1, <1>2, <3>1, StillIsSafe
  <2> QED
    BY <2>1, <2>2
<1> QED
  BY <1>4, <1>5, <1>6

LEMMA MessageIsSafe ==
  ASSUME Settled, Shutdown \/ \E w \in Workers : Signal(w)
  PROVE  PreviewsAreSafe'
<1> USE DEF Settled
<1>1. UNCHANGED <<mission, previewVars, cut>> /\ forgotten' = forgotten /\ deleted' = deleted
  BY DEF Shutdown, Signal, ledgerVars
<1>2. linked \subseteq Workers /\ worker \in [Workers -> Processes]
  BY DEF Typed, Types, ServerTypes, ProcessTypes
<1>3. worker' = worker \/ \E w \in Workers : \E q : worker' = [worker EXCEPT ![w].inbox = q]
  BY <1>2 DEF Shutdown, Signal
<1>4. CASE worker' = worker
  BY <1>1, <1>4, StillIsSafe
<1>5. CASE \E w \in Workers : \E q : worker' = [worker EXCEPT ![w].inbox = q]
  BY <1>1, <1>5, InboxIsSafe
<1> QED
  BY <1>3, <1>4, <1>5

LEMMA SpawnIsSafe ==
  ASSUME Settled, Restart \/ \E w \in Workers : Start(w)
  PROVE  PreviewsAreSafe'
<1> USE DEF Settled
<1>1. UNCHANGED <<ledgerVars, previewVars, forgotten, cut>>
  BY DEF Restart, Start, historyVars
<1>2. ASSUME NEW w \in Workers, Start(w) PROVE PreviewsAreSafe'
  <2>1. ~Blocks /\ Spawned(w)
    BY <1>2 DEF Start
  <2>2. ASSUME ~forgotten, NEW x \in Workers, Live(x) PROVE FALSE
    <3>1. active = x
      BY <2>2 DEF WorkIsKnown, Employed
    <3>2. job[x].error
      BY <2>1, <3>1 DEF Blocks
    <3> QED
      BY <2>2, <3>2 DEF WorkIsKnown, ReportsAreTrue, Live, At
  <2> QED
    BY <1>1, <2>1, <2>2, SpawnedIsSafe
<1>3. CASE Restart
  <2>1. ~forgotten => \A x \in Workers : ~Live(x)
    BY <1>3 DEF Restart, WorkIsKnown, Employed
  <2>2. CASE Recovers /\ ~Interrupted
    <3>1. PICK w \in Workers : Spawned(w)
      BY <1>3, <2>2 DEF Restart
    <3> QED
      BY <1>1, <2>1, <3>1, SpawnedIsSafe
  <2>3. CASE ~(Recovers /\ ~Interrupted)
    <3>1. worker' = worker
      BY <1>3, <2>3 DEF Restart
    <3> QED
      BY <1>1, <3>1, StillIsSafe DEF ledgerVars
  <2> QED
    BY <2>2, <2>3
<1> QED
  BY <1>2, <1>3

-------------------------------------------------------------------------------

LEMMA WorkerStepIsSafe ==
  ASSUME Settled, NEW w \in Workers, WorkerStep(w) \/ ControlStep(w)
  PROVE  PreviewsAreSafe'
<1>1. Typed'
  <2>1. Next
    BY DEF Next, System
  <2> QED
    BY <2>1, NextTyped DEF Settled
<1>2. CASE forgotten
  <2>1. forgotten' = forgotten
    BY <1>1, WorkerStepIsSteady DEF Settled
  <2> QED
    BY <1>2, <2>1, ForgottenIsSafe
<1>3. CASE ~forgotten
  BY <1>1, <1>3, BootIsSafe, ResumeIsSafe, PlainMoveIsSafe, LaunchIsSafe, ProbeIsSafe,
     ObserveIsSafe, HaltedIsSafe, HealthIsSafe, FailIsSafe, FailAfterStopIsSafe, HearIsSafe,
     HearOnIsSafe DEF WorkerStep, ControlStep
<1> QED
  BY <1>2, <1>3

LEMMA NextSafe == ASSUME Settled, [Next]_vars PROVE PreviewsAreSafe'
<1>1. ASSUME NEW w \in Workers,
             WorkerDies(w) \/ DiesAtBoot(w) \/ DiesVerifying(w) \/ DiesBetween(w)
      PROVE  PreviewsAreSafe'
  <2>1. CASE forgotten
    <3>1. forgotten' = forgotten
      BY <1>1 DEF WorkerDies, DiesAtBoot, DiesVerifying, DiesBetween
    <3> QED
      BY <2>1, <3>1, ForgottenIsSafe
  <2>2. CASE ~forgotten
    BY <1>1, <2>2, DeathIsSafe
  <2> QED
    BY <2>1, <2>2
<1>2. CASE UNCHANGED vars
  <2>1. UNCHANGED <<mission, previewVars, cut>> /\ UNCHANGED <<forgotten, deleted, worker>>
    BY <1>2 DEF vars, ledgerVars, historyVars
  <2> QED
    BY <2>1, StillIsSafe DEF Settled
<1> QED
  BY <1>1, <1>2, WorkerStepIsSafe, ServerStepIsSafe, StopIsSafe, MessageIsSafe, SpawnIsSafe
     DEF Next, System, ServerStep, Customer, Faults

-------------------------------------------------------------------------------
(* The evidence of stops.                                                  *)

\* Sessions that are recorded stay, their processes only end, and no stop is captured.
NothingCaptured ==
  /\ Len(sessions) <= Len(sessions')
  /\ \A n \in 1..Len(sessions) : sessions'[n].by = sessions[n].by
  /\ \A w \in Workers : \A n \in 1..Len(sessions) : <<w, n>> \in alive' => <<w, n>> \in alive
  /\ \A n \in Nat : <<"stop", n>> \in evidence' => <<"stop", n>> \in evidence

LEMMA NothingCapturedIsSafe ==
  ASSUME Settled, forgotten => forgotten', NothingCaptured, Len(sessions') \in Nat
  PROVE  CapturedStopsAreDead'
<1>1. SUFFICES ASSUME ~forgotten', NEW n \in Nat, <<"stop", n>> \in evidence'
               PROVE  n <= Len(sessions') /\ (n # 0 => <<sessions'[n].by, n>> \notin alive')
  BY DEF CapturedStopsAreDead, Pid
<1>2. sessions \in Seq(Session) /\ Len(sessions) \in Nat
  BY DEF Settled, Typed, Types, PreviewTypes
<1>3. n <= Len(sessions) /\ (n # 0 => <<sessions[n].by, n>> \notin alive)
  BY <1>1 DEF Settled, CapturedStopsAreDead, NothingCaptured, Pid
<1>4. ASSUME n # 0 PROVE <<sessions'[n].by, n>> \notin alive'
  <2>1. n \in 1..Len(sessions)
    BY <1>2, <1>3, <1>4
  <2>2. sessions[n] \in Session
    BY <1>2, <2>1
  <2>3. sessions[n].by \in Workers /\ sessions'[n].by = sessions[n].by
    BY <2>1, <2>2 DEF Session, NothingCaptured
  <2> QED
    BY <1>3, <1>4, <2>1, <2>3 DEF NothingCaptured
<1> QED
  BY <1>2, <1>3, <1>4 DEF NothingCaptured

\* A stop is captured of a session whose process is gone.
LEMMA CaptureIsSafe ==
  ASSUME Settled, forgotten => forgotten', alive' \subseteq alive,
         NEW n \in 0..Len(sessions), n = 0 \/ Pid(n) \notin alive',
         evidence' \subseteq evidence \union { <<"stop", n>> },
         Len(sessions') = Len(sessions),
         \A m \in 1..Len(sessions) : sessions'[m].by = sessions[m].by
  PROVE  CapturedStopsAreDead'
<1>1. sessions \in Seq(Session) /\ Len(sessions) \in Nat
  BY DEF Settled, Typed, Types, PreviewTypes
<1>2. SUFFICES ASSUME ~forgotten', NEW m \in Nat, <<"stop", m>> \in evidence'
               PROVE  m <= Len(sessions') /\ (m # 0 => <<sessions'[m].by, m>> \notin alive')
  BY DEF CapturedStopsAreDead, Pid
<1>3. CASE m = n
  BY <1>1, <1>3 DEF Pid
<1>4. CASE m # n
  <2>1. <<"stop", m>> \in evidence
    BY <1>2, <1>4
  <2>2. m <= Len(sessions) /\ (m # 0 => <<sessions[m].by, m>> \notin alive)
    BY <1>2, <2>1 DEF Settled, CapturedStopsAreDead, Pid
  <2> QED
    BY <1>1, <2>2
<1> QED
  BY <1>3, <1>4

LEMMA FixedStopIsSafe ==
  ASSUME Settled, forgotten => forgotten', alive' \subseteq alive,
         NEW n \in 0..Len(sessions), n = 0 \/ Pid(n) \notin alive', FixedStop(n)
  PROVE  CapturedStopsAreDead'
<1>1. sessions \in Seq(Session) /\ Len(sessions) \in Nat /\ n \in Nat
  BY DEF Settled, Typed, Types, PreviewTypes
<1>2. sessions' = sessions \/ sessions' = [sessions EXCEPT ![n].status = "stopped"]
  BY DEF FixedStop, StopRecorded
<1>3. Len(sessions') = Len(sessions)
  BY <1>1, <1>2
<1>4. \A m \in 1..Len(sessions) : sessions'[m].by = sessions[m].by
  <2>1. \A m \in 1..Len(sessions) : sessions[m] \in Session
    BY <1>1
  <2> QED
    BY <1>1, <1>2, <2>1 DEF Session
<1>5. evidence' \subseteq evidence \union { <<"stop", n>> }
  BY DEF FixedStop
<1> QED
  BY <1>3, <1>4, <1>5, CaptureIsSafe

LEMMA LastIsCaptured ==
  ASSUME Settled, forgotten => forgotten', StopLast
  PROVE  CapturedStopsAreDead'
<1>1. CASE ToStop = {}
  BY <1>1 DEF Settled, StopLast, previewVars, CapturedStopsAreDead, Pid
<1>2. CASE ToStop # {}
  <2>1. alive' = alive \ { Pid(last) } /\ FixedStop(last)
    BY <1>2 DEF StopLast, Killed
  <2>2. last \in 0..Len(sessions)
    BY DEF Settled, Typed, Types, PreviewTypes
  <2> QED
    BY <2>1, <2>2, FixedStopIsSafe
<1> QED
  BY <1>1, <1>2

LEMMA StopAtOnceIsCaptured ==
  ASSUME Settled, forgotten => forgotten', NEW op, StopAtOnce(op)
  PROVE  CapturedStopsAreDead'
<1>1. CASE NothingToStop(op)
  BY <1>1 DEF Settled, StopAtOnce, previewVars, CapturedStopsAreDead, Pid
<1>2. CASE ~NothingToStop(op)
  BY <1>2, LastIsCaptured DEF StopAtOnce
<1> QED
  BY <1>1, <1>2

\* The steps of execute.
LEMMA ExecuteIsCaptured ==
  ASSUME Settled, Typed', ~forgotten, NEW w \in Workers, WorkerStep(w)
  PROVE  CapturedStopsAreDead'
<1> USE DEF Settled
<1>1. /\ sessions \in Seq(Session) /\ Len(sessions) \in Nat /\ Len(sessions') \in Nat
      /\ DOMAIN sessions = 1..Len(sessions)
  BY DEF Typed, Types, PreviewTypes
<1>2. CASE \/ BootFresh(w) \/ BootVerify(w) \/ BootThrows(w) \/ Answer(w) \/ Build(w) \/ Throw(w)
  BY <1>2 DEF BootFresh, BootVerify, BootThrows, Answer, Build, Throw, historyVars, previewVars,
              CapturedStopsAreDead, Pid
<1>3. CASE BootResume(w)
  <2>1. \A m \in 1..Len(sessions) : sessions[m] \in Session
    BY <1>1
  <2>2. /\ alive' \subseteq alive
        /\ \A n \in Nat : <<"stop", n>> \in evidence' => <<"stop", n>> \in evidence
    BY <1>3 DEF BootResume, previewVars
  <2>3. \/ sessions' = sessions
        \/ sessions' = [n \in DOMAIN sessions |-> [sessions[n] EXCEPT !.status = "stopped"]]
    BY <1>3 DEF BootResume, previewVars
  <2>4. \A m \in 1..Len(sessions) : sessions'[m].by = sessions[m].by
    BY <1>1, <2>1, <2>3 DEF Session
  <2>5. Len(sessions') = Len(sessions)
    BY <1>1, <2>3 DEF Typed, Types, PreviewTypes
  <2> QED
    BY <1>1, <1>3, <2>2, <2>4, <2>5, NothingCapturedIsSafe DEF NothingCaptured, BootResume, historyVars
<1>4. CASE Launch(w)
  <2>1. /\ sessions' = sessions /\ evidence' = evidence /\ forgotten' = forgotten
        /\ alive' = alive \union { <<w, Len(sessions) + 1>> }
    BY <1>4 DEF Launch, Spawn, NextSession, historyVars
  <2>2. NothingCaptured
    BY <1>1, <2>1 DEF NothingCaptured
  <2> QED
    BY <1>1, <2>1, <2>2, NothingCapturedIsSafe
<1>5. CASE Probe(w)
  <2>1. /\ forgotten' = forgotten /\ alive' \subseteq alive
        /\ \A n \in Nat : <<"stop", n>> \in evidence' => <<"stop", n>> \in evidence
    BY <1>5 DEF Probe, Started, historyVars
  <2>2. sessions' = sessions \/ \E session : sessions' = Append(sessions, session)
    BY <1>5 DEF Probe, Started
  <2>3. /\ Len(sessions) <= Len(sessions')
        /\ \A n \in 1..Len(sessions) : sessions'[n] = sessions[n]
    BY <1>1, <2>2
  <2> QED
    BY <1>1, <2>1, <2>3, NothingCapturedIsSafe DEF NothingCaptured
<1>6. CASE Observe(w)
  <2>1. /\ sessions' = sessions /\ evidence' = evidence /\ forgotten' = forgotten
        /\ alive' \subseteq alive
    BY <1>6 DEF Observe, historyVars
  <2> QED
    BY <1>1, <2>1, NothingCapturedIsSafe DEF NothingCaptured
<1>7. CASE Halted(w)
  <2>1. /\ evidence' = evidence /\ forgotten' = forgotten /\ alive' = alive
        /\ sessions' = [sessions EXCEPT ![worker[w].session].status = "stopped"]
    BY <1>7 DEF Halted, StopRecorded, historyVars
  <2>2. \A m \in 1..Len(sessions) : sessions[m] \in Session
    BY <1>1
  <2>3. /\ Len(sessions') = Len(sessions)
        /\ \A m \in 1..Len(sessions) : sessions'[m].by = sessions[m].by
    BY <1>1, <2>1, <2>2 DEF Session
  <2> QED
    BY <1>1, <2>1, <2>3, NothingCapturedIsSafe DEF NothingCaptured
<1>8. CASE Health(w)
  <2>1. /\ evidence' = evidence /\ forgotten' = forgotten /\ alive' = alive
        /\ HealthRecorded(worker[w].session)
    BY <1>8 DEF Health, historyVars
  <2>2. worker[w].session \in Nat
    BY DEF Typed, Types, ProcessTypes, Processes
  <2>3. /\ Len(sessions') = Len(sessions)
        /\ \A m \in 1..Len(sessions) : sessions'[m].by = sessions[m].by
    BY <1>1, <2>1, <2>2, HealthIsSet
  <2> QED
    BY <1>1, <2>1, <2>3, NothingCapturedIsSafe DEF NothingCaptured
<1>9. CASE Fail(w)
  <2>1. forgotten' = forgotten
    BY <1>9 DEF Fail, historyVars
  <2>2. CASE alive' = alive \ { <<w, last>> } /\ UNCHANGED <<mission, sessions, last, evidence>>
    BY <1>1, <2>1, <2>2, NothingCapturedIsSafe DEF NothingCaptured
  <2>3. CASE StopLast
    BY <2>1, <2>3, LastIsCaptured
  <2>4. CASE UNCHANGED previewVars
    BY <2>1, <2>4 DEF previewVars, CapturedStopsAreDead, Pid
  <2> QED
    BY <1>9, <2>2, <2>3, <2>4 DEF Fail
<1>10. CASE FailAfterStop(w)
  <2>1. forgotten' = forgotten /\ alive' = alive /\ At(w, "stopping")
    BY <1>10 DEF FailAfterStop, historyVars
  <2>2. CASE FixedStop(worker[w].session)
    <3>1. worker[w].session \in 0..Len(sessions)
      BY <1>1, <2>1 DEF Typed, Types, ProcessTypes, NumbersAre, Numbered, At, Processes
    <3>2. worker[w].session = 0 \/ Pid(worker[w].session) \notin alive
      BY <2>1, KilledIsDead DEF At
    <3> QED
      BY <2>1, <2>2, <3>1, <3>2, FixedStopIsSafe
  <2>3. CASE UNCHANGED <<sessions, last, evidence, mission>>
    BY <2>1, <2>3 DEF CapturedStopsAreDead, Pid
  <2> QED
    BY <1>10, <2>2, <2>3 DEF FailAfterStop
<1> QED
  BY <1>2, <1>3, <1>4, <1>5, <1>6, <1>7, <1>8, <1>9, <1>10 DEF WorkerStep

\* The session a process was told to stop has no process left.
LEMMA TargetIsDead ==
  ASSUME Settled, ~forgotten, NEW w \in Workers, Live(w), worker[w].control # "none"
  PROVE  /\ worker[w].target \in 0..Len(sessions)
         /\ worker[w].target = 0 \/ Pid(worker[w].target) \notin alive
<1>1. worker[w].target \in 0..Len(sessions)
  BY DEF Settled, Typed, Types, PreviewTypes, ProcessTypes, NumbersAre, Numbered, Processes
<1> QED
  BY <1>1 DEF Settled, PreviewsAreSafe, SessionsAreOwn, SessionIsOwn

\* Messages, deaths and the server.
LEMMA ControlIsCaptured ==
  ASSUME Settled, ~forgotten, NEW w \in Workers, ControlStep(w)
  PROVE  CapturedStopsAreDead'
<1> USE DEF Settled
<1>1. CASE Hear(w)
  <2>1. forgotten' = forgotten
    BY <1>1 DEF Hear
  <2>2. CASE UNCHANGED previewVars
    BY <2>1, <2>2 DEF previewVars, CapturedStopsAreDead, Pid
  <2>3. CASE alive' = alive \ { <<w, last>> } /\ UNCHANGED <<sessions, evidence>>
    BY <2>1, <2>3 DEF CapturedStopsAreDead, Pid
  <2>4. CASE \E op : StopAtOnce(op)
    BY <2>1, <2>4, StopAtOnceIsCaptured
  <2> QED
    BY <1>1, <2>2, <2>3, <2>4 DEF Hear
<1>2. CASE HearOn(w)
  <2>1. /\ forgotten' = forgotten /\ alive' = alive /\ Live(w) /\ worker[w].control # "none"
        /\ \/ FixedStop(worker[w].target)
           \/ UNCHANGED <<sessions, last, evidence, mission>>
    BY <1>2 DEF HearOn, historyVars, Live, Awaiting
  <2>2. CASE FixedStop(worker[w].target)
    BY <2>1, <2>2, TargetIsDead, FixedStopIsSafe
  <2>3. CASE UNCHANGED <<sessions, last, evidence, mission>>
    BY <2>1, <2>3 DEF CapturedStopsAreDead, Pid
  <2> QED
    BY <2>1, <2>2, <2>3
<1> QED
  BY <1>1, <1>2 DEF ControlStep

LEMMA DeathIsCaptured ==
  ASSUME Settled, ~forgotten, NEW w \in Workers,
         WorkerDies(w) \/ DiesAtBoot(w) \/ DiesVerifying(w) \/ DiesBetween(w)
  PROVE  CapturedStopsAreDead'
<1> USE DEF Settled
<1>1. forgotten' = forgotten /\ alive' = alive
  BY DEF WorkerDies, DiesAtBoot, DiesVerifying, DiesBetween, StartCaptured, previewVars
<1>2. CASE WorkerDies(w) \/ DiesAtBoot(w)
  BY <1>1, <1>2 DEF WorkerDies, DiesAtBoot, previewVars, CapturedStopsAreDead, Pid
<1>3. sessions \in Seq(Session) /\ Len(sessions) \in Nat /\ worker[w].session \in Nat
      /\ DOMAIN sessions = 1..Len(sessions)
  BY DEF Typed, Types, PreviewTypes, ProcessTypes, Processes
<1>4. CASE DiesVerifying(w)
  <2>1. evidence' = evidence /\ HealthRecorded(worker[w].session)
    BY <1>4 DEF DiesVerifying
  <2>2. /\ Len(sessions') = Len(sessions)
        /\ \A m \in 1..Len(sessions) : sessions'[m].by = sessions[m].by
    BY <1>3, <2>1, HealthIsSet
  <2> QED
    BY <1>1, <1>3, <2>1, <2>2, NothingCapturedIsSafe DEF NothingCaptured
<1>5. CASE DiesBetween(w)
  <2>1. sessions' = sessions
    BY <1>5 DEF DiesBetween, StartCaptured
  <2>2. CASE At(w, "probing") /\ StartCaptured(w, worker[w].session, TRUE)
    <3>1. \A n \in Nat : <<"stop", n>> \in evidence' => <<"stop", n>> \in evidence
      BY <2>2 DEF StartCaptured
    <3> QED
      BY <1>1, <1>3, <2>1, <3>1, NothingCapturedIsSafe DEF NothingCaptured
  <2>3. CASE At(w, "stopping") /\ StopCaptured(worker[w].session)
    <3>1. worker[w].session \in 0..Len(sessions)
      BY <1>3, <2>3 DEF Typed, Types, ProcessTypes, NumbersAre, Numbered, At, Processes
    <3>2. worker[w].session = 0 \/ Pid(worker[w].session) \notin alive
      BY <2>3, KilledIsDead DEF At
    <3> QED
      BY <1>1, <2>1, <2>3, <3>1, <3>2, CaptureIsSafe DEF StopCaptured
  <2>4. CASE /\ worker[w].run \in Awaiting /\ worker[w].control # "none"
             /\ StopCaptured(worker[w].target)
    <3>1. Live(w)
      BY <2>4 DEF Live, Awaiting
    <3> QED
      BY <1>1, <2>1, <2>4, <3>1, TargetIsDead, CaptureIsSafe DEF StopCaptured
  <2> QED
    BY <1>5, <2>2, <2>3, <2>4 DEF DiesBetween
<1> QED
  BY <1>2, <1>4, <1>5

LEMMA StopIsCaptured ==
  ASSUME Settled, NEW c \in Callers, NEW op \in { "cancel", "delete" }, Stop(c, op)
  PROVE  CapturedStopsAreDead'
<1>1. CASE Reachable
  BY <1>1 DEF Settled, Stop, previewVars, CapturedStopsAreDead, Pid
<1>2. CASE ~Reachable
  BY <1>2, StopAtOnceIsCaptured DEF Stop, Drop
<1> QED
  BY <1>1, <1>2

LEMMA NextCaptured == ASSUME Settled, [Next]_vars PROVE CapturedStopsAreDead'
<1>1. Typed'
  BY NextTyped DEF Settled
<1>2. ASSUME UNCHANGED previewVars, forgotten => forgotten' PROVE CapturedStopsAreDead'
  BY <1>2 DEF Settled, previewVars, CapturedStopsAreDead, Pid
<1>3. ASSUME NEW w \in Workers, WorkerStep(w) \/ ControlStep(w) PROVE CapturedStopsAreDead'
  <2>1. forgotten' = forgotten
    BY <1>1, <1>3, WorkerStepIsSteady DEF Settled
  <2>2. CASE forgotten
    BY <2>1, <2>2 DEF CapturedStopsAreDead
  <2> QED
    BY <1>1, <1>3, <2>2, ExecuteIsCaptured, ControlIsCaptured
<1>4. ASSUME NEW w \in Workers,
             WorkerDies(w) \/ DiesAtBoot(w) \/ DiesVerifying(w) \/ DiesBetween(w)
      PROVE  CapturedStopsAreDead'
  <2>1. forgotten' = forgotten
    BY <1>4 DEF WorkerDies, DiesAtBoot, DiesVerifying, DiesBetween
  <2>2. CASE forgotten
    BY <2>1, <2>2 DEF CapturedStopsAreDead
  <2> QED
    BY <1>4, <2>2, DeathIsCaptured
<1>5. CASE ServerStep
  <2>1. UNCHANGED previewVars /\ (forgotten => forgotten')
    BY <1>5 DEF ServerStep, Sent, GaveUp, Drop, Heard, Exited, Closed, historyVars
  <2> QED
    BY <1>2, <2>1
<1>6. CASE Customer
  <2>1. ASSUME NEW w \in Workers, Start(w) PROVE CapturedStopsAreDead'
    <3>1. UNCHANGED previewVars /\ forgotten' = forgotten
      BY <2>1 DEF Start, historyVars
    <3> QED
      BY <1>2, <3>1
  <2> QED
    BY <1>6, <2>1, StopIsCaptured DEF Customer
<1>7. CASE ServerDies \/ Shutdown \/ Restart \/ \E w \in Workers : Signal(w)
  <2>1. UNCHANGED previewVars
    BY <1>7 DEF ServerDies, Shutdown, Restart, Signal
  <2>2. forgotten => forgotten'
    BY <1>7 DEF ServerDies, Shutdown, Restart, Signal, historyVars
  <2> QED
    BY <1>2, <2>1, <2>2
<1>8. CASE UNCHANGED vars
  BY <1>2, <1>8 DEF vars, historyVars
<1> QED
  BY <1>3, <1>4, <1>5, <1>6, <1>7, <1>8 DEF Next, System, Faults

LEMMA AlwaysSettled == Spec => []Settled
<1>1. Init => Settled
  <2>1. Init => CapturedStopsAreDead
    BY DEF Init, PreviewInit, CapturedStopsAreDead
  <2> QED
    BY <2>1, InitTyped, InitKnown, InitSafe DEF Settled
<1>2. Settled /\ [Next]_vars => Settled'
  BY NextTyped, NextKnown, NextSafe, NextCaptured DEF Settled
<1> QED
  BY <1>1, <1>2, PTL DEF Spec

\* A session recorded as stopped has no process left, whichever of the six ways of stopping
\* a preview recorded it, as long as no worker ran that the server did not know of.
THEOREM StoppedMeansDead == Spec => []StoppedPreviewsAreDead
<1>1. Settled => StoppedPreviewsAreDead
  BY DEF Settled, PreviewsAreSafe
<1> QED
  BY <1>1, AlwaysSettled, PTL

\* A mission succeeds with its newest session, and the process of that session runs, also
\* when a worker died between the observation and the verdict and another finished for it;
\* it is gone only where the worker itself killed it, told to stop beside its verdict.
THEOREM DeliveriesAreUp == Spec => DeliveredPreviewIsLeft
<1> DEFINE Delivered == /\ last' = Len(sessions')
                        /\ <<sessions'[last'].by, last'>> \in alive' \/ last' \in cut'
           Left == mission' = "SUCCEEDED" /\ mission # "SUCCEEDED" /\ ~deleted /\ ~forgotten
                     => Delivered
<1>1. ASSUME Settled, Next PROVE Left
  <2>1. SUFFICES ASSUME mission' = "SUCCEEDED", mission # "SUCCEEDED", ~deleted, ~forgotten
                 PROVE  Delivered
    OBVIOUS
  <2>2. \E w \in Workers : BootVerify(w) \/ Health(w)
    <3>1. ASSUME NEW w \in Workers, WorkerStep(w) PROVE BootVerify(w) \/ Health(w)
      BY <2>1, <3>1 DEF WorkerStep, BootFresh, BootResume, BootThrows, Answer, Build, Transition,
         Launch, Probe, Observe, Halted, Throw, Fail, MarkFailed, FailAfterStop, ledgerVars
    <3>2. ASSUME NEW w \in Workers, ControlStep(w) PROVE FALSE
      BY <2>1, <3>2 DEF ControlStep, Hear, HearOn, StopAtOnce, Cancelled
    <3>3. ~ServerStep
      BY <2>1 DEF ServerStep, Sent, GaveUp, Heard, Exited, Closed, ledgerVars
    <3>4. ~Customer
      BY <2>1 DEF Customer, Start, Stop, StopAtOnce, Cancelled, ledgerVars
    <3>5. ~Faults
      BY <2>1 DEF Faults, ServerDies, Shutdown, Restart, WorkerDies, DiesAtBoot, DiesVerifying,
         DiesBetween, Signal, ledgerVars
    <3> QED
      BY <1>1, <3>1, <3>2, <3>3, <3>4, <3>5 DEF Next, System
  <2>3. PICK w \in Workers : BootVerify(w) \/ Health(w)
    BY <2>2
  <2>4. CASE BootVerify(w)
    <3>1. /\ mission = "VERIFYING" /\ sessions' = sessions /\ last' = last
          /\ alive' = alive /\ cut' = cut
      BY <2>4 DEF BootVerify, previewVars, historyVars
    <3> QED
      BY <1>1, <2>1, <3>1 DEF Settled, PreviewsAreSafe, VerifiedIsUp, Pid
  <2>5. CASE Health(w)
    BY <1>1, <2>1, <2>5, NextTyped, HealthIsSafe DEF Settled
  <2> QED
    BY <2>3, <2>4, <2>5
<1>2. Settled /\ [Next]_vars => [Left]_vars
  BY <1>1
<1>3. Spec => [][Left]_vars
  BY <1>2, AlwaysSettled, PTL DEF Spec
<1> QED
  BY <1>3 DEF DeliveredPreviewIsLeft

===============================================================================
