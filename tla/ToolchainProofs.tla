---------------------------- MODULE ToolchainProofs ----------------------------
(***************************************************************************)
(* However many missions and workers there are, whoever dies and whatever  *)
(* is stolen: the records of the registry are facts that were observed     *)
(* (RecordsAreFacts), and a provisioned mission has a stack selected for   *)
(* it after a check of its own (ReadyIsSelected).                          *)
(*                                                                         *)
(* The argument.  An observation and a fact have the time of the attempt   *)
(* that made them, time is never 0, and neither is made twice; so what a   *)
(* worker saw of them when it went on still holds when it appends, however *)
(* long that takes it (Backed).  The registry only grows, so what a worker *)
(* found there is there when it acts on it (Found), although its lock may  *)
(* protect it no longer.                                                   *)
(*                                                                         *)
(* Two further invariants rest on this one.  While no worker has lost its  *)
(* lock, who is past taking it has it, and appends to just the file it has *)
(* read (LockProtects): so only theft and cut records do damage            *)
(* (OnlyTheftDamages).  While workers come one at a time and none meets a  *)
(* fault, each finds the lock free and everything it is about to do still  *)
(* undone (OneByOne): so none fails (OnlyTheCrossedAreLeft).               *)
(***************************************************************************)
EXTENDS Toolchain, TLAPS

Appending == { "lock", "inspect", "steal", "relock", "stamp", "read", "write" }

\* A worker that read the clock has a time.
Dated(l) ==
  /\ l.at # "idle" => l.mission \in Missions /\ now # 0
  /\ l.at \notin { "idle", "list", "clock" } => l.stamp # 0

\* What a worker goes by has been observed and recorded.
Backed(l) ==
  /\ l.at = "observe" => l.op # "select"
  /\ l.at = "look" => l.op # "check"
  /\ l.at \in { "recall", "fact" } \union Appending /\ l.op # "select"
       => evidence[l.mission][l.op] = l.stamp
  /\ l.at \in Appending => facts[l.mission][l.op] = l.stamp

\* What a worker relies on is in the registry.
Found(l) ==
  /\ l.at = "fact" /\ l.known => Has(l.mission, l.op)
  /\ l.at = "write" /\ l.op = "select" => Has(l.mission, "check")
  /\ l.at = "unlock" /\ ~l.fails => Has(l.mission, l.op)
  /\ l.at = "confirm" => Has(l.mission, l.op)
  /\ l.at = "move" => Has(l.mission, "select")

Good(l) == Dated(l) /\ Backed(l) /\ Found(l)

RecordsAreDated ==
  \A i \in DOMAIN registry : registry[i].of # Earlier => registry[i].at # 0

SelectionsFollowChecks ==
  \A j \in DOMAIN registry :
    registry[j].op = "select" =>
      \E i \in DOMAIN registry :
        i < j /\ registry[i].of = registry[j].of /\ registry[i].op = "check"

FileIsGood == RecordsAreDated /\ RecordsAreFacts /\ SelectionsFollowChecks

IInv ==
  TypeOK /\ (\A w \in Workers : Good(worker[w])) /\ FileIsGood /\ ReadyIsSelected

\* Nothing that was observed, recorded or appended is ever changed.
Kept ==
  /\ \A m \in Missions, op \in Observed :
       evidence[m][op] # 0 => evidence'[m][op] = evidence[m][op]
  /\ \A m \in Missions, op \in Operations :
       facts[m][op] # 0 => facts'[m][op] = facts[m][op]
  /\ Len(registry) <= Len(registry')
  /\ \A i \in 1 .. Len(registry) : registry'[i] = registry[i]
  /\ now # 0 => now' # 0

USE ToolchainAssumption

LEMMA EntriesStay ==
  ASSUME TypeOK, TypeOK', Kept, NEW i \in DOMAIN registry
  PROVE  i \in DOMAIN registry' /\ registry'[i] = registry[i]
<1>1. i \in 1 .. Len(registry) /\ DOMAIN registry' = 1 .. Len(registry')
  BY DEF TypeOK
<1>2. Len(registry) \in Nat /\ Len(registry') \in Nat
  BY DEF TypeOK
<1> QED
  BY <1>1, <1>2 DEF Kept

\* What has been found in the registry stays there.
LEMMA FoundStays ==
  ASSUME TypeOK, TypeOK', Kept,
         NEW m \in Missions \union {Earlier}, NEW op \in Operations, Has(m, op)
  PROVE  Has(m, op)'
<1>1. PICK i \in DOMAIN registry : registry[i].of = m /\ registry[i].op = op
  BY DEF Has
<1>2. i \in DOMAIN registry' /\ registry'[i] = registry[i]
  BY <1>1, EntriesStay
<1> QED
  BY <1>1, <1>2 DEF Has

\* The others are not affected by what a worker does.
LEMMA Bystanders ==
  ASSUME TypeOK, TypeOK', Kept, NEW l \in Locals, Good(l)
  PROVE  Good(l)'
<1>1. Dated(l)'
  BY DEF Good, Dated, Kept
<1>2. Backed(l)'
  <2>1. l.at \in { "recall", "fact" } \union Appending
          => l.mission \in Missions /\ l.stamp # 0 /\ l.op \in Operations
    BY DEF Good, Dated, Appending, Locals
  <2>2. l.op # "select" /\ l.op \in Operations => l.op \in Observed
    BY DEF Operations, Observed
  <2> QED
    BY <2>1, <2>2 DEF Good, Backed, Kept, Appending
<1>3. Found(l)'
  <2>1. l.mission \in Missions \union {Earlier} /\ l.op \in Operations
    BY DEF Locals
  <2>2. \A m \in Missions \union {Earlier}, op \in Operations : Has(m, op) => Has(m, op)'
    BY FoundStays
  <2> QED
    BY <2>1, <2>2 DEF Good, Found, Operations
<1> QED
  BY <1>1, <1>2, <1>3 DEF Good

\* A file nobody appended to is as good as it was.
LEMMA SameFile ==
  ASSUME IInv, TypeOK', Kept, registry' = registry
  PROVE  FileIsGood'
<1>1. RecordsAreDated' /\ SelectionsFollowChecks'
  BY DEF IInv, FileIsGood, RecordsAreDated, SelectionsFollowChecks
<1>2. RecordsAreFacts'
  <2> SUFFICES ASSUME NEW i \in DOMAIN registry, registry[i].of # Earlier
               PROVE  /\ facts'[registry[i].of][registry[i].op] = registry[i].at
                      /\ registry[i].op # "select"
                           => evidence'[registry[i].of][registry[i].op] = registry[i].at
    BY DEF RecordsAreFacts
  <2>1. registry[i] \in Records
    BY DEF IInv, TypeOK
  <2>2. /\ registry[i].of \in Missions /\ registry[i].op \in Operations
        /\ registry[i].op # "select" => registry[i].op \in Observed
    BY <2>1 DEF Records, Operations, Observed
  <2>3. /\ registry[i].at # 0
        /\ facts[registry[i].of][registry[i].op] = registry[i].at
        /\ registry[i].op # "select"
             => evidence[registry[i].of][registry[i].op] = registry[i].at
    BY DEF IInv, FileIsGood, RecordsAreDated, RecordsAreFacts
  <2> QED
    BY <2>2, <2>3 DEF Kept
<1> QED
  BY <1>1, <1>2 DEF FileIsGood

\* Selections that are there stay there.
LEMMA ReadyStays ==
  ASSUME TypeOK, TypeOK', Kept, ReadyIsSelected, ready' = ready
  PROVE  ReadyIsSelected'
<1> SUFFICES ASSUME NEW m \in ready
             PROVE  \E i, j \in DOMAIN registry' :
                      /\ registry'[i].of = m /\ registry'[i].op = "check"
                      /\ registry'[j].of = m /\ registry'[j].op = "select" /\ i < j
  BY DEF ReadyIsSelected
<1>1. PICK i \in DOMAIN registry, j \in DOMAIN registry :
        /\ registry[i].of = m /\ registry[i].op = "check"
        /\ registry[j].of = m /\ registry[j].op = "select" /\ i < j
  BY DEF ReadyIsSelected
<1>2. /\ i \in DOMAIN registry' /\ registry'[i] = registry[i]
      /\ j \in DOMAIN registry' /\ registry'[j] = registry[j]
  BY EntriesStay
<1> QED
  BY <1>1, <1>2

\* What a step of one worker may make of him, and of all the rest.
Becomes(w) ==
  /\ worker' = [ worker EXCEPT ![w] = worker'[w] ]
  /\ worker'[w] \in Locals
  /\ worker'[w].at # "idle" => worker'[w].mission \in Missions

Rest ==
  /\ registry \in Seq(Records) /\ lock \in Locks
  /\ evidence \in [ Missions -> [ Observed -> Time ] ]
  /\ facts \in [ Missions -> [ Operations -> Time ] ]
  /\ ready \subseteq Missions
  /\ now \in Time /\ faults \in 0 .. MaxFaults
  /\ stolen \in BOOLEAN /\ crossed \in BOOLEAN

LEMMA IdleIsTyped == Idle \in Locals /\ Free \in Locks
<1>1. Idle \in Locals
  BY DEF Idle, Locals, Places, Operations, Time
<1>2. Free \in Locks
  BY DEF Free, Locks
<1> QED
  BY <1>1, <1>2

LEMMA TypesAreKept ==
  ASSUME TypeOK, NEW w \in Workers, Becomes(w), Rest'
  PROVE  TypeOK' /\ \A x \in Workers \ {w} : worker'[x] = worker[x]
<1>1. /\ worker' \in [ Workers -> Locals ]
      /\ \A x \in Workers : worker'[x].at # "idle" => worker'[x].mission \in Missions
      /\ \A x \in Workers \ {w} : worker'[x] = worker[x]
  BY DEF TypeOK, Becomes
<1> QED
  BY <1>1 DEF TypeOK, Rest

LEMMA TypesOfRest == TypeOK => Rest
BY DEF TypeOK, Rest

\* A step of one worker is good when he and the file are afterwards.
LEMMA WorkerAndFile ==
  ASSUME IInv, NEW w \in Workers, Becomes(w), Rest', Kept, ready' = ready,
         Good(worker[w])', FileIsGood'
  PROVE  IInv'
<1>1. TypeOK' /\ \A x \in Workers \ {w} : worker'[x] = worker[x]
  BY TypesAreKept DEF IInv
<1>2. \A x \in Workers \ {w} : Good(worker[x])'
  <2> SUFFICES ASSUME NEW x \in Workers \ {w}
               PROVE  Good(worker[x])'
    OBVIOUS
  <2>1. worker[x] \in Locals /\ Good(worker[x])
    BY DEF IInv, TypeOK
  <2>2. ASSUME NEW l \in Locals, Good(l) PROVE Good(l)'
    BY <1>1, <2>2, Bystanders DEF IInv
  <2>3. worker'[x] = worker[x]
    BY <1>1
  <2> QED
    BY <2>1, <2>2, <2>3 DEF Good, Dated, Backed, Found, Has
<1>3. ReadyIsSelected'
  BY <1>1, ReadyStays DEF IInv
<1> QED
  BY <1>1, <1>2, <1>3 DEF IInv

LEMMA OneWorker ==
  ASSUME IInv, NEW w \in Workers, Becomes(w), Rest', Kept,
         registry' = registry, ready' = ready, Good(worker[w])'
  PROVE  IInv'
<1>1. TypeOK'
  BY TypesAreKept DEF IInv
<1> QED
  BY <1>1, SameFile, WorkerAndFile

\* Steps that change nothing but where the worker is, and the history.
LEMMA QuietIsKept ==
  ASSUME TypeOK, UNCHANGED disk, now' \in Time, now # 0 => now' # 0,
         faults' \in 0 .. MaxFaults, stolen' \in BOOLEAN, crossed' \in BOOLEAN
  PROVE  Kept /\ Rest' /\ registry' = registry /\ ready' = ready
<1>1. Kept
  BY DEF Kept, disk, TypeOK
<1>2. Rest' /\ registry' = registry /\ ready' = ready
  BY DEF Rest, disk, TypeOK
<1> QED
  BY <1>1, <1>2

LEMMA IdleIsGood ==
  ASSUME IInv, NEW w \in Workers, Throws(w) PROVE Becomes(w) /\ Good(worker[w])'
<1>1. worker'[w] = Idle
  BY DEF IInv, TypeOK, Throws
<1>2. Becomes(w)
  BY <1>1, IdleIsTyped DEF IInv, TypeOK, Throws, Becomes, Idle
<1>3. Good(worker[w])'
  BY <1>1 DEF Good, Dated, Backed, Found, Idle, Appending
<1> QED
  BY <1>2, <1>3

LEMMA LeavingIsGood ==
  ASSUME IInv, NEW w \in Workers, Throws(w), Rest', Kept, registry' = registry,
         ready' = ready
  PROVE  IInv'
BY IdleIsGood, OneWorker

LEMMA InitIsGood == Init => IInv
<1> SUFFICES ASSUME Init PROVE IInv
  OBVIOUS
<1>1. \A w \in Workers : worker[w] = Idle
  BY DEF Init
<1>2. \A w \in Workers : Good(worker[w])
  BY <1>1 DEF Good, Dated, Backed, Found, Idle, Appending
<1>3. worker \in [ Workers -> Locals ] /\ \A w \in Workers : worker[w].at = "idle"
  BY <1>1, IdleIsTyped DEF Init, Idle
<1>4. /\ evidence \in [ Missions -> [ Observed -> Time ] ]
      /\ facts \in [ Missions -> [ Operations -> Time ] ]
      /\ now \in Time /\ faults \in 0 .. MaxFaults /\ lock \in Locks
  BY IdleIsTyped DEF Init, Time
<1>5. registry \in Seq(Records) /\ \A i \in DOMAIN registry : registry[i] = Registration
  <2>1. CASE registry = << >>
    BY <2>1
  <2>2. CASE registry = <<Registration>>
    <3>1. Registration \in Records
      BY DEF Registration, Records, Operations, Time
    <3> QED
      BY <2>2, <3>1
  <2> QED
    BY <2>1, <2>2 DEF Init
<1>6. FileIsGood /\ ReadyIsSelected
  BY <1>5 DEF Init, FileIsGood, RecordsAreDated, RecordsAreFacts, SelectionsFollowChecks,
     ReadyIsSelected, Registration
<1> QED
  BY <1>2, <1>3, <1>4, <1>5, <1>6 DEF Init, IInv, TypeOK

LEMMA BeginIsGood ==
  ASSUME IInv, NEW w \in Workers, NEW m \in Missions, Begin(w, m) PROVE IInv'
<1>1. Kept /\ Rest' /\ registry' = registry /\ ready' = ready
  <2>1. TypeOK /\ UNCHANGED disk /\ UNCHANGED <<faults, stolen>> /\ now' \in Time
    BY DEF Begin, IInv, TypeOK, Time
  <2>2. crossed' \in BOOLEAN
    BY DEF Begin, IInv, TypeOK
  <2>3. now' # 0
    BY DEF Begin, IInv, TypeOK, Time
  <2> QED
    BY <2>1, <2>2, <2>3, QuietIsKept DEF TypeOK
<1>2. worker'[w] = [ Idle EXCEPT !.at = "list", !.mission = m ]
  BY DEF Begin, IInv, TypeOK
<1>3. Becomes(w)
  <2>1. worker' = [ worker EXCEPT ![w] = worker'[w] ]
    BY <1>2 DEF Begin
  <2>2. worker'[w] \in Locals /\ worker'[w].mission \in Missions
    BY <1>2, IdleIsTyped DEF Locals, Places
  <2> QED
    BY <2>1, <2>2 DEF Becomes
<1>4. Good(worker[w])'
  <2>1. now' # 0
    BY DEF Begin, IInv, TypeOK, Time
  <2> QED
    BY <1>2, <2>1 DEF Good, Dated, Backed, Found, Idle, Appending
<1> QED
  BY <1>1, <1>3, <1>4, OneWorker

\* Where a worker that goes on is, and what it then has.
LEMMA Changing ==
  ASSUME IInv, NEW w \in Workers, NEW l \in Locals, l.mission \in Missions,
         worker' = [ worker EXCEPT ![w] = l ]
  PROVE  Becomes(w) /\ worker'[w] = l
BY DEF IInv, TypeOK, Becomes

LEMMA Going ==
  ASSUME IInv, NEW w \in Workers, worker[w].at # "idle",
         NEW place \in Places, worker' = [ worker EXCEPT ![w].at = place ]
  PROVE  Becomes(w) /\ worker'[w] = [ worker[w] EXCEPT !.at = place ]
<1>1. worker[w] \in Locals /\ worker[w].mission \in Missions
  BY DEF IInv, TypeOK
<1>2. [ worker[w] EXCEPT !.at = place ] \in Locals
  BY <1>1 DEF Locals
<1> QED
  BY <1>1, <1>2, Changing DEF Locals

\* What is done alone.
LEMMA AloneIsKept ==
  ASSUME IInv, Alone PROVE Kept /\ Rest' /\ registry' = registry /\ ready' = ready /\ now' = now
<1>1. TypeOK /\ UNCHANGED <<disk, now, faults, stolen, crossed>>
  BY DEF IInv, Alone
<1> QED
  BY <1>1, QuietIsKept DEF TypeOK

LEMMA ListIsGood == ASSUME IInv, NEW w \in Workers, List(w) PROVE IInv'
<1>1. Kept /\ Rest' /\ registry' = registry /\ ready' = ready /\ now' = now
  BY AloneIsKept DEF List
<1>2. CASE ~Readable
  BY <1>1, <1>2, LeavingIsGood DEF List
<1>3. CASE Readable
  <2>1. worker[w] \in Locals /\ worker[w].at = "list" /\ worker[w].mission \in Missions
        /\ Good(worker[w])
    BY DEF List, At, IInv, TypeOK
  <2>2. PICK op \in Operations :
          worker' = [ worker EXCEPT ![w] = [ worker[w] EXCEPT !.at = "clock", !.op = op ] ]
    BY <1>3 DEF List, Operations
  <2>3. /\ [ worker[w] EXCEPT !.at = "clock", !.op = op ] \in Locals
        /\ [ worker[w] EXCEPT !.at = "clock", !.op = op ].mission \in Missions
    BY <2>1 DEF Locals, Places
  <2>4. Becomes(w) /\ worker'[w] = [ worker[w] EXCEPT !.at = "clock", !.op = op ]
    BY <2>2, <2>3, Changing
  <2>5. Good(worker[w])'
    BY <1>1, <2>1, <2>4 DEF Good, Dated, Backed, Found, Appending, Locals
  <2> QED
    BY <1>1, <2>4, <2>5, OneWorker
<1> QED
  BY <1>2, <1>3

LEMMA ClockIsGood == ASSUME IInv, NEW w \in Workers, Clock(w) PROVE IInv'
<1>1. worker[w] \in Locals /\ worker[w].at = "clock" /\ worker[w].mission \in Missions
      /\ Good(worker[w]) /\ now # 0
  BY DEF Clock, At, IInv, TypeOK, Good, Dated
<1>2. PICK t \in { now, now + 1 } \intersect Time :
        /\ now' = t
        /\ worker' = [ worker EXCEPT ![w].stamp = t, ![w].known = FALSE,
                         ![w].at = IF worker[w].op = "check" THEN "observe" ELSE "look" ]
  BY DEF Clock
<1> t \in Time /\ t # 0 /\ now' # 0
  BY <1>1, <1>2 DEF IInv, TypeOK, Time
<1>3. Kept /\ Rest' /\ registry' = registry /\ ready' = ready
  BY <1>2, QuietIsKept DEF Clock, IInv, TypeOK
<1>4. Becomes(w) /\ Good(worker[w])'
  <2>1. CASE worker[w].op = "check"
    <3> DEFINE l == [ worker[w] EXCEPT !.stamp = t, !.known = FALSE, !.at = "observe" ]
    <3>1. l \in Locals /\ l.mission \in Missions
      BY <1>1 DEF Locals, Places
    <3>2. worker' = [ worker EXCEPT ![w] = l ]
      BY <1>2, <2>1 DEF IInv, TypeOK
    <3>3. Becomes(w) /\ worker'[w] = l
      <4> HIDE DEF l
      <4> QED
        BY <3>1, <3>2, Changing
    <3>4. /\ worker'[w].at = "observe" /\ worker'[w].mission = worker[w].mission
          /\ worker'[w].op = worker[w].op /\ worker'[w].stamp = t
      BY <1>1, <3>3 DEF Locals
    <3>5. Good(worker[w])'
      BY <1>1, <1>2, <2>1, <3>4 DEF Good, Dated, Backed, Found, Appending
    <3> QED
      BY <3>3, <3>5
  <2>2. CASE worker[w].op # "check"
    <3> DEFINE l == [ worker[w] EXCEPT !.stamp = t, !.known = FALSE, !.at = "look" ]
    <3>1. l \in Locals /\ l.mission \in Missions
      BY <1>1 DEF Locals, Places
    <3>2. worker' = [ worker EXCEPT ![w] = l ]
      BY <1>2, <2>2 DEF IInv, TypeOK
    <3>3. Becomes(w) /\ worker'[w] = l
      <4> HIDE DEF l
      <4> QED
        BY <3>1, <3>2, Changing
    <3>4. /\ worker'[w].at = "look" /\ worker'[w].mission = worker[w].mission
          /\ worker'[w].op = worker[w].op /\ worker'[w].stamp = t
      BY <1>1, <3>3 DEF Locals
    <3>5. Good(worker[w])'
      BY <1>1, <1>2, <2>2, <3>4 DEF Good, Dated, Backed, Found, Appending
    <3> QED
      BY <3>3, <3>5
  <2> QED
    BY <2>1, <2>2
<1> QED
  BY <1>3, <1>4, OneWorker

\* A worker that is told that the stack is registered, or that it was selected, goes on.
LEMMA LookIsGood == ASSUME IInv, NEW w \in Workers, Look(w) PROVE IInv'
<1>1. Kept /\ Rest' /\ registry' = registry /\ ready' = ready /\ now' = now
  BY AloneIsKept DEF Look
<1>2. worker[w] \in Locals /\ worker[w].at = "look" /\ worker[w].mission \in Missions
      /\ Good(worker[w])
  BY DEF Look, At, IInv, TypeOK
<1>3. CASE Throws(w)
  BY <1>1, <1>3, LeavingIsGood
<1>4. CASE worker[w].op = "register" /\ Goes(w, "observe")
  <2>1. Becomes(w) /\ worker'[w] = [ worker[w] EXCEPT !.at = "observe" ]
    BY <1>2, <1>4, Going DEF Goes, Places
  <2>2. Good(worker[w])'
    BY <1>1, <1>2, <1>4, <2>1 DEF Good, Dated, Backed, Found, Appending, Locals
  <2> QED
    BY <1>1, <2>1, <2>2, OneWorker
<1>5. CASE worker[w].op # "register" /\ Goes(w, "recall")
  <2>1. Becomes(w) /\ worker'[w] = [ worker[w] EXCEPT !.at = "recall" ]
    BY <1>2, <1>5, Going DEF Goes, Places
  <2>2. worker[w].op = "select"
    BY <1>2, <1>5 DEF Good, Backed, Locals, Operations
  <2>3. Good(worker[w])'
    BY <1>1, <1>2, <2>1, <2>2 DEF Good, Dated, Backed, Found, Appending, Locals
  <2> QED
    BY <1>1, <2>1, <2>3, OneWorker
<1>6. CASE worker' = [ worker EXCEPT ![w].at = "clock", ![w].op = "check" ]
  <2> DEFINE l == [ worker[w] EXCEPT !.at = "clock", !.op = "check" ]
  <2>1. l \in Locals /\ l.mission \in Missions
    BY <1>2 DEF Locals, Places, Operations
  <2>2. Becomes(w) /\ worker'[w] = l
    <3>1. worker' = [ worker EXCEPT ![w] = l ]
      BY <1>6 DEF IInv, TypeOK
    <3> HIDE DEF l
    <3> QED
      BY <2>1, <3>1, Changing
  <2>3. Good(worker[w])'
    BY <1>1, <1>2, <2>2 DEF Good, Dated, Backed, Found, Appending, Locals
  <2> QED
    BY <1>1, <2>2, <2>3, OneWorker
<1> QED
  BY <1>3, <1>4, <1>5, <1>6 DEF Look

\* The tools do not fit, or the Ledger refuses: the worker leaves.
LEMMA RefusalIsGood ==
  ASSUME IInv, NEW w \in Workers, DoesNotFit(w) \/ FactRefused(w) PROVE IInv'
<1>1. TypeOK /\ UNCHANGED <<disk, now, stolen>> /\ crossed' = TRUE
      /\ faults' \in 0 .. MaxFaults /\ Throws(w)
  BY DEF DoesNotFit, FactRefused, IInv, TypeOK
<1>2. Kept /\ Rest' /\ registry' = registry /\ ready' = ready
  BY <1>1, QuietIsKept DEF TypeOK
<1> QED
  BY <1>1, <1>2, LeavingIsGood

\* What was recorded is recalled, and found, or it is yet to be recorded.
LEMMA RecallIsGood == ASSUME IInv, NEW w \in Workers, Recall(w) PROVE IInv'
<1>1. Kept /\ Rest' /\ registry' = registry /\ ready' = ready /\ now' = now
      /\ evidence' = evidence
  BY AloneIsKept DEF Recall, Alone, disk
<1>2. worker[w] \in Locals /\ worker[w].at = "recall" /\ worker[w].mission \in Missions
      /\ Good(worker[w])
  BY DEF Recall, At, IInv, TypeOK
<1>3. CASE Throws(w)
  BY <1>1, <1>3, LeavingIsGood
<1>4. CASE worker' = [ worker EXCEPT ![w].at = "fact", ![w].known = Recorded(w) ]
  <2> DEFINE l == [ worker[w] EXCEPT !.at = "fact", !.known = Recorded(w) ]
  <2>1. Recorded(w) \in BOOLEAN
    BY DEF Recorded
  <2>2. l \in Locals /\ l.mission \in Missions
    BY <1>2, <2>1 DEF Locals, Places
  <2>3. Becomes(w) /\ worker'[w] = l
    <3>1. worker' = [ worker EXCEPT ![w] = l ]
      BY <1>4 DEF IInv, TypeOK
    <3> HIDE DEF l
    <3> QED
      BY <2>2, <3>1, Changing
  <2>4. /\ worker'[w].at = "fact" /\ worker'[w].known = Recorded(w)
        /\ worker'[w].mission = worker[w].mission /\ worker'[w].op = worker[w].op
        /\ worker'[w].stamp = worker[w].stamp
    BY <1>2, <2>3 DEF Locals
  <2>5. Recorded(w) => Has(worker[w].mission, worker[w].op)
    BY DEF Recorded, Has
  <2>6. Dated(worker[w])' /\ Backed(worker[w])'
    BY <1>1, <1>2, <2>4 DEF Good, Dated, Backed, Appending
  <2>7. Found(worker[w])'
    BY <1>1, <2>4, <2>5 DEF Found, Has
  <2> QED
    BY <1>1, <2>3, <2>6, <2>7, OneWorker DEF Good
<1> QED
  BY <1>3, <1>4 DEF Recall

\* On the way to the registry nothing a worker goes by is touched.
LEMMA OnTheWay ==
  ASSUME IInv, NEW w \in Workers, worker[w].at \in Appending,
         NEW place \in Appending \ {"write"}, Goes(w, place),
         UNCHANGED <<evidence, facts, now>>
  PROVE  Becomes(w) /\ Good(worker[w])'
<1>1. worker[w] \in Locals /\ Good(worker[w])
  BY DEF IInv, TypeOK
<1>2. Becomes(w) /\ worker'[w] = [ worker[w] EXCEPT !.at = place ]
  BY Going DEF Goes, Appending, Places
<1>3. /\ worker'[w].at = place /\ worker'[w].mission = worker[w].mission
      /\ worker'[w].op = worker[w].op /\ worker'[w].stamp = worker[w].stamp
  BY <1>1, <1>2 DEF Locals
<1>4. Good(worker[w])'
  BY <1>1, <1>3 DEF Good, Dated, Backed, Found, Appending
<1> QED
  BY <1>2, <1>4

LEMMA InspectIsGood == ASSUME IInv, NEW w \in Workers, Inspect(w) PROVE IInv'
<1>1. Kept /\ Rest' /\ registry' = registry /\ ready' = ready
  BY AloneIsKept DEF Inspect
<1>2. CASE Throws(w)
  BY <1>1, <1>2, LeavingIsGood
<1>3. CASE Goes(w, "steal")
  BY <1>1, <1>3, OnTheWay, OneWorker DEF Inspect, At, Alone, disk, Appending
<1> QED
  BY <1>2, <1>3 DEF Inspect

\* What happens to the lock.
LEMMA LockIsKept ==
  ASSUME IInv, NEW w \in Workers, Disk(w), UNCHANGED registry, lock' \in Locks,
         stolen' \in BOOLEAN
  PROVE  Kept /\ Rest' /\ registry' = registry /\ ready' = ready
         /\ UNCHANGED <<evidence, facts, now>>
<1>1. TypeOK
  BY DEF IInv
<1>2. Kept /\ UNCHANGED <<evidence, facts, now, ready>>
  BY <1>1 DEF Disk, Kept, TypeOK
<1>3. Rest'
  BY <1>1 DEF Disk, Rest, TypeOK
<1> QED
  BY <1>2, <1>3

LEMMA TakingIsTyped ==
  ASSUME IInv, NEW w \in Workers, Take(w) \/ lock' = Free \/ UNCHANGED lock
  PROVE  lock' \in Locks
BY IdleIsTyped DEF Take, Locks, IInv, TypeOK

LEMMA LockingIsGood ==
  ASSUME IInv, NEW w \in Workers, Lock(w) \/ Relock(w) \/ Steal(w) \/ Stamp(w) PROVE IInv'
<1>1. lock' \in Locks
  <2>1. CASE Stamp(w)
    BY <2>1 DEF Stamp, Locks, IInv, TypeOK
  <2> QED
    BY <2>1, TakingIsTyped DEF Lock, Relock, Steal
<1>2. stolen' \in BOOLEAN
  BY DEF Lock, Relock, Steal, Stamp, IInv, TypeOK
<1>3. Kept /\ Rest' /\ registry' = registry /\ ready' = ready
      /\ UNCHANGED <<evidence, facts, now>>
  BY <1>1, <1>2, LockIsKept DEF Lock, Relock, Steal, Stamp
<1>4. CASE Throws(w)
  BY <1>3, <1>4, LeavingIsGood
<1>5. CASE ~Throws(w)
  <2>1. PICK place \in { "stamp", "inspect", "relock", "read" } : Goes(w, place)
    BY <1>5 DEF Lock, Relock, Steal, Stamp
  <2>2. Becomes(w) /\ Good(worker[w])'
    BY <1>3, <2>1, OnTheWay DEF Lock, Relock, Steal, Stamp, At, Appending
  <2> QED
    BY <1>3, <2>2, OneWorker
<1> QED
  BY <1>4, <1>5

\* Who goes on to write found that the record is admitted, and who does not that it is
\* there, or fails.
LEMMA ReadIsGood == ASSUME IInv, NEW w \in Workers, Read(w) PROVE IInv'
<1>1. Kept /\ Rest' /\ registry' = registry /\ ready' = ready /\ now' = now
      /\ evidence' = evidence /\ facts' = facts
  BY AloneIsKept DEF Read, Alone, disk
<1>2. worker[w] \in Locals /\ worker[w].at = "read" /\ worker[w].mission \in Missions
      /\ Good(worker[w]) /\ registry \in Seq(Records)
  BY DEF Read, At, IInv, TypeOK
<1> DEFINE sound == Readable /\ ~Stale(worker[w].stamp)
<1>3. CASE sound /\ Admits(worker[w].mission, worker[w].op)
  <2> DEFINE l == [ worker[w] EXCEPT !.at = "write", !.seen = Len(registry) ]
  <2>1. l \in Locals /\ l.mission \in Missions
    <3>1. Len(registry) \in Nat
      BY <1>2
    <3> QED
      BY <1>2, <3>1 DEF Locals, Places
  <2>2. Becomes(w) /\ worker'[w] = l
    <3>1. worker' = [ worker EXCEPT ![w] = l ]
      BY <1>3 DEF Read, IInv, TypeOK
    <3> HIDE DEF l
    <3> QED
      BY <2>1, <3>1, Changing
  <2>3. /\ worker'[w].at = "write" /\ worker'[w].op = worker[w].op
        /\ worker'[w].mission = worker[w].mission /\ worker'[w].stamp = worker[w].stamp
    BY <1>2, <2>2 DEF Locals
  <2>4. worker[w].op = "select" => Has(worker[w].mission, "check")
    BY <1>3 DEF Admits
  <2>5. Dated(worker[w])' /\ Backed(worker[w])'
    BY <1>1, <1>2, <2>3 DEF Good, Dated, Backed, Appending
  <2>6. Found(worker[w])'
    BY <1>1, <2>3, <2>4 DEF Found, Has
  <2> QED
    BY <1>1, <2>2, <2>5, <2>6, OneWorker DEF Good
<1>4. ASSUME NEW fails \in BOOLEAN, ~fails => Recorded(w),
             worker' = [ worker EXCEPT ![w].at = "unlock", ![w].fails = fails ]
      PROVE  IInv'
  <2> DEFINE l == [ worker[w] EXCEPT !.at = "unlock", !.fails = fails ]
  <2>1. l \in Locals /\ l.mission \in Missions
    BY <1>2 DEF Locals, Places
  <2>2. Becomes(w) /\ worker'[w] = l
    <3>1. worker' = [ worker EXCEPT ![w] = l ]
      BY <1>4 DEF IInv, TypeOK
    <3> HIDE DEF l
    <3> QED
      BY <2>1, <3>1, Changing
  <2>3. /\ worker'[w].at = "unlock" /\ worker'[w].op = worker[w].op
        /\ worker'[w].mission = worker[w].mission /\ worker'[w].stamp = worker[w].stamp
        /\ worker'[w].fails = fails
    BY <1>2, <2>2 DEF Locals
  <2>4. ~fails => Has(worker[w].mission, worker[w].op)
    BY <1>4 DEF Recorded, Has
  <2>5. Dated(worker[w])' /\ Backed(worker[w])'
    BY <1>1, <1>2, <2>3 DEF Good, Dated, Backed, Appending
  <2>6. Found(worker[w])'
    BY <1>1, <2>3, <2>4 DEF Found, Has
  <2> QED
    BY <1>1, <2>2, <2>5, <2>6, OneWorker DEF Good
<1>5. CASE ~(sound /\ Admits(worker[w].mission, worker[w].op)) /\ sound /\ Recorded(w)
  <2>1. worker' = [ worker EXCEPT ![w].at = "unlock", ![w].fails = FALSE ]
    BY <1>5 DEF Read
  <2> QED
    BY <1>4, <1>5, <2>1
<1>6. CASE ~(sound /\ Admits(worker[w].mission, worker[w].op)) /\ ~(sound /\ Recorded(w))
  <2>1. worker' = [ worker EXCEPT ![w].at = "unlock", ![w].fails = TRUE ]
    BY <1>6 DEF Read
  <2> QED
    BY <1>4, <2>1
<1> QED
  BY <1>3, <1>5, <1>6

LEMMA UnlockIsGood == ASSUME IInv, NEW w \in Workers, Unlock(w) PROVE IInv'
<1>1. Kept /\ Rest' /\ registry' = registry /\ ready' = ready
      /\ UNCHANGED <<evidence, facts, now>>
  BY TakingIsTyped, LockIsKept DEF Unlock, IInv, TypeOK
<1>2. worker[w] \in Locals /\ worker[w].at = "unlock" /\ worker[w].mission \in Missions
      /\ Good(worker[w])
  BY DEF Unlock, At, IInv, TypeOK
<1>3. CASE worker[w].fails
  BY <1>1, <1>3, LeavingIsGood DEF Unlock
<1>4. CASE ~worker[w].fails
  <2>1. Becomes(w) /\ worker'[w] = [ worker[w] EXCEPT !.at = "confirm" ]
    BY <1>2, <1>4, Going DEF Unlock, Goes, Places
  <2>2. /\ worker'[w].at = "confirm" /\ worker'[w].op = worker[w].op
        /\ worker'[w].mission = worker[w].mission /\ worker'[w].stamp = worker[w].stamp
    BY <1>2, <2>1 DEF Locals
  <2>3. Dated(worker[w])' /\ Backed(worker[w])'
    BY <1>1, <1>2, <2>2 DEF Good, Dated, Backed, Appending
  <2>4. Found(worker[w])'
    BY <1>1, <1>2, <1>4, <2>2 DEF Good, Found, Has
  <2> QED
    BY <1>1, <2>1, <2>3, <2>4, OneWorker DEF Good
<1> QED
  BY <1>3, <1>4

\* Each operation was recorded when the next one begins.
LEMMA ConfirmIsGood == ASSUME IInv, NEW w \in Workers, Confirm(w) PROVE IInv'
<1>1. Kept /\ Rest' /\ registry' = registry /\ ready' = ready /\ now' = now
  BY AloneIsKept DEF Confirm
<1>2. worker[w] \in Locals /\ worker[w].at = "confirm" /\ worker[w].mission \in Missions
      /\ Good(worker[w])
  BY DEF Confirm, At, IInv, TypeOK
<1>3. CASE Throws(w)
  BY <1>1, <1>3, LeavingIsGood
<1>4. ASSUME NEW op \in { "check", "select" },
             worker' = [ worker EXCEPT ![w].at = "clock", ![w].op = op ]
      PROVE  IInv'
  <2> DEFINE l == [ worker[w] EXCEPT !.at = "clock", !.op = op ]
  <2>1. l \in Locals /\ l.mission \in Missions
    BY <1>2 DEF Locals, Places, Operations
  <2>2. Becomes(w) /\ worker'[w] = l
    <3>1. worker' = [ worker EXCEPT ![w] = l ]
      BY <1>4 DEF IInv, TypeOK
    <3> HIDE DEF l
    <3> QED
      BY <2>1, <3>1, Changing
  <2>3. worker'[w].at = "clock" /\ worker'[w].mission = worker[w].mission
    BY <1>2, <2>2 DEF Locals
  <2>4. Good(worker[w])'
    BY <1>1, <1>2, <2>3 DEF Good, Dated, Backed, Found, Appending
  <2> QED
    BY <1>1, <2>2, <2>4, OneWorker
<1>5. CASE worker[w].op \notin { "register", "check" } /\ Goes(w, "move")
  <2>1. Becomes(w) /\ worker'[w] = [ worker[w] EXCEPT !.at = "move" ]
    BY <1>2, <1>5, Going DEF Goes, Places
  <2>2. /\ worker'[w].at = "move" /\ worker'[w].mission = worker[w].mission
        /\ worker'[w].stamp = worker[w].stamp
    BY <1>2, <2>1 DEF Locals
  <2>3. worker[w].op = "select"
    BY <1>2, <1>5 DEF Locals, Operations
  <2>4. Dated(worker[w])' /\ Backed(worker[w])'
    BY <1>1, <1>2, <2>2 DEF Good, Dated, Backed, Appending
  <2>5. Found(worker[w])'
    BY <1>1, <1>2, <2>2, <2>3 DEF Good, Found, Has
  <2> QED
    BY <1>1, <2>1, <2>4, <2>5, OneWorker DEF Good
<1> QED
  BY <1>3, <1>4, <1>5 DEF Confirm

\* An observation that is there has the same time, or it is made.
LEMMA ObserveIsGood == ASSUME IInv, NEW w \in Workers, Observe(w) PROVE IInv'
<1> DEFINE m == worker[w].mission
           op == worker[w].op
<1>1. worker[w] \in Locals /\ worker[w].at = "observe" /\ m \in Missions /\ op \in Observed
      /\ Good(worker[w])
  BY DEF Observe, At, IInv, TypeOK, Good, Backed, Locals, Operations, Observed
<1>2. CASE evidence[m][op] \notin { 0, worker[w].stamp }
  <2>1. UNCHANGED disk /\ UNCHANGED <<now, faults, stolen, crossed>> /\ Throws(w)
    BY <1>2 DEF Observe, disk
  <2> QED
    BY <2>1, AloneIsKept, LeavingIsGood DEF Alone
<1>3. CASE evidence[m][op] \in { 0, worker[w].stamp }
  <2>1. /\ evidence' = [ evidence EXCEPT ![m][op] = worker[w].stamp ]
        /\ Goes(w, "recall")
        /\ UNCHANGED <<registry, lock, facts, ready, now, faults, stolen, crossed>>
    BY <1>3 DEF Observe
  <2>2. evidence'[m][op] = worker[w].stamp /\ worker[w].stamp \in Time
    BY <1>1, <2>1 DEF IInv, TypeOK, Locals
  <2>3. evidence' \in [ Missions -> [ Observed -> Time ] ]
    BY <1>1, <2>1, <2>2 DEF IInv, TypeOK
  <2>4. Rest'
    BY <2>1, <2>3 DEF IInv, TypeOK, Rest
  <2>5. \A x \in Missions, o \in Observed : evidence[x][o] # 0 => evidence'[x][o] = evidence[x][o]
    BY <1>1, <1>3, <2>1 DEF IInv, TypeOK
  <2>6. Kept
    BY <2>1, <2>5 DEF Kept, IInv, TypeOK
  <2>7. Becomes(w) /\ worker'[w] = [ worker[w] EXCEPT !.at = "recall" ]
    BY <1>1, <2>1, Going DEF Goes, Places
  <2>8. /\ worker'[w].at = "recall" /\ worker'[w].mission = m /\ worker'[w].op = op
        /\ worker'[w].stamp = worker[w].stamp
    BY <1>1, <2>7 DEF Locals
  <2>9. Good(worker[w])'
    BY <1>1, <2>1, <2>2, <2>8 DEF Good, Dated, Backed, Found, Appending
  <2> QED
    BY <2>1, <2>4, <2>6, <2>7, <2>9, OneWorker
<1> QED
  BY <1>2, <1>3

\* So with facts.
LEMMA FactIsGood == ASSUME IInv, NEW w \in Workers, Fact(w) PROVE IInv'
<1> DEFINE m == worker[w].mission
           op == worker[w].op
<1>1. worker[w] \in Locals /\ worker[w].at = "fact" /\ m \in Missions /\ op \in Operations
      /\ Good(worker[w])
  BY DEF Fact, At, IInv, TypeOK, Locals
<1>2. CASE facts[m][op] \notin { 0, worker[w].stamp }
  <2>1. UNCHANGED disk /\ UNCHANGED <<now, faults, stolen, crossed>> /\ Throws(w)
    BY <1>2 DEF Fact, disk
  <2> QED
    BY <2>1, AloneIsKept, LeavingIsGood DEF Alone
<1>3. CASE facts[m][op] \in { 0, worker[w].stamp }
  <2> DEFINE place == IF worker[w].known THEN "confirm" ELSE "lock"
             l == [ worker[w] EXCEPT !.at = place, !.known = FALSE ]
  <2>1. /\ facts' = [ facts EXCEPT ![m][op] = worker[w].stamp ]
        /\ worker' = [ worker EXCEPT ![w].at = place, ![w].known = FALSE ]
        /\ UNCHANGED <<registry, lock, evidence, ready, now, faults, stolen, crossed>>
    BY <1>3 DEF Fact
  <2>2. facts'[m][op] = worker[w].stamp /\ worker[w].stamp \in Time
    BY <1>1, <2>1 DEF IInv, TypeOK, Locals
  <2>3. facts' \in [ Missions -> [ Operations -> Time ] ]
    BY <1>1, <2>1, <2>2 DEF IInv, TypeOK
  <2>4. Rest'
    BY <2>1, <2>3 DEF IInv, TypeOK, Rest
  <2>5. \A x \in Missions, o \in Operations : facts[x][o] # 0 => facts'[x][o] = facts[x][o]
    BY <1>1, <1>3, <2>1 DEF IInv, TypeOK
  <2>6. Kept
    BY <2>1, <2>5 DEF Kept, IInv, TypeOK
  <2>7. l \in Locals /\ l.mission \in Missions
    BY <1>1 DEF Locals, Places
  <2>8. Becomes(w) /\ worker'[w] = l
    <3>1. worker' = [ worker EXCEPT ![w] = l ]
      BY <2>1 DEF IInv, TypeOK
    <3> HIDE DEF l
    <3> QED
      BY <2>7, <3>1, Changing
  <2>9. /\ worker'[w].at = place /\ worker'[w].mission = m /\ worker'[w].op = op
        /\ worker'[w].stamp = worker[w].stamp
    BY <1>1, <2>8 DEF Locals
  <2>10. Dated(worker[w])' /\ Backed(worker[w])'
    BY <1>1, <2>1, <2>2, <2>9 DEF Good, Dated, Backed, Appending
  <2>11. Found(worker[w])'
    <3>1. worker[w].known => Has(m, op)
      BY <1>1 DEF Good, Found
    <3>2. (worker'[w].at = "confirm" /\ worker[w].known) \/ worker'[w].at = "lock"
      BY <2>9
    <3>3. (worker'[w].at = "confirm" => Has(m, op)) => Found(worker[w])'
      BY <2>1, <2>9, <3>2 DEF Found, Has
    <3> QED
      BY <3>1, <3>2, <3>3
  <2> QED
    BY <2>1, <2>4, <2>6, <2>8, <2>10, <2>11, OneWorker DEF Good
<1> QED
  BY <1>2, <1>3

\* A record that is appended is a fact, and a selection comes after its check.
LEMMA AppendedIsGood ==
  ASSUME IInv, NEW w \in Workers, At(w, "write"), NEW cut \in { "no", "newline", "within" },
         registry' = Append(registry, Entry(w, cut)), UNCHANGED <<evidence, facts, ready, now>>
  PROVE  /\ Kept /\ FileIsGood' /\ registry' \in Seq(Records)
         /\ \E i \in DOMAIN registry' :
              registry'[i].of = worker[w].mission /\ registry'[i].op = worker[w].op
<1> DEFINE m == worker[w].mission
           op == worker[w].op
           last == Len(registry) + 1
<1>1. worker[w] \in Locals /\ m \in Missions /\ op \in Operations /\ Good(worker[w])
      /\ registry \in Seq(Records)
  BY DEF At, IInv, TypeOK, Locals
<1>2. Entry(w, cut) \in Records
  BY <1>1 DEF Entry, Records, Locals
<1>3. /\ registry' \in Seq(Records) /\ Len(registry') = last /\ Len(registry) \in Nat
      /\ \A i \in 1 .. Len(registry) : registry'[i] = registry[i]
      /\ registry'[last] = Entry(w, cut)
      /\ DOMAIN registry = 1 .. Len(registry) /\ DOMAIN registry' = 1 .. last
  BY <1>1, <1>2
<1>4. Kept
  BY <1>3 DEF Kept
<1>5. /\ registry'[last].of = m /\ registry'[last].op = op
      /\ registry'[last].at = worker[w].stamp
  BY <1>3 DEF Entry
<1>6. /\ worker[w].stamp # 0 /\ facts[m][op] = worker[w].stamp
      /\ op # "select" => evidence[m][op] = worker[w].stamp
      /\ op = "select" => Has(m, "check")
  BY <1>1 DEF At, Good, Dated, Backed, Found, Appending
<1>7. \A i \in DOMAIN registry' : i # last => i \in DOMAIN registry /\ registry'[i] = registry[i]
  BY <1>3
<1>8. RecordsAreDated'
  BY <1>5, <1>6, <1>7 DEF RecordsAreDated, IInv, FileIsGood
<1>9. RecordsAreFacts'
  <2> SUFFICES ASSUME NEW i \in DOMAIN registry', registry'[i].of # Earlier
               PROVE  /\ facts[registry'[i].of][registry'[i].op] = registry'[i].at
                      /\ registry'[i].op # "select"
                           => evidence[registry'[i].of][registry'[i].op] = registry'[i].at
    BY DEF RecordsAreFacts
  <2>1. CASE i = last
    BY <1>5, <1>6, <2>1
  <2>2. CASE i # last
    BY <1>7, <2>2 DEF RecordsAreFacts, IInv, FileIsGood
  <2> QED
    BY <2>1, <2>2
<1>10. SelectionsFollowChecks'
  <2> SUFFICES ASSUME NEW j \in DOMAIN registry', registry'[j].op = "select"
               PROVE  \E i \in DOMAIN registry' :
                        i < j /\ registry'[i].of = registry'[j].of /\ registry'[i].op = "check"
    BY DEF SelectionsFollowChecks
  <2>1. CASE j = last
    <3>1. PICK i \in DOMAIN registry : registry[i].of = m /\ registry[i].op = "check"
      BY <1>5, <1>6, <2>1 DEF Has
    <3>2. i \in DOMAIN registry' /\ i < j /\ registry'[i] = registry[i]
      BY <1>3, <2>1
    <3> QED
      BY <1>5, <2>1, <3>1, <3>2
  <2>2. CASE j # last
    <3>1. j \in DOMAIN registry /\ registry'[j] = registry[j]
      BY <1>7, <2>2
    <3>2. PICK i \in DOMAIN registry :
            i < j /\ registry[i].of = registry[j].of /\ registry[i].op = "check"
      BY <2>2, <3>1 DEF SelectionsFollowChecks, IInv, FileIsGood
    <3>3. i \in DOMAIN registry' /\ registry'[i] = registry[i]
      BY <1>3
    <3> QED
      BY <3>1, <3>2, <3>3
  <2> QED
    BY <2>1, <2>2
<1>11. last \in DOMAIN registry'
  BY <1>3
<1> QED
  BY <1>3, <1>4, <1>5, <1>8, <1>9, <1>10, <1>11 DEF FileIsGood

LEMMA WriteIsGood == ASSUME IInv, NEW w \in Workers, Write(w) PROVE IInv'
<1>1. worker[w] \in Locals /\ worker[w].at = "write" /\ worker[w].mission \in Missions
      /\ Good(worker[w])
  BY DEF Write, At, IInv, TypeOK
<1>2. /\ Kept /\ FileIsGood' /\ registry' \in Seq(Records)
      /\ \E i \in DOMAIN registry' :
           registry'[i].of = worker[w].mission /\ registry'[i].op = worker[w].op
  BY AppendedIsGood DEF Write, Disk
<1>3. Rest' /\ ready' = ready /\ UNCHANGED <<evidence, facts, now>>
  BY <1>2 DEF Write, Disk, Rest, IInv, TypeOK
<1> DEFINE l == [ worker[w] EXCEPT !.at = "unlock", !.seen = 0 ]
<1>4. l \in Locals /\ l.mission \in Missions
  BY <1>1 DEF Locals, Places
<1>5. Becomes(w) /\ worker'[w] = l
  <2>1. worker' = [ worker EXCEPT ![w] = l ]
    BY DEF Write, IInv, TypeOK
  <2> HIDE DEF l
  <2> QED
    BY <1>4, <2>1, Changing
<1>6. /\ worker'[w].at = "unlock" /\ worker'[w].op = worker[w].op
      /\ worker'[w].mission = worker[w].mission /\ worker'[w].stamp = worker[w].stamp
  BY <1>1, <1>5 DEF Locals
<1>7. Dated(worker[w])' /\ Backed(worker[w])'
  BY <1>1, <1>3, <1>6 DEF Good, Dated, Backed, Appending
<1>8. Found(worker[w])'
  BY <1>2, <1>6 DEF Found, Has
<1> QED
  BY <1>2, <1>3, <1>5, <1>7, <1>8, WorkerAndFile DEF Good

LEMMA DeathIsGood == ASSUME IInv, NEW w \in Workers, Die(w) \/ DieWriting(w) PROVE IInv'
<1>1. Dies(w)
  BY DEF Die, DieWriting
<1>2. Throws(w) /\ UNCHANGED <<evidence, facts, ready, now, stolen>>
  BY <1>1 DEF Dies, Throws
<1>3. Becomes(w) /\ Good(worker[w])'
  BY <1>2, IdleIsGood
<1>4. lock' \in Locks /\ faults' \in 0 .. MaxFaults /\ crossed' \in BOOLEAN
  BY <1>1 DEF Dies, IInv, TypeOK, Locks
<1>5. CASE registry' = registry
  <2>1. Rest'
    BY <1>2, <1>4, <1>5 DEF Rest, IInv, TypeOK
  <2>2. Kept
    BY <1>2, <1>5 DEF Kept, IInv, TypeOK
  <2> QED
    BY <1>2, <1>3, <1>5, <2>1, <2>2, OneWorker
<1>6. CASE DieWriting(w)
  <2>1. PICK cut \in { "newline", "within" } : registry' = Append(registry, Entry(w, cut))
    BY <1>6 DEF DieWriting
  <2>2. Kept /\ FileIsGood' /\ registry' \in Seq(Records)
    BY <1>2, <1>6, <2>1, AppendedIsGood DEF DieWriting
  <2>3. Rest'
    BY <1>2, <1>4, <2>2 DEF Rest, IInv, TypeOK
  <2> QED
    BY <1>2, <1>3, <2>2, <2>3, WorkerAndFile
<1> QED
  BY <1>5, <1>6 DEF Die

\* The selection that was confirmed is there, and it follows its check.
LEMMA MoveIsGood == ASSUME IInv, NEW w \in Workers, Move(w) PROVE IInv'
<1> DEFINE m == worker[w].mission
<1>1. worker[w] \in Locals /\ m \in Missions /\ Has(m, "select") /\ TypeOK
  BY DEF Move, At, IInv, TypeOK, Good, Found
<1>2. /\ ready' = ready \union {m} /\ Throws(w)
      /\ UNCHANGED <<registry, lock, evidence, facts, now, faults, stolen, crossed>>
  BY DEF Move
<1>3. Becomes(w)
  BY <1>2, IdleIsGood
<1>4. Rest' /\ Kept
  <2>1. Rest'
    BY <1>1, <1>2 DEF Rest, TypeOK
  <2>2. Kept
    BY <1>1, <1>2 DEF Kept, TypeOK
  <2> QED
    BY <2>1, <2>2
<1>5. TypeOK' /\ \A x \in Workers \ {w} : worker'[x] = worker[x]
  BY <1>1, <1>3, <1>4, TypesAreKept
<1>6. \A x \in Workers : Good(worker[x])'
  <2>1. Good(worker[w])'
    BY <1>2, IdleIsGood
  <2>2. ASSUME NEW x \in Workers \ {w} PROVE Good(worker[x])'
    <3>1. Good(worker[x]) /\ worker'[x] = worker[x]
      BY <1>5 DEF IInv
    <3> QED
      BY <1>2, <3>1 DEF Good, Dated, Backed, Found, Has
  <2> QED
    BY <2>1, <2>2
<1>7. FileIsGood'
  BY <1>2, <1>4, <1>5, SameFile
<1>8. ReadyIsSelected'
  <2> SUFFICES ASSUME NEW x \in ready'
               PROVE  \E i, j \in DOMAIN registry :
                        /\ registry[i].of = x /\ registry[i].op = "check"
                        /\ registry[j].of = x /\ registry[j].op = "select" /\ i < j
    BY <1>2 DEF ReadyIsSelected
  <2>1. CASE x \in ready
    BY <2>1 DEF IInv, ReadyIsSelected
  <2>2. CASE x = m
    <3>1. PICK j \in DOMAIN registry : registry[j].of = m /\ registry[j].op = "select"
      BY <1>1 DEF Has
    <3>2. PICK i \in DOMAIN registry :
            i < j /\ registry[i].of = registry[j].of /\ registry[i].op = "check"
      BY <3>1 DEF IInv, FileIsGood, SelectionsFollowChecks
    <3> QED
      BY <2>2, <3>1, <3>2
  <2> QED
    BY <1>2, <2>1, <2>2
<1> QED
  BY <1>5, <1>6, <1>7, <1>8 DEF IInv

LEMMA StutteringIsGood == ASSUME IInv, UNCHANGED vars PROVE IInv'
BY DEF IInv, vars, disk, TypeOK, Good, Dated, Backed, Found, Has, FileIsGood, RecordsAreDated,
   RecordsAreFacts, SelectionsFollowChecks, ReadyIsSelected

LEMMA Invariance == Spec => []IInv
<1>1. IInv /\ [Next]_vars => IInv'
  <2> SUFFICES ASSUME IInv, [Next]_vars PROVE IInv'
    OBVIOUS
  <2>1. ASSUME NEW w \in Workers, NEW m \in Missions, Begin(w, m) PROVE IInv'
    BY <2>1, BeginIsGood
  <2>2. ASSUME NEW w \in Workers, Step(w) PROVE IInv'
    BY <2>2, ListIsGood, ClockIsGood, LookIsGood, RefusalIsGood, ObserveIsGood, RecallIsGood,
       FactIsGood, LockingIsGood, InspectIsGood, ReadIsGood, WriteIsGood, UnlockIsGood,
       ConfirmIsGood, MoveIsGood DEF Step
  <2>3. ASSUME NEW w \in Workers, Die(w) \/ DieWriting(w) PROVE IInv'
    BY <2>3, DeathIsGood
  <2>4. CASE UNCHANGED vars
    BY <2>4, StutteringIsGood
  <2> QED
    BY <2>1, <2>2, <2>3, <2>4 DEF Next
<1> QED
  BY <1>1, InitIsGood, PTL DEF Spec

\* The variables of the registry and its workers have their types (TypeOK).
THEOREM ToolchainTypes == Spec => []TypeOK
BY Invariance, PTL DEF IInv

\* Each record of the registry is a fact that was observed at its time
\* (toolchain-stack-registry.js:505-577), however the workers of any number of missions
\* overtake, steal from and outlive each other.
THEOREM RecordedIsObserved == Spec => []RecordsAreFacts
BY Invariance, PTL DEF IInv, FileIsGood

\* No mission is provisioned without a selection of its own that follows its check of
\* the machine (setupStack() before production-mission-service.js:5757).
THEOREM ProvisionedIsSelected == Spec => []ReadyIsSelected
BY Invariance, PTL DEF IInv

-------------------------------------------------------------------------------
(* The lock, while nobody has lost it.                                     *)

Holding == { "stamp", "read", "write", "unlock" }

\* Who is past taking the lock has it: so there is one such worker.
LockIsHeld ==
  \A w \in Workers : worker[w].at \in Holding => lock.by = w /\ lock.is # "free"

\* What a worker read under the lock is what it appends to.
ReadIsFresh ==
  \A w \in Workers :
    At(w, "write") =>
      Readable /\ worker[w].seen = Len(registry) /\ ~Stale(worker[w].stamp)

LockProtects == (~stolen => LockIsHeld /\ ReadIsFresh) /\ OnlyTheftDamages

\* A worker outside the lock, or one that stays where he was in it, disturbs nobody.
LEMMA OutsideTheLock ==
  ASSUME LockProtects, NEW w \in Workers,
         \A x \in Workers \ {w} : worker'[x] = worker[x],
         worker'[w].at \in Holding => worker[w].at \in Holding,
         worker'[w].at # "write", UNCHANGED <<registry, lock, stolen>>
  PROVE  LockProtects'
<1>1. OnlyTheftDamages'
  BY DEF LockProtects, OnlyTheftDamages, Readable, Cut
<1>2. ASSUME ~stolen PROVE LockIsHeld' /\ ReadIsFresh'
  <2>1. LockIsHeld /\ ReadIsFresh
    BY <1>2 DEF LockProtects
  <2> QED
    BY <2>1 DEF LockIsHeld, ReadIsFresh, At, Readable, Stale
<1> QED
  BY <1>1, <1>2 DEF LockProtects

\* Whoever takes the lock when it is free takes it from nobody.
LEMMA TakingProtects ==
  ASSUME TypeOK, LockProtects, NEW w \in Workers, lock.is = "free", Take(w), Goes(w, "stamp"),
         UNCHANGED <<registry, stolen>>
  PROVE  LockProtects'
<1>1. OnlyTheftDamages'
  BY DEF LockProtects, OnlyTheftDamages, Readable, Cut
<1>2. ASSUME ~stolen PROVE LockIsHeld' /\ ReadIsFresh'
  <2>1. \A x \in Workers : worker[x].at \notin Holding
    BY <1>2 DEF LockProtects, LockIsHeld
  <2>2. worker'[w].at = "stamp" /\ \A x \in Workers \ {w} : worker'[x] = worker[x]
    BY DEF Goes, TypeOK, Locals
  <2>3. lock'.by = w /\ lock'.is # "free"
    BY DEF Take
  <2> QED
    BY <2>1, <2>2, <2>3 DEF LockIsHeld, ReadIsFresh, At, Holding
<1> QED
  BY <1>1, <1>2 DEF LockProtects

LEMMA StealingProtects ==
  ASSUME TypeOK, LockProtects, NEW w \in Workers, Steal(w) PROVE LockProtects'
<1>1. OnlyTheftDamages'
  BY DEF Steal, LockProtects, OnlyTheftDamages, Readable, Cut
<1>2. CASE lock.is = "free"
  <2>1. UNCHANGED <<registry, lock, stolen>> /\ worker' = [ worker EXCEPT ![w] = Idle ]
    BY <1>2 DEF Steal, Throws
  <2> QED
    BY <2>1, OutsideTheLock DEF TypeOK, Idle, Holding
<1>3. ASSUME lock.is # "free", ~stolen' PROVE LockIsHeld' /\ ReadIsFresh'
  <2>1. Goes(w, "relock") /\ lock.by = NoWorker /\ ~stolen
    BY <1>3 DEF Steal
  <2>2. \A x \in Workers : worker[x].at \notin Holding
    BY <2>1, ToolchainAssumption DEF LockProtects, LockIsHeld
  <2>3. worker'[w].at = "relock" /\ \A x \in Workers \ {w} : worker'[x] = worker[x]
    BY <2>1 DEF Goes, TypeOK, Locals
  <2> QED
    BY <2>2, <2>3 DEF LockIsHeld, ReadIsFresh, At, Holding
<1> QED
  BY <1>1, <1>2, <1>3 DEF LockProtects

LEMMA StampingProtects ==
  ASSUME TypeOK, LockProtects, NEW w \in Workers, Stamp(w) PROVE LockProtects'
<1>1. OnlyTheftDamages'
  BY DEF Stamp, LockProtects, OnlyTheftDamages, Readable, Cut
<1>2. ASSUME ~stolen PROVE LockIsHeld' /\ ReadIsFresh'
  <2>1. LockIsHeld /\ ReadIsFresh
    BY <1>2 DEF LockProtects
  <2>2. worker'[w].at = "read" /\ \A x \in Workers \ {w} : worker'[x] = worker[x]
    BY DEF Stamp, Goes, TypeOK, Locals
  <2>3. lock'.by = lock.by /\ (lock.is # "free" => lock'.is # "free")
    BY DEF Stamp, TypeOK, Locks
  <2>4. LockIsHeld'
    BY <2>1, <2>2, <2>3 DEF LockIsHeld, Stamp, At, Holding
  <2>5. ReadIsFresh'
    BY <2>1, <2>2 DEF ReadIsFresh, At, Readable, Stale, Stamp
  <2> QED
    BY <2>4, <2>5
<1> QED
  BY <1>1, <1>2 DEF LockProtects, Stamp

LEMMA ReadingProtects ==
  ASSUME TypeOK, LockProtects, NEW w \in Workers, Read(w) PROVE LockProtects'
<1>1. OnlyTheftDamages' /\ UNCHANGED <<registry, lock, stolen>>
  BY DEF Read, Alone, disk, LockProtects, OnlyTheftDamages, Readable, Cut
<1>2. \A x \in Workers \ {w} : worker'[x] = worker[x]
  BY DEF Read, TypeOK
<1>3. /\ worker'[w].at \in Holding /\ worker'[w].stamp = worker[w].stamp
      /\ worker'[w].at = "write" =>
           Readable /\ ~Stale(worker[w].stamp) /\ worker'[w].seen = Len(registry)
  BY DEF Read, TypeOK, Locals, Holding
<1>4. ASSUME ~stolen PROVE LockIsHeld' /\ ReadIsFresh'
  <2>1. LockIsHeld /\ ReadIsFresh
    BY <1>4 DEF LockProtects
  <2>2. LockIsHeld'
    BY <1>1, <1>2, <2>1 DEF LockIsHeld, Read, At, Holding
  <2>3. ReadIsFresh'
    BY <1>1, <1>2, <1>3, <2>1 DEF ReadIsFresh, At, Readable, Stale
  <2> QED
    BY <2>2, <2>3
<1> QED
  BY <1>1, <1>4 DEF LockProtects

LEMMA UnlockingProtects ==
  ASSUME TypeOK, LockProtects, NEW w \in Workers, Unlock(w) PROVE LockProtects'
<1>1. OnlyTheftDamages'
  BY DEF Unlock, LockProtects, OnlyTheftDamages, Readable, Cut
<1>2. ASSUME ~stolen PROVE LockIsHeld' /\ ReadIsFresh'
  <2>1. \A x \in Workers \ {w} : worker'[x] = worker[x] /\ worker[x].at \notin Holding
    BY <1>2 DEF LockProtects, LockIsHeld, Unlock, At, Holding, Throws, Goes, TypeOK
  <2>2. worker'[w].at \notin Holding
    BY DEF Unlock, Throws, Goes, TypeOK, Locals, Idle, Holding
  <2> QED
    BY <2>1, <2>2 DEF LockIsHeld, ReadIsFresh, At, Holding
<1> QED
  BY <1>1, <1>2 DEF LockProtects, Unlock

\* What is appended to a readable file by one who read all of it, and was not too late,
\* leaves it readable, if it is complete.
LEMMA AppendedIsReadable ==
  ASSUME TypeOK, NEW w \in Workers, Readable, ~Cut,
         worker[w].seen = Len(registry), ~Stale(worker[w].stamp),
         registry' = Append(registry, Entry(w, "no"))
  PROVE  Readable' /\ ~Cut'
<1> DEFINE last == Len(registry) + 1
<1>1. /\ Len(registry) \in Nat /\ Len(registry') = last
      /\ DOMAIN registry = 1 .. Len(registry) /\ DOMAIN registry' = 1 .. last
      /\ \A i \in DOMAIN registry : registry'[i] = registry[i]
      /\ registry'[last] = Entry(w, "no")
  <2>1. registry \in Seq(Records)
    BY DEF TypeOK
  <2>2. Entry(w, "no") \in Records \union {Entry(w, "no")}
    OBVIOUS
  <2> QED
    BY <2>1, <2>2
<1>2. /\ registry'[last].cut = "no" /\ registry'[last].after = Len(registry)
      /\ registry'[last].at = worker[w].stamp
  BY <1>1 DEF Entry
<1>3. \A i \in DOMAIN registry : registry[i].cut = "no"
  BY DEF Cut
<1>4. ~Cut'
  BY <1>1, <1>2, <1>3 DEF Cut
<1>5. Readable'
  <2> SUFFICES ASSUME NEW i \in DOMAIN registry'
               PROVE  /\ registry'[i].cut # "within"
                      /\ i < Len(registry') => registry'[i].cut = "no"
                      /\ registry'[i].after = i - 1
                      /\ i > 1 => registry'[i - 1].at <= registry'[i].at
    BY DEF Readable
  <2>1. CASE i = last
    <3>1. i > 1 => registry'[i - 1] = registry[Len(registry)] /\ registry # << >>
      <4>1. i = Len(registry) + 1 /\ i - 1 = Len(registry)
        BY <1>1, <2>1
      <4>2. i > 1 => Len(registry) \in DOMAIN registry
        BY <1>1, <4>1
      <4>3. Len(<< >>) = 0
        OBVIOUS
      <4>4. i > 1 => registry # << >>
        BY <1>1, <4>1, <4>3
      <4>5. i > 1 => registry'[Len(registry)] = registry[Len(registry)]
        BY <1>1, <4>2
      <4> QED
        BY <4>1, <4>4, <4>5
    <3>2. registry # << >> => worker[w].stamp \in Int /\ registry[Len(registry)].at \in Int
      <4>1. registry # << >> => Len(registry) \in DOMAIN registry
        BY <1>1 DEF TypeOK
      <4>2. worker[w] \in Locals /\ \A j \in DOMAIN registry : registry[j] \in Records
        BY DEF TypeOK
      <4>3. worker[w].stamp \in 0 .. MaxTime
        BY <4>2 DEF Locals, Time
      <4>4. \A r \in Records : r.at \in 0 .. MaxTime
        BY DEF Records, Time
      <4> QED
        BY <4>1, <4>2, <4>3, <4>4
    <3>3. registry # << >> => registry[Len(registry)].at <= worker[w].stamp
      BY <3>2 DEF Stale
    <3>4. i - 1 = Len(registry) /\ ~(i < Len(registry'))
      BY <1>1, <2>1
    <3>5. registry'[i].cut = "no" /\ registry'[i].after = Len(registry)
          /\ registry'[i].at = worker[w].stamp
      BY <1>2, <2>1
    <3> QED
      BY <3>1, <3>3, <3>4, <3>5
  <2>2. CASE i # last
    <3>1. i \in DOMAIN registry /\ registry'[i] = registry[i]
          /\ (i > 1 => i - 1 \in DOMAIN registry /\ registry'[i - 1] = registry[i - 1])
      BY <1>1, <2>2
    <3> QED
      BY <1>3, <3>1 DEF Readable
  <2> QED
    BY <2>1, <2>2
<1> QED
  BY <1>4, <1>5

\* A cut stays where it is.
LEMMA CutStays ==
  ASSUME TypeOK, Cut, NEW entry, registry' = Append(registry, entry) PROVE Cut'
<1>1. PICK i \in DOMAIN registry : registry[i].cut # "no"
  BY DEF Cut
<1>2. registry \in Seq(Records \union {entry})
  BY DEF TypeOK
<1>3. i \in DOMAIN registry' /\ registry'[i] = registry[i]
  BY <1>2
<1> QED
  BY <1>1, <1>3 DEF Cut

LEMMA WritingProtects ==
  ASSUME TypeOK, LockProtects, NEW w \in Workers, Write(w) PROVE LockProtects'
<1>1. \A x \in Workers \ {w} : worker'[x] = worker[x]
  BY DEF Write, TypeOK
<1>2. worker'[w].at = "unlock"
  BY DEF Write, TypeOK, Locals
<1>3. ASSUME ~stolen PROVE LockIsHeld' /\ ReadIsFresh'
  <2>1. LockIsHeld /\ ReadIsFresh
    BY <1>3 DEF LockProtects
  <2>2. \A x \in Workers \ {w} : worker[x].at # "write"
    BY <2>1 DEF LockIsHeld, Write, At, Holding
  <2>3. LockIsHeld'
    BY <1>1, <1>2, <2>1 DEF LockIsHeld, Write, At, Holding
  <2>4. ReadIsFresh'
    BY <1>1, <1>2, <2>2 DEF ReadIsFresh, At
  <2> QED
    BY <2>3, <2>4
<1>4. OnlyTheftDamages'
  <2>1. CASE stolen
    BY <2>1 DEF OnlyTheftDamages, Write
  <2>2. CASE Cut
    BY <2>2, CutStays DEF OnlyTheftDamages, Write
  <2>3. CASE ~stolen /\ ~Cut
    <3>1. Readable /\ worker[w].seen = Len(registry) /\ ~Stale(worker[w].stamp)
      BY <2>3 DEF LockProtects, ReadIsFresh, Write
    <3> QED
      BY <2>3, <3>1, AppendedIsReadable DEF OnlyTheftDamages, Write
  <2> QED
    BY <2>1, <2>2, <2>3
<1> QED
  BY <1>3, <1>4 DEF LockProtects, Write

\* The dead hold nothing, and what they cut short is cut.
LEMMA DyingProtects ==
  ASSUME TypeOK, LockProtects, NEW w \in Workers, Die(w) \/ DieWriting(w) PROVE LockProtects'
<1>1. /\ \A x \in Workers \ {w} : worker'[x] = worker[x]
      /\ worker'[w] = Idle /\ stolen' = stolen
      /\ lock' = IF lock.by = w THEN [ lock EXCEPT !.by = NoWorker ] ELSE lock
  BY DEF Die, DieWriting, Dies, TypeOK
<1>2. ASSUME ~stolen PROVE LockIsHeld'
  <2>1. \A x \in Workers \ {w} : worker[x].at \in Holding => lock' = lock
    BY <1>1, <1>2 DEF LockProtects, LockIsHeld
  <2> QED
    BY <1>1, <1>2, <2>1 DEF LockProtects, LockIsHeld, Idle, Holding
<1>3. CASE Die(w)
  <2>1. OnlyTheftDamages'
    BY <1>1, <1>3 DEF Die, LockProtects, OnlyTheftDamages, Readable, Cut
  <2>2. ASSUME ~stolen PROVE ReadIsFresh'
    BY <1>1, <1>3, <2>2 DEF Die, LockProtects, ReadIsFresh, At, Readable, Stale, Idle
  <2> QED
    BY <1>1, <1>2, <2>1, <2>2 DEF LockProtects
<1>4. CASE DieWriting(w)
  <2>1. PICK cut \in { "newline", "within" } : registry' = Append(registry, Entry(w, cut))
    BY <1>4 DEF DieWriting
  <2>2. Cut'
    <3>1. registry \in Seq(Records \union {Entry(w, cut)})
      BY DEF TypeOK
    <3>2. Len(registry) + 1 \in DOMAIN registry' /\ registry'[Len(registry) + 1] = Entry(w, cut)
      BY <2>1, <3>1
    <3> QED
      BY <3>2 DEF Cut, Entry
  <2>3. ASSUME ~stolen PROVE ReadIsFresh'
    <3>1. \A x \in Workers \ {w} : worker[x].at # "write"
      BY <1>4, <2>3 DEF LockProtects, LockIsHeld, DieWriting, At, Holding
    <3> QED
      BY <1>1, <3>1 DEF ReadIsFresh, At, Idle
  <2> QED
    BY <1>1, <1>2, <2>2, <2>3 DEF LockProtects, OnlyTheftDamages
<1> QED
  BY <1>3, <1>4

\* The steps that never touch the lock.
LEMMA ElsewhereProtects ==
  ASSUME TypeOK, LockProtects, NEW w \in Workers,
         \/ \E m \in Missions : Begin(w, m)
         \/ List(w) \/ Clock(w) \/ Look(w) \/ DoesNotFit(w) \/ Observe(w) \/ Recall(w)
         \/ Fact(w) \/ FactRefused(w) \/ Inspect(w) \/ Confirm(w) \/ Move(w)
  PROVE  LockProtects'
<1>1. UNCHANGED <<registry, lock, stolen>>
  BY DEF Begin, List, Clock, Look, DoesNotFit, Observe, Recall, Fact, FactRefused, Inspect,
     Confirm, Move, Alone, disk
<1>2. \A x \in Workers \ {w} : worker'[x] = worker[x]
  BY DEF Begin, List, Clock, Look, DoesNotFit, Observe, Recall, Fact, FactRefused, Inspect,
     Confirm, Move, Throws, Goes, TypeOK
<1>3. worker'[w].at \notin Holding
  <2>1. CASE \E m \in Missions : Begin(w, m)
    <3>1. PICK m \in Missions :
            worker' = [ worker EXCEPT ![w] = [ Idle EXCEPT !.at = "list", !.mission = m ] ]
      BY <2>1 DEF Begin
    <3> QED
      BY <3>1 DEF Idle, TypeOK, Holding
  <2>2. CASE List(w) \/ Look(w) \/ Confirm(w)
    <3>1. CASE List(w)
      BY <3>1 DEF List, Throws, Idle, TypeOK, Locals, Holding
    <3>2. CASE Look(w)
      BY <3>2 DEF Look, Throws, Goes, Idle, TypeOK, Locals, Holding
    <3>3. CASE Confirm(w)
      BY <3>3 DEF Confirm, Throws, Goes, Idle, TypeOK, Locals, Holding
    <3> QED
      BY <2>2, <3>1, <3>2, <3>3
  <2>3. CASE Clock(w)
    <3>1. PICK t \in Time :
            worker' = [ worker EXCEPT ![w].stamp = t, ![w].known = FALSE,
                          ![w].at = IF worker[w].op = "check" THEN "observe" ELSE "look" ]
      BY <2>3 DEF Clock
    <3> QED
      BY <3>1 DEF TypeOK, Locals, Holding
  <2>4. CASE DoesNotFit(w) \/ FactRefused(w) \/ Move(w)
    BY <2>4 DEF DoesNotFit, FactRefused, Move, Throws, Idle, TypeOK, Holding
  <2>5. CASE Observe(w) \/ Inspect(w)
    BY <2>5 DEF Observe, Inspect, Throws, Goes, Idle, TypeOK, Locals, Holding
  <2>6. CASE Recall(w)
    BY <2>6 DEF Recall, Throws, Idle, TypeOK, Locals, Holding
  <2>7. CASE Fact(w)
    BY <2>7 DEF Fact, Throws, Idle, TypeOK, Locals, Holding
  <2> QED
    BY <2>1, <2>2, <2>3, <2>4, <2>5, <2>6, <2>7
<1>4. worker'[w].at # "write" /\ (worker'[w].at \in Holding => worker[w].at \in Holding)
  BY <1>3 DEF Holding
<1> QED
  BY <1>1, <1>2, <1>3, <1>4, OutsideTheLock

LEMMA LockingProtects ==
  ASSUME TypeOK, LockProtects, NEW w \in Workers, Lock(w) \/ Relock(w) PROVE LockProtects'
<1>1. CASE lock.is = "free"
  BY <1>1, TakingProtects DEF Lock, Relock
<1>2. CASE lock.is # "free"
  <2>1. UNCHANGED <<registry, lock, stolen>> /\ (Goes(w, "inspect") \/ Throws(w))
    BY <1>2 DEF Lock, Relock
  <2>2. worker'[w].at \in { "inspect", "idle" }
        /\ \A x \in Workers \ {w} : worker'[x] = worker[x]
    BY <2>1 DEF Goes, Throws, Idle, TypeOK, Locals
  <2> QED
    BY <2>1, <2>2, OutsideTheLock DEF Holding
<1> QED
  BY <1>1, <1>2

LEMMA FirstProtects == Init => LockProtects
<1> SUFFICES ASSUME Init PROVE LockProtects
  OBVIOUS
<1>1. \A w \in Workers : worker[w].at = "idle"
  BY DEF Init, Idle
<1>2. Readable
  <2>1. CASE registry = << >>
    BY <2>1 DEF Readable
  <2>2. CASE registry = <<Registration>>
    BY <2>2 DEF Readable, Registration
  <2> QED
    BY <2>1, <2>2 DEF Init
<1> QED
  BY <1>1, <1>2 DEF LockProtects, LockIsHeld, ReadIsFresh, At, OnlyTheftDamages, Holding

LEMMA Protection == Spec => []LockProtects
<1>1. TypeOK /\ LockProtects /\ [Next]_vars => LockProtects'
  <2> SUFFICES ASSUME TypeOK, LockProtects, [Next]_vars PROVE LockProtects'
    OBVIOUS
  <2>1. ASSUME NEW w \in Workers, \/ \E m \in Missions : Begin(w, m)
                                  \/ Step(w) \/ Die(w) \/ DieWriting(w)
        PROVE  LockProtects'
    BY <2>1, ElsewhereProtects, LockingProtects, StealingProtects, StampingProtects,
       ReadingProtects, WritingProtects, UnlockingProtects, DyingProtects DEF Step
  <2>2. CASE UNCHANGED vars
    BY <2>2 DEF vars, disk, LockProtects, LockIsHeld, ReadIsFresh, At, OnlyTheftDamages,
       Readable, Cut, Stale
  <2> QED
    BY <2>1, <2>2 DEF Next
<1> QED
  BY <1>1, FirstProtects, ToolchainTypes, PTL DEF Spec

\* The registry that all missions share stays readable whatever the clocks say and
\* whoever comes first (registry-store.js:112-205), unless a record was cut short or a
\* worker lost the lock it held: with nobody robbed, the lock excludes.
THEOREM TheLockProtects == Spec => []OnlyTheftDamages
BY Protection, PTL DEF LockProtects

-------------------------------------------------------------------------------
(* One worker after the other, and no fault.                               *)

\* Nothing was begun of an operation.
New(m, op) ==
  /\ ~Has(m, op) /\ facts[m][op] = 0
  /\ op \in Observed => evidence[m][op] = 0

Untouched(m) == \A op \in Operations : New(m, op)

After(op) ==
  IF op = "register" THEN { "check", "select" } ELSE IF op = "check" THEN { "select" } ELSE {}

Stamped == { "look", "observe", "recall", "fact", "lock", "stamp", "read", "write" }

\* A worker alone finds nothing that could make it fail.
Smooth(l) ==
  /\ l.mission \notin ready /\ l.stamp <= now /\ ~l.fails
  /\ l.at \notin { "inspect", "steal", "relock" }
  /\ l.at = "list" => Untouched(l.mission)
  /\ l.at # "list" =>
       (\A op \in After(l.op) : New(l.mission, op)) /\ (l.op # "register" => Registered)
  /\ l.at \in {"clock"} \union Stamped => Admits(l.mission, l.op)
  /\ l.at \in { "clock", "look", "observe" } => New(l.mission, l.op)
  /\ l.at \in { "recall", "fact" } => facts[l.mission][l.op] = 0
  /\ l.at = "fact" => ~l.known
  /\ l.at \in Stamped => \A i \in DOMAIN registry : registry[i].at <= l.stamp
  /\ l.at = "write" => l.seen = Len(registry)

FileIsCalm ==
  Readable /\ ~Cut /\ \A i \in DOMAIN registry : registry[i].at <= now

Alike == \A x, y \in Workers : ~At(x, "idle") /\ ~At(y, "idle") => x = y

LockIsFree == (\A w \in Workers : worker[w].at \notin Holding) => lock.is = "free"

OthersAreUntouched ==
  \A m \in Missions \ ready :
    (\A w \in Workers : At(w, "idle") \/ worker[w].mission # m) => Untouched(m)

OneByOne ==
  ~crossed =>
    /\ Alike /\ FileIsCalm /\ LockIsFree /\ OthersAreUntouched
    /\ \A w \in Workers : ~At(w, "idle") => Smooth(worker[w])

\* The file, the lock and the missions nobody is at, as long as there was only w.
Solo(w) == \A x \in Workers \ {w} : At(x, "idle")

LEMMA AloneIsSolo ==
  ASSUME IInv, OneByOne, ~crossed, NEW w \in Workers, worker[w].at # "idle"
  PROVE  /\ Solo(w) /\ FileIsCalm /\ Smooth(worker[w]) /\ Good(worker[w])
         /\ worker[w] \in Locals /\ worker[w].mission \in Missions /\ worker[w].op \in Operations
         /\ worker[w].at \notin Holding => lock.is = "free"
         /\ \A m \in Missions \ ready : m # worker[w].mission => Untouched(m)
<1>1. Alike /\ FileIsCalm /\ LockIsFree /\ OthersAreUntouched /\ Smooth(worker[w])
  BY DEF OneByOne, At
<1>2. Solo(w)
  BY <1>1 DEF Solo, Alike, At
<1>3. worker[w] \in Locals /\ worker[w].mission \in Missions /\ worker[w].op \in Operations
      /\ Good(worker[w])
  BY DEF IInv, TypeOK, Locals
<1>4. worker[w].at \notin Holding => lock.is = "free"
  BY <1>1, <1>2 DEF LockIsFree, Solo, At, Holding
<1>5. \A m \in Missions \ ready : m # worker[w].mission => Untouched(m)
  BY <1>1, <1>2 DEF OthersAreUntouched, Solo, At
<1> QED
  BY <1>1, <1>2, <1>3, <1>4, <1>5

\* It is enough to look at w again, and at what he did to the file, the lock and the rest.
LEMMA SoloGoesOn ==
  ASSUME NEW w \in Workers, NEW l \in Locals, worker \in [ Workers -> Locals ], Solo(w),
         worker' = [ worker EXCEPT ![w] = l ], l.at # "idle", FileIsCalm',
         l.at \notin Holding => lock'.is = "free", Smooth(l)',
         \A m \in Missions \ ready' : m # l.mission => Untouched(m)'
  PROVE  OneByOne'
<1>1. worker'[w] = l /\ \A x \in Workers \ {w} : worker'[x].at = "idle"
  BY DEF Solo, At
<1>2. Alike' /\ LockIsFree' /\ OthersAreUntouched'
  BY <1>1 DEF Alike, LockIsFree, OthersAreUntouched, At
<1>3. \A x \in Workers : ~At(x, "idle")' => x = w
  BY <1>1 DEF At
<1>4. Smooth(worker[w])'
  BY <1>1 DEF Smooth, Untouched, New, Has, Admits, Registered
<1> QED
  BY <1>2, <1>3, <1>4 DEF OneByOne

LEMMA CalmStays ==
  ASSUME TypeOK, TypeOK', FileIsCalm, registry' = registry, now <= now' PROVE FileIsCalm'
<1>1. \A i \in DOMAIN registry : registry[i].at <= now'
  <2> SUFFICES ASSUME NEW i \in DOMAIN registry PROVE registry[i].at <= now'
    OBVIOUS
  <2>1. registry[i] \in Records
    BY DEF TypeOK
  <2>2. registry[i].at \in Int /\ now \in Int /\ now' \in Int
    BY <2>1 DEF TypeOK, Records, Time
  <2>3. registry[i].at <= now
    BY DEF FileIsCalm
  <2> QED
    BY <2>2, <2>3
<1> QED
  BY <1>1 DEF FileIsCalm, Readable, Cut

LEMMA SameDisk ==
  ASSUME UNCHANGED <<registry, evidence, facts, ready>>
  PROVE  /\ \A m, op : New(m, op)' = New(m, op) /\ Admits(m, op)' = Admits(m, op)
         /\ \A m : Untouched(m)' = Untouched(m)
         /\ Registered' = Registered
<1>1. \A m, op : Has(m, op)' = Has(m, op)
  BY DEF Has
<1>2. Registered' = Registered
  BY <1>1 DEF Registered
<1>3. \A m, op : New(m, op)' = New(m, op) /\ Admits(m, op)' = Admits(m, op)
  BY <1>1, <1>2 DEF New, Admits
<1> QED
  BY <1>2, <1>3 DEF Untouched

LEMMA SmoothStays ==
  ASSUME UNCHANGED <<registry, evidence, facts, ready>>, NEW l, Smooth(l), l.stamp <= now'
  PROVE  Smooth(l)'
<1>1. /\ \A m, op : New(m, op)' = New(m, op) /\ Admits(m, op)' = Admits(m, op)
      /\ \A m : Untouched(m)' = Untouched(m)
      /\ Registered' = Registered
  BY SameDisk
<1> QED
  BY <1>1 DEF Smooth, Stamped

\* The steps that only look.
LEMMA LookingOn ==
  ASSUME IInv, IInv', OneByOne, ~crossed, NEW w \in Workers, NEW l \in Locals,
         worker[w].at # "idle", l.at # "idle", l.mission = worker[w].mission,
         worker' = [ worker EXCEPT ![w] = l ], Alone,
         l.at \notin Holding => worker[w].at \notin Holding, Smooth(l)
  PROVE  OneByOne'
<1>1. /\ Solo(w) /\ FileIsCalm /\ (worker[w].at \notin Holding => lock.is = "free")
      /\ \A m \in Missions \ ready : m # worker[w].mission => Untouched(m)
  BY AloneIsSolo
<1>2. /\ UNCHANGED <<registry, evidence, facts, ready>> /\ now' = now /\ lock' = lock
  BY DEF Alone, disk
<1>3. FileIsCalm'
  BY <1>1, <1>2, CalmStays DEF IInv, TypeOK, Time
<1>4. l.stamp <= now'
  BY <1>2 DEF Smooth
<1>5. Smooth(l)'
  BY <1>2, <1>4, SmoothStays
<1>6. \A m \in Missions \ ready' : m # l.mission => Untouched(m)'
  BY <1>1, <1>2, SameDisk
<1>7. worker \in [ Workers -> Locals ]
  BY DEF IInv, TypeOK
<1> QED
  BY <1>1, <1>2, <1>3, <1>5, <1>6, <1>7, SoloGoesOn

LEMMA BeginsSmoothly ==
  ASSUME IInv, IInv', OneByOne, ~crossed', NEW w \in Workers, NEW m \in Missions, Begin(w, m)
  PROVE  OneByOne'
<1> DEFINE l == [ Idle EXCEPT !.at = "list", !.mission = m ]
<1>1. /\ ~crossed /\ Busy = {} /\ m \notin ready /\ now' = now + 1
      /\ worker' = [ worker EXCEPT ![w] = l ] /\ UNCHANGED disk
  BY DEF Begin
<1>2. \A x \in Workers : worker[x].at = "idle"
  BY <1>1 DEF Busy
<1>3. FileIsCalm /\ lock.is = "free" /\ \A x \in Missions \ ready : Untouched(x)
  BY <1>1, <1>2 DEF OneByOne, LockIsFree, OthersAreUntouched, At, Holding
<1>4. UNCHANGED <<registry, evidence, facts, ready, lock>> /\ now \in Nat /\ now' \in Nat
      /\ TypeOK /\ TypeOK'
  BY <1>1 DEF disk, IInv, TypeOK, Time
<1>5. FileIsCalm'
  BY <1>1, <1>3, <1>4, CalmStays
<1>6. l \in Locals /\ l.at = "list" /\ l.mission = m /\ l.stamp = 0 /\ ~l.fails
  BY IdleIsTyped DEF Idle, Locals, Places
<1>7. Smooth(l)'
  <2>1. Untouched(m)'
    BY <1>1, <1>3, <1>4, SameDisk
  <2> QED
    BY <1>1, <1>4, <1>6, <2>1 DEF Smooth, Stamped
<1>8. \A x \in Missions \ ready' : x # l.mission => Untouched(x)'
  BY <1>3, <1>4, SameDisk
<1>9. Solo(w) /\ worker \in [ Workers -> Locals ]
  BY <1>2 DEF Solo, At, IInv, TypeOK
<1> HIDE DEF l
<1> QED
  BY <1>1, <1>3, <1>4, <1>5, <1>6, <1>7, <1>8, <1>9, SoloGoesOn

LEMMA ListsSmoothly ==
  ASSUME IInv, IInv', OneByOne, ~crossed', NEW w \in Workers, List(w) PROVE OneByOne'
<1>1. ~crossed /\ worker[w].at = "list" /\ Alone
  BY DEF List, Alone, At
<1>2. FileIsCalm /\ Smooth(worker[w]) /\ worker[w] \in Locals
  BY <1>1, AloneIsSolo
<1> DEFINE op == IF Registered THEN "check" ELSE "register"
           l == [ worker[w] EXCEPT !.at = "clock", !.op = op ]
           m == worker[w].mission
<1>3. worker' = [ worker EXCEPT ![w] = l ]
  BY <1>2 DEF List, FileIsCalm, IInv, TypeOK
<1>4. /\ l \in Locals /\ l.at = "clock" /\ l.op = op /\ l.mission = m
      /\ l.stamp = worker[w].stamp /\ l.fails = worker[w].fails
  BY <1>2 DEF Locals, Places, Operations
<1>5. Untouched(m)
  BY <1>1, <1>2 DEF Smooth
<1>6. Admits(m, op) /\ New(m, op) /\ (\A o \in After(op) : New(m, o))
      /\ (op # "register" => Registered)
  <2>1. \A o \in { "register", "check", "select" } : New(m, o)
    BY <1>5 DEF Untouched, Operations
  <2> QED
    BY <2>1 DEF Admits, After, New
<1>7. Smooth(l)
  BY <1>1, <1>2, <1>4, <1>6 DEF Smooth, Stamped
<1>8. l.at \notin Holding => worker[w].at \notin Holding
  BY <1>1 DEF Holding
<1> HIDE DEF l
<1> QED
  BY <1>1, <1>3, <1>4, <1>7, <1>8, LookingOn

LEMMA ClocksSmoothly ==
  ASSUME IInv, IInv', OneByOne, ~crossed', NEW w \in Workers, Clock(w) PROVE OneByOne'
<1>1. ~crossed /\ worker[w].at = "clock" /\ UNCHANGED disk
  BY DEF Clock, At
<1>2. /\ Solo(w) /\ FileIsCalm /\ Smooth(worker[w]) /\ worker[w] \in Locals /\ Good(worker[w])
      /\ lock.is = "free"
      /\ \A x \in Missions \ ready : x # worker[w].mission => Untouched(x)
  BY <1>1, AloneIsSolo DEF Holding
<1>3. PICK t \in { now, now + 1 } \intersect Time :
        /\ now' = t
        /\ worker' = [ worker EXCEPT ![w].stamp = t, ![w].known = FALSE,
                         ![w].at = IF worker[w].op = "check" THEN "observe" ELSE "look" ]
  BY DEF Clock
<1>4. PICK m, op, l :
        /\ m = worker[w].mission /\ op = worker[w].op
        /\ l = [ worker[w] EXCEPT !.stamp = t, !.known = FALSE,
                                  !.at = IF op = "check" THEN "observe" ELSE "look" ]
  OBVIOUS
<1>5. /\ l \in Locals /\ l.at \in { "look", "observe" } /\ l.op = op /\ l.mission = m
      /\ l.stamp = t /\ l.fails = worker[w].fails
  BY <1>2, <1>4 DEF Locals, Places
<1>6. worker' = [ worker EXCEPT ![w] = l ]
  BY <1>3, <1>4 DEF IInv, TypeOK
<1>7. UNCHANGED <<registry, evidence, facts, ready, lock>> /\ now <= now'
      /\ TypeOK /\ TypeOK'
  BY <1>1, <1>3 DEF disk, IInv, TypeOK, Time
<1>8. FileIsCalm'
  BY <1>2, <1>7, CalmStays
<1>9. Smooth(l)'
  <2>1. Admits(m, op) /\ New(m, op) /\ (\A o \in After(op) : New(m, o))
        /\ (op # "register" => Registered) /\ m \notin ready /\ ~worker[w].fails
    BY <1>1, <1>2, <1>4 DEF Smooth
  <2>2. Admits(m, op)' /\ New(m, op)' /\ (\A o \in After(op) : New(m, o)')
        /\ (op # "register" => Registered')
    BY <1>7, <2>1, SameDisk
  <2>3. \A i \in DOMAIN registry' : registry'[i].at <= t
    BY <1>3, <1>8 DEF FileIsCalm
  <2>4. t <= now'
    BY <1>3 DEF Time
  <2> QED
    BY <1>5, <1>7, <2>1, <2>2, <2>3, <2>4 DEF Smooth, Stamped
<1>10. \A x \in Missions \ ready' : x # l.mission => Untouched(x)'
  BY <1>2, <1>4, <1>5, <1>7, SameDisk
<1>11. l.at # "idle" /\ worker \in [ Workers -> Locals ]
  BY <1>5 DEF IInv, TypeOK
<1> QED
  BY <1>2, <1>5, <1>6, <1>7, <1>8, <1>9, <1>10, <1>11, SoloGoesOn

LEMMA LooksSmoothly ==
  ASSUME IInv, IInv', OneByOne, ~crossed', NEW w \in Workers, Look(w) PROVE OneByOne'
<1>1. ~crossed /\ worker[w].at = "look" /\ Alone
  BY DEF Look, Alone, At
<1>2. FileIsCalm /\ Smooth(worker[w]) /\ worker[w] \in Locals /\ Good(worker[w])
      /\ worker[w].op \in Operations
  BY <1>1, AloneIsSolo
<1> DEFINE place == IF worker[w].op = "register" THEN "observe" ELSE "recall"
           l == [ worker[w] EXCEPT !.at = place ]
           m == worker[w].mission
           op == worker[w].op
<1>3. /\ Admits(m, op) /\ New(m, op) /\ (\A o \in After(op) : New(m, o))
      /\ (op # "register" => Registered) /\ op # "check"
      /\ \A i \in DOMAIN registry : registry[i].at <= worker[w].stamp
  BY <1>1, <1>2 DEF Smooth, Stamped, Good, Backed
<1>4. worker' = [ worker EXCEPT ![w] = l ]
  BY <1>2, <1>3 DEF Look, Goes, FileIsCalm, IInv, TypeOK
<1>5. /\ l \in Locals /\ l.at = place /\ l.op = op /\ l.mission = m
      /\ l.stamp = worker[w].stamp /\ l.fails = worker[w].fails
  BY <1>2 DEF Locals, Places
<1>6. Smooth(l)
  BY <1>1, <1>2, <1>3, <1>5 DEF Smooth, Stamped, New
<1>7. l.at \notin Holding => worker[w].at \notin Holding
  BY <1>1 DEF Holding
<1> HIDE DEF l
<1> QED
  BY <1>1, <1>4, <1>5, <1>6, <1>7, LookingOn

LEMMA RecallsSmoothly ==
  ASSUME IInv, IInv', OneByOne, ~crossed', NEW w \in Workers, Recall(w) PROVE OneByOne'
<1>1. ~crossed /\ worker[w].at = "recall" /\ Alone
  BY DEF Recall, Alone, At
<1>2. FileIsCalm /\ Smooth(worker[w]) /\ worker[w] \in Locals
  BY <1>1, AloneIsSolo
<1> DEFINE l == [ worker[w] EXCEPT !.at = "fact", !.known = FALSE ]
           m == worker[w].mission
           op == worker[w].op
<1>3. /\ Admits(m, op) /\ (\A o \in After(op) : New(m, o))
      /\ (op # "register" => Registered) /\ facts[m][op] = 0
      /\ \A i \in DOMAIN registry : registry[i].at <= worker[w].stamp
  BY <1>1, <1>2 DEF Smooth, Stamped
<1>4. ~Has(m, op)
  <2>1. op = "register" => ~Registered
    BY <1>3 DEF Admits
  <2>2. m \in Missions
    BY <1>1, AloneIsSolo
  <2> QED
    BY <1>2, <1>3, <2>1, <2>2 DEF Admits, Registered, Locals, Operations
<1>5. ~Recorded(w)
  BY <1>4 DEF Recorded, Has
<1>6. worker' = [ worker EXCEPT ![w] = l ]
  <2>1. worker' = [ worker EXCEPT ![w].at = "fact", ![w].known = Recorded(w) ]
    BY <1>2, <1>4 DEF Recall, FileIsCalm
  <2>2. Recorded(w) = FALSE
    BY <1>5 DEF Recorded
  <2> QED
    BY <2>1, <2>2 DEF IInv, TypeOK
<1>7. /\ l \in Locals /\ l.at = "fact" /\ l.op = op /\ l.mission = m /\ ~l.known
      /\ l.stamp = worker[w].stamp /\ l.fails = worker[w].fails
  BY <1>2 DEF Locals, Places
<1>8. Smooth(l)
  BY <1>1, <1>2, <1>3, <1>7 DEF Smooth, Stamped
<1>9. l.at \notin Holding => worker[w].at \notin Holding
  BY <1>1 DEF Holding
<1> HIDE DEF l
<1> QED
  BY <1>1, <1>6, <1>7, <1>8, <1>9, LookingOn

\* Nobody wrote a later time than that of the worker that reads, and nobody else is at it.
LEMMA ReadsSmoothly ==
  ASSUME IInv, IInv', OneByOne, ~crossed', NEW w \in Workers, Read(w) PROVE OneByOne'
<1>1. ~crossed /\ worker[w].at = "read" /\ Alone
  BY DEF Read, Alone, At
<1>2. FileIsCalm /\ Smooth(worker[w]) /\ worker[w] \in Locals
  BY <1>1, AloneIsSolo
<1> DEFINE l == [ worker[w] EXCEPT !.at = "write", !.seen = Len(registry) ]
           m == worker[w].mission
           op == worker[w].op
<1>3. /\ Admits(m, op) /\ (\A o \in After(op) : New(m, o))
      /\ (op # "register" => Registered)
      /\ \A i \in DOMAIN registry : registry[i].at <= worker[w].stamp
  BY <1>1, <1>2 DEF Smooth, Stamped
<1>4. ~Stale(worker[w].stamp)
  <2> SUFFICES ASSUME registry # << >> PROVE ~(worker[w].stamp < registry[Len(registry)].at)
    BY DEF Stale
  <2>1. registry \in Seq(Records) /\ Len(registry) \in DOMAIN registry
    BY DEF IInv, TypeOK
  <2>2. registry[Len(registry)] \in Records
    BY <2>1
  <2>3. registry[Len(registry)].at \in 0 .. MaxTime /\ worker[w].stamp \in 0 .. MaxTime
    BY <1>2, <2>2 DEF Records, Locals, Time
  <2> QED
    BY <1>3, <2>1, <2>3
<1>5. worker' = [ worker EXCEPT ![w] = l ]
  BY <1>2, <1>3, <1>4 DEF Read, FileIsCalm, IInv, TypeOK
<1>6. /\ l \in Locals /\ l.at = "write" /\ l.op = op /\ l.mission = m /\ l.seen = Len(registry)
      /\ l.stamp = worker[w].stamp /\ l.fails = worker[w].fails
  <2>1. Len(registry) \in Nat
    BY DEF IInv, TypeOK
  <2> QED
    BY <1>2, <2>1 DEF Locals, Places
<1>7. Smooth(l)
  BY <1>1, <1>2, <1>3, <1>6 DEF Smooth, Stamped
<1>8. l.at \in Holding
  BY <1>6 DEF Holding
<1> HIDE DEF l
<1> QED
  BY <1>1, <1>5, <1>6, <1>7, <1>8, LookingOn

\* What was confirmed is there, so the next operation may be begun.
LEMMA ConfirmsSmoothly ==
  ASSUME IInv, IInv', OneByOne, ~crossed', NEW w \in Workers, Confirm(w) PROVE OneByOne'
<1>1. ~crossed /\ worker[w].at = "confirm" /\ Alone
  BY DEF Confirm, Alone, At
<1>2. FileIsCalm /\ Smooth(worker[w]) /\ worker[w] \in Locals /\ Good(worker[w])
      /\ worker[w].mission \in Missions /\ worker[w].op \in Operations
  BY <1>1, AloneIsSolo
<1> DEFINE m == worker[w].mission
           op == worker[w].op
<1>3. /\ (\A o \in After(op) : New(m, o)) /\ Has(m, op)
      /\ (op # "register" => Registered)
  BY <1>1, <1>2 DEF Smooth, Good, Found
<1>4. Registered
  BY <1>2, <1>3 DEF Registered
<1>5. CASE op \in { "register", "check" }
  <2> DEFINE next == IF op = "register" THEN "check" ELSE "select"
             l == [ worker[w] EXCEPT !.at = "clock", !.op = next ]
  <2>1. worker' = [ worker EXCEPT ![w] = l ]
    BY <1>2, <1>5 DEF Confirm, FileIsCalm, IInv, TypeOK
  <2>2. /\ l \in Locals /\ l.at = "clock" /\ l.op = next /\ l.mission = m
        /\ l.stamp = worker[w].stamp /\ l.fails = worker[w].fails
    BY <1>2 DEF Locals, Places, Operations
  <2>3. New(m, next) /\ (\A o \in After(next) : New(m, o)) /\ next # "register"
    BY <1>3, <1>5 DEF After
  <2>4. Admits(m, next)
    BY <1>3, <1>4, <1>5, <2>3 DEF Admits, New
  <2>5. Smooth(l)
    BY <1>1, <1>2, <1>4, <2>2, <2>3, <2>4 DEF Smooth, Stamped
  <2>6. l.at \notin Holding => worker[w].at \notin Holding
    BY <1>1 DEF Holding
  <2> HIDE DEF l
  <2> QED
    BY <1>1, <2>1, <2>2, <2>5, <2>6, LookingOn
<1>6. CASE op \notin { "register", "check" }
  <2> DEFINE l == [ worker[w] EXCEPT !.at = "move" ]
  <2>1. worker' = [ worker EXCEPT ![w] = l ]
    BY <1>2, <1>6 DEF Confirm, Goes, FileIsCalm, IInv, TypeOK
  <2>2. /\ l \in Locals /\ l.at = "move" /\ l.op = op /\ l.mission = m
        /\ l.stamp = worker[w].stamp /\ l.fails = worker[w].fails
    BY <1>2 DEF Locals, Places
  <2>3. Smooth(l)
    BY <1>1, <1>2, <1>3, <2>2 DEF Smooth, Stamped
  <2>4. l.at \notin Holding => worker[w].at \notin Holding
    BY <1>1 DEF Holding
  <2> HIDE DEF l
  <2> QED
    BY <1>1, <2>1, <2>2, <2>3, <2>4, LookingOn
<1> QED
  BY <1>5, <1>6

LEMMA SameRegistry ==
  ASSUME UNCHANGED registry
  PROVE  /\ \A m, op : Has(m, op)' = Has(m, op) /\ Admits(m, op)' = Admits(m, op)
         /\ Registered' = Registered
<1>1. \A m, op : Has(m, op)' = Has(m, op)
  BY DEF Has
<1>2. Registered' = Registered
  BY <1>1 DEF Registered
<1> QED
  BY <1>1, <1>2 DEF Admits

\* What comes after an operation is another one.
LEMMA AfterIsOther ==
  \A op \in Operations : \A o \in After(op) : o \in Operations /\ o # op
BY DEF After, Operations

LEMMA ObservesSmoothly ==
  ASSUME IInv, IInv', OneByOne, ~crossed', NEW w \in Workers, Observe(w) PROVE OneByOne'
<1>1. ~crossed /\ worker[w].at = "observe" /\ UNCHANGED <<registry, lock, facts, ready, now>>
  BY DEF Observe, At
<1>2. /\ Solo(w) /\ FileIsCalm /\ Smooth(worker[w]) /\ worker[w] \in Locals /\ Good(worker[w])
      /\ lock.is = "free" /\ worker[w].mission \in Missions /\ worker[w].op \in Operations
      /\ \A x \in Missions \ ready : x # worker[w].mission => Untouched(x)
  BY <1>1, AloneIsSolo DEF Holding
<1>3. PICK m, op, l :
        /\ m \in Missions /\ op \in Operations
        /\ m = worker[w].mission /\ op = worker[w].op
        /\ l = [ worker[w] EXCEPT !.at = "recall" ]
  BY <1>2
<1>4. /\ Admits(m, op) /\ New(m, op) /\ (\A o \in After(op) : New(m, o))
      /\ (op # "register" => Registered) /\ m \notin ready /\ ~worker[w].fails
      /\ op \in Observed /\ worker[w].stamp <= now
      /\ \A i \in DOMAIN registry : registry[i].at <= worker[w].stamp
  BY <1>1, <1>2, <1>3 DEF Smooth, Stamped, Good, Backed, Operations, Observed
<1>5. evidence' = [ evidence EXCEPT ![m][op] = worker[w].stamp ]
      /\ worker' = [ worker EXCEPT ![w] = l ]
  BY <1>3, <1>4 DEF Observe, New, Goes, IInv, TypeOK
<1>6. /\ l \in Locals /\ l.at = "recall" /\ l.op = op /\ l.mission = m
      /\ l.stamp = worker[w].stamp /\ l.fails = worker[w].fails
  BY <1>2, <1>3 DEF Locals, Places
<1>7. \A x \in Missions, o \in Operations : (x # m \/ o # op) /\ New(x, o) => New(x, o)'
  <2> SUFFICES ASSUME NEW x \in Missions, NEW o \in Operations, x # m \/ o # op, New(x, o)
               PROVE  New(x, o)'
    OBVIOUS
  <2>1. o \in Observed => evidence'[x][o] = evidence[x][o]
    BY <1>4, <1>5 DEF IInv, TypeOK
  <2> QED
    BY <1>1, <2>1, SameRegistry DEF New
<1>8. FileIsCalm'
  BY <1>1, <1>2, CalmStays DEF IInv, TypeOK, Time
<1>9. Smooth(l)'
  <2>1. \A o \in After(op) : New(m, o)'
    BY <1>3, <1>4, <1>7, AfterIsOther
  <2>2. Admits(m, op)' /\ (op # "register" => Registered') /\ facts'[m][op] = 0
    BY <1>1, <1>4, SameRegistry DEF New
  <2> QED
    BY <1>1, <1>4, <1>6, <2>1, <2>2 DEF Smooth, Stamped
<1>10. \A x \in Missions \ ready' : x # l.mission => Untouched(x)'
  BY <1>1, <1>2, <1>3, <1>6, <1>7 DEF Untouched
<1>11. l.at # "idle" /\ worker \in [ Workers -> Locals ] /\ lock'.is = "free"
  BY <1>1, <1>2, <1>6 DEF IInv, TypeOK
<1> QED
  BY <1>2, <1>5, <1>6, <1>8, <1>9, <1>10, <1>11, SoloGoesOn

LEMMA RecordsFactSmoothly ==
  ASSUME IInv, IInv', OneByOne, ~crossed', NEW w \in Workers, Fact(w) PROVE OneByOne'
<1>1. ~crossed /\ worker[w].at = "fact" /\ UNCHANGED <<registry, lock, evidence, ready, now>>
  BY DEF Fact, At
<1>2. /\ Solo(w) /\ FileIsCalm /\ Smooth(worker[w]) /\ worker[w] \in Locals
      /\ lock.is = "free" /\ worker[w].mission \in Missions /\ worker[w].op \in Operations
      /\ \A x \in Missions \ ready : x # worker[w].mission => Untouched(x)
  BY <1>1, AloneIsSolo DEF Holding
<1>3. PICK m, op, l :
        /\ m \in Missions /\ op \in Operations
        /\ m = worker[w].mission /\ op = worker[w].op
        /\ l = [ worker[w] EXCEPT !.at = "lock", !.known = FALSE ]
  BY <1>2
<1>4. /\ Admits(m, op) /\ facts[m][op] = 0 /\ (\A o \in After(op) : New(m, o))
      /\ (op # "register" => Registered) /\ m \notin ready /\ ~worker[w].fails
      /\ ~worker[w].known /\ worker[w].stamp <= now
      /\ \A i \in DOMAIN registry : registry[i].at <= worker[w].stamp
  BY <1>1, <1>2, <1>3 DEF Smooth, Stamped
<1>5. facts' = [ facts EXCEPT ![m][op] = worker[w].stamp ]
      /\ worker' = [ worker EXCEPT ![w] = l ]
  BY <1>3, <1>4 DEF Fact, IInv, TypeOK
<1>6. /\ l \in Locals /\ l.at = "lock" /\ l.op = op /\ l.mission = m
      /\ l.stamp = worker[w].stamp /\ l.fails = worker[w].fails
  BY <1>2, <1>3 DEF Locals, Places
<1>7. \A x \in Missions, o \in Operations : (x # m \/ o # op) /\ New(x, o) => New(x, o)'
  <2> SUFFICES ASSUME NEW x \in Missions, NEW o \in Operations, x # m \/ o # op, New(x, o)
               PROVE  New(x, o)'
    OBVIOUS
  <2>1. facts'[x][o] = facts[x][o]
    BY <1>5 DEF IInv, TypeOK
  <2> QED
    BY <1>1, <2>1, SameRegistry DEF New
<1>8. FileIsCalm'
  BY <1>1, <1>2, CalmStays DEF IInv, TypeOK, Time
<1>9. Smooth(l)'
  <2>1. \A o \in After(op) : New(m, o)'
    BY <1>3, <1>4, <1>7, AfterIsOther
  <2>2. Admits(m, op)' /\ (op # "register" => Registered')
    BY <1>1, <1>4, SameRegistry
  <2> QED
    BY <1>1, <1>4, <1>6, <2>1, <2>2 DEF Smooth, Stamped
<1>10. \A x \in Missions \ ready' : x # l.mission => Untouched(x)'
  BY <1>1, <1>2, <1>3, <1>6, <1>7 DEF Untouched
<1>11. l.at # "idle" /\ worker \in [ Workers -> Locals ] /\ lock'.is = "free"
  BY <1>1, <1>2, <1>6 DEF IInv, TypeOK
<1> QED
  BY <1>2, <1>5, <1>6, <1>8, <1>9, <1>10, <1>11, SoloGoesOn

\* The lock is free when a worker alone wants it, and it leaves it as it found it.
LEMMA LocksSmoothly ==
  ASSUME IInv, IInv', OneByOne, ~crossed', NEW w \in Workers, Lock(w) \/ Stamp(w) \/ Unlock(w)
  PROVE  OneByOne'
<1>1. /\ ~crossed /\ worker[w].at \in { "lock", "stamp", "unlock" }
      /\ UNCHANGED <<registry, evidence, facts, ready, now>>
  BY DEF Lock, Stamp, Unlock, Disk, At
<1>2. /\ Solo(w) /\ FileIsCalm /\ Smooth(worker[w]) /\ worker[w] \in Locals
      /\ (worker[w].at = "lock" => lock.is = "free")
      /\ \A x \in Missions \ ready : x # worker[w].mission => Untouched(x)
  BY <1>1, AloneIsSolo DEF Holding
<1>3. PICK place, l :
        /\ place = IF worker[w].at = "lock" THEN "stamp"
                   ELSE IF worker[w].at = "stamp" THEN "read" ELSE "confirm"
        /\ l = [ worker[w] EXCEPT !.at = place ]
  OBVIOUS
<1>4. ~worker[w].fails
  BY <1>2 DEF Smooth
<1>5. worker' = [ worker EXCEPT ![w] = l ]
  BY <1>2, <1>3, <1>4 DEF Lock, Stamp, Unlock, At, Goes, IInv, TypeOK
<1>6. /\ l \in Locals /\ l.at = place /\ l.op = worker[w].op /\ l.mission = worker[w].mission
      /\ l.stamp = worker[w].stamp /\ l.fails = worker[w].fails
  BY <1>1, <1>2, <1>3 DEF Locals, Places
<1>7. FileIsCalm'
  BY <1>1, <1>2, CalmStays DEF IInv, TypeOK, Time
<1>8. Smooth(l)
  BY <1>1, <1>2, <1>3, <1>6 DEF Smooth, Stamped
<1>9. Smooth(l)'
  BY <1>1, <1>8, SmoothStays DEF Smooth
<1>10. \A x \in Missions \ ready' : x # l.mission => Untouched(x)'
  BY <1>1, <1>2, <1>6, SameDisk
<1>11. l.at \notin Holding => lock'.is = "free"
  BY <1>1, <1>3, <1>6 DEF Lock, Stamp, Unlock, At, Holding, Free
<1>12. l.at # "idle" /\ worker \in [ Workers -> Locals ]
  BY <1>3, <1>6 DEF IInv, TypeOK
<1> QED
  BY <1>2, <1>5, <1>6, <1>7, <1>9, <1>10, <1>11, <1>12, SoloGoesOn

LEMMA WritesSmoothly ==
  ASSUME IInv, IInv', OneByOne, ~crossed', NEW w \in Workers, Write(w) PROVE OneByOne'
<1>1. /\ ~crossed /\ worker[w].at = "write" /\ UNCHANGED <<lock, evidence, facts, ready, now>>
      /\ registry' = Append(registry, Entry(w, "no"))
  BY DEF Write, Disk, At
<1>2. /\ Solo(w) /\ FileIsCalm /\ Smooth(worker[w]) /\ worker[w] \in Locals
      /\ worker[w].mission \in Missions /\ worker[w].op \in Operations
      /\ \A x \in Missions \ ready : x # worker[w].mission => Untouched(x)
  BY <1>1, AloneIsSolo
<1>3. PICK m, op, l :
        /\ m \in Missions /\ op \in Operations
        /\ m = worker[w].mission /\ op = worker[w].op
        /\ l = [ worker[w] EXCEPT !.at = "unlock", !.seen = 0 ]
  BY <1>2
<1>4. /\ (\A o \in After(op) : New(m, o)) /\ worker[w].seen = Len(registry)
      /\ (op # "register" => Registered) /\ m \notin ready /\ ~worker[w].fails
      /\ worker[w].stamp <= now
      /\ \A i \in DOMAIN registry : registry[i].at <= worker[w].stamp
  BY <1>1, <1>2, <1>3 DEF Smooth, Stamped
<1>5. worker' = [ worker EXCEPT ![w] = l ]
  BY <1>3 DEF Write, IInv, TypeOK
<1>6. /\ l \in Locals /\ l.at = "unlock" /\ l.op = op /\ l.mission = m
      /\ l.stamp = worker[w].stamp /\ l.fails = worker[w].fails
  BY <1>2, <1>3 DEF Locals, Places
<1>7. /\ Len(registry) \in Nat /\ DOMAIN registry = 1 .. Len(registry)
      /\ DOMAIN registry' = 1 .. Len(registry) + 1
      /\ \A i \in DOMAIN registry : registry'[i] = registry[i]
      /\ registry'[Len(registry) + 1] = Entry(w, "no")
  <2>1. registry \in Seq(Records \union { Entry(w, "no") })
    BY DEF IInv, TypeOK
  <2> QED
    BY <1>1, <2>1
<1>8. \A x, o : Has(x, o)' => Has(x, o) \/ (x = m /\ o = op)
  <2> SUFFICES ASSUME NEW x, NEW o, NEW i \in DOMAIN registry',
                      registry'[i].of = x, registry'[i].op = o
               PROVE  Has(x, o) \/ (x = m /\ o = op)
    BY DEF Has
  <2>1. CASE i \in DOMAIN registry
    <3>1. registry[i].of = x /\ registry[i].op = o
      BY <1>7, <2>1
    <3> QED
      BY <2>1, <3>1 DEF Has
  <2>2. CASE i = Len(registry) + 1
    BY <1>3, <1>7, <2>2 DEF Entry
  <2> QED
    BY <1>7, <2>1, <2>2
<1>9. \A x, o : Has(x, o) => Has(x, o)'
  BY <1>7 DEF Has
<1>10. \A x \in Missions, o \in Operations : (x # m \/ o # op) /\ New(x, o) => New(x, o)'
  BY <1>1, <1>8 DEF New
<1>11. FileIsCalm'
  <2>1. ~Stale(worker[w].stamp)
    <3> SUFFICES ASSUME registry # << >> PROVE ~(worker[w].stamp < registry[Len(registry)].at)
      BY DEF Stale
    <3>1. registry \in Seq(Records) /\ Len(registry) \in DOMAIN registry
      BY DEF IInv, TypeOK
    <3>2. registry[Len(registry)] \in Records
      BY <3>1
    <3>3. registry[Len(registry)].at \in 0 .. MaxTime /\ worker[w].stamp \in 0 .. MaxTime
      BY <1>2, <3>2 DEF Records, Locals, Time
    <3> QED
      BY <1>4, <3>1, <3>3
  <2>2. Readable' /\ ~Cut'
    BY <1>1, <1>2, <1>4, <2>1, AppendedIsReadable DEF FileIsCalm, IInv
  <2>3. \A i \in DOMAIN registry' : registry'[i].at <= now'
    BY <1>1, <1>2, <1>4, <1>7 DEF FileIsCalm, Entry
  <2> QED
    BY <2>2, <2>3 DEF FileIsCalm
<1>12. Smooth(l)'
  <2>1. \A o \in After(op) : New(m, o)'
    BY <1>3, <1>4, <1>10, AfterIsOther
  <2>2. op # "register" => Registered'
    BY <1>4, <1>9 DEF Registered
  <2> QED
    BY <1>1, <1>4, <1>6, <2>1, <2>2 DEF Smooth, Stamped
<1>13. \A x \in Missions \ ready' : x # l.mission => Untouched(x)'
  BY <1>1, <1>2, <1>3, <1>6, <1>10 DEF Untouched
<1>14. l.at # "idle" /\ l.at \in Holding /\ worker \in [ Workers -> Locals ]
  BY <1>6 DEF Holding, IInv, TypeOK
<1> QED
  BY <1>2, <1>5, <1>6, <1>11, <1>12, <1>13, <1>14, SoloGoesOn

\* The mission that is ready is nobody's any more.
LEMMA MovesSmoothly ==
  ASSUME IInv, IInv', OneByOne, ~crossed', NEW w \in Workers, Move(w) PROVE OneByOne'
<1>1. /\ ~crossed /\ worker[w].at = "move" /\ worker' = [ worker EXCEPT ![w] = Idle ]
      /\ UNCHANGED <<registry, lock, evidence, facts, now>>
      /\ ready' = ready \union { worker[w].mission }
  BY DEF Move, At, Throws
<1>2. /\ Solo(w) /\ FileIsCalm /\ lock.is = "free"
      /\ \A x \in Missions \ ready : x # worker[w].mission => Untouched(x)
  BY <1>1, AloneIsSolo DEF Holding
<1>3. \A x \in Workers : worker'[x].at = "idle"
  BY <1>1, <1>2 DEF Solo, At, Idle, IInv, TypeOK
<1>4. FileIsCalm'
  BY <1>1, <1>2, CalmStays DEF IInv, TypeOK, Time
<1>5. \A x \in Missions \ ready' : Untouched(x)'
  BY <1>1, <1>2, SameRegistry DEF Untouched, New
<1>6. Alike' /\ LockIsFree' /\ OthersAreUntouched'
  BY <1>1, <1>2, <1>3, <1>5 DEF Alike, LockIsFree, OthersAreUntouched, At
<1> QED
  BY <1>3, <1>4, <1>6 DEF OneByOne, At

\* Nobody who is alone waits for a lock, loses it, or dies.
LEMMA NeverAlone ==
  ASSUME IInv, OneByOne, ~crossed', NEW w \in Workers,
         \/ DoesNotFit(w) \/ FactRefused(w) \/ Inspect(w) \/ Steal(w) \/ Relock(w)
         \/ Die(w) \/ DieWriting(w)
  PROVE  FALSE
<1>1. CASE DoesNotFit(w) \/ FactRefused(w) \/ Die(w) \/ DieWriting(w)
  BY <1>1 DEF DoesNotFit, FactRefused, Die, DieWriting, Dies
<1>2. CASE Inspect(w) \/ Steal(w) \/ Relock(w)
  <2>1. ~crossed /\ worker[w].at \in { "inspect", "steal", "relock" }
    BY <1>2 DEF Inspect, Steal, Relock, Alone, Disk, At
  <2> QED
    BY <2>1, AloneIsSolo DEF Smooth
<1> QED
  BY <1>1, <1>2

LEMMA FirstIsCalm == Init => OneByOne
<1> SUFFICES ASSUME Init PROVE OneByOne
  OBVIOUS
<1>1. \A w \in Workers : worker[w].at = "idle"
  BY DEF Init, Idle
<1>2. /\ registry = << >> \/ registry = <<Registration>>
      /\ now = 0 /\ lock.is = "free"
  BY DEF Init, Free
<1>3. FileIsCalm
  <2>1. CASE registry = << >>
    BY <2>1 DEF FileIsCalm, Readable, Cut
  <2>2. CASE registry = <<Registration>>
    BY <1>2, <2>2 DEF FileIsCalm, Readable, Cut, Registration
  <2> QED
    BY <1>2, <2>1, <2>2
<1>4. \A m \in Missions : Untouched(m)
  <2> SUFFICES ASSUME NEW m \in Missions, NEW op \in Operations PROVE New(m, op)
    BY DEF Untouched
  <2>1. \A i \in DOMAIN registry : registry[i].of = Earlier
    BY <1>2 DEF Registration
  <2>2. ~Has(m, op)
    BY <2>1, ToolchainAssumption DEF Has
  <2> QED
    BY <2>2 DEF New, Init
<1> QED
  BY <1>1, <1>2, <1>3, <1>4 DEF OneByOne, Alike, LockIsFree, OthersAreUntouched, At

LEMMA OneByOneStays == IInv /\ IInv' /\ OneByOne /\ [Next]_vars => OneByOne'
<1> SUFFICES ASSUME IInv, IInv', OneByOne, [Next]_vars, ~crossed' PROVE OneByOne'
  BY DEF OneByOne
<1>1. ASSUME NEW w \in Workers, NEW m \in Missions, Begin(w, m) PROVE OneByOne'
  BY <1>1, BeginsSmoothly
<1>2. ASSUME NEW w \in Workers, Step(w) \/ Die(w) \/ DieWriting(w) PROVE OneByOne'
  BY <1>2, ListsSmoothly, ClocksSmoothly, LooksSmoothly, ObservesSmoothly, RecallsSmoothly,
     RecordsFactSmoothly, LocksSmoothly, ReadsSmoothly, WritesSmoothly, ConfirmsSmoothly,
     MovesSmoothly, NeverAlone DEF Step
<1>3. CASE UNCHANGED vars
  <2>1. UNCHANGED <<registry, evidence, facts, ready, lock, now, worker, crossed>>
    BY <1>3 DEF vars, disk
  <2>2. FileIsCalm /\ Alike /\ LockIsFree /\ OthersAreUntouched
        /\ \A w \in Workers : ~At(w, "idle") => Smooth(worker[w])
    BY <2>1 DEF OneByOne
  <2>3. FileIsCalm' /\ Alike' /\ LockIsFree'
    BY <2>1, <2>2 DEF FileIsCalm, Readable, Cut, Alike, LockIsFree, At
  <2>4. OthersAreUntouched'
    BY <2>1, <2>2, SameDisk DEF OthersAreUntouched, At
  <2>5. ASSUME NEW w \in Workers, ~At(w, "idle")' PROVE Smooth(worker[w])'
    <3>1. Smooth(worker[w])
      BY <2>1, <2>2, <2>5 DEF At
    <3>2. PICK l : l = worker[w]
      OBVIOUS
    <3>3. Smooth(l)'
      BY <2>1, <3>1, <3>2, SmoothStays DEF Smooth
    <3>4. worker'[w] = l
      BY <2>1, <3>2
    <3> QED
      BY <3>3, <3>4 DEF Smooth, Untouched, New, Has, Admits, Registered
  <2> QED
    BY <2>3, <2>4, <2>5 DEF OneByOne
<1> QED
  BY <1>1, <1>2, <1>3 DEF Next

\* A mission whose setup failed for good has met another worker or a fault
\* (setupStack(), production-mission-service.js:5700-5757): one after the other, any
\* number of missions is set up, each by one attempt that does not fail.
THEOREM AloneNobodyIsLeft == Spec => []OnlyTheCrossedAreLeft
<1>1. OneByOne => OnlyTheCrossedAreLeft
  <2> SUFFICES ASSUME OneByOne, ~crossed, NEW m \in Missions, Left(m) PROVE FALSE
    BY DEF OnlyTheCrossedAreLeft
  <2>1. Untouched(m)
    BY DEF OneByOne, OthersAreUntouched, Left
  <2>2. \A op \in { "register", "check" } : evidence[m][op] = 0
    BY <2>1 DEF Untouched, New, Operations, Observed
  <2> QED
    BY <2>2 DEF Left
<1> QED
  BY <1>1, FirstIsCalm, OneByOneStays, Invariance, PTL DEF Spec
===============================================================================
