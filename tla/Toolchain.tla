------------------------------- MODULE Toolchain -------------------------------
(***************************************************************************)
(* The stack every project is built with is chosen before its workspace is *)
(* provisioned: setupStack() of production-mission-service.js registers    *)
(* it, checks the machine's tools and selects it, each as an observation,  *)
(* a fact of the mission and a record of the registry, by                  *)
(* toolchain-stack-registry.js.  All missions share one registry file and  *)
(* one lock, taken and left call by call in registry-store.js, so the      *)
(* workers of different missions meet here and nowhere else.               *)
(*                                                                         *)
(* Identifiers are the mission and the operation; a record, a fact or an   *)
(* observation is told apart by its time.  The certification of the stack  *)
(* stays as registered, since nothing in the program changes it.           *)
(***************************************************************************)
EXTENDS Integers, Sequences

CONSTANTS
  Missions,
  Earlier,    \* a mission of long ago, which may have registered the stack
  Workers,    \* worker processes
  NoWorker,   \* a process that is dead, or nobody
  MaxTime,    \* bound: readings of the clock that differ
  MaxFaults   \* bound: deaths, refusals and tools that do not fit

ASSUME ToolchainAssumption ==
  /\ Earlier \notin Missions /\ NoWorker \notin Workers
  /\ MaxTime \in Nat \ {0} /\ MaxFaults \in Nat

VARIABLES
  registry,   \* the records of registry-events.jsonl
  lock,       \* its lock file: who made it, and whether his pid is in it
  evidence,   \* observations of a mission, by their time; 0: none
  facts,      \* facts in the Ledger of a mission, by their time; 0: none
  ready,      \* missions that are PROVISIONING
  worker,     \* where each worker is in setupStack, and its locals
  now,        \* the clock
  faults,     \* faults so far
  stolen,     \* history: a worker lost its lock to another
  crossed     \* history: two workers were at it at once, or one failed for a fault

disk == <<registry, lock, evidence, facts, ready>>
vars == <<disk, worker, now, faults, stolen, crossed>>

Operations == { "register", "check", "select" }
Observed   == { "register", "check" }
Time       == 0 .. MaxTime

\* A record says how many its writer had read, which is all its sequence number
\* and previous hash say; it may have been cut within, or before its newline.
Records == [ of : Missions \union {Earlier}, op : Operations, at : Time, after : Nat,
             cut : { "no", "newline", "within" } ]

Idle == [ at |-> "idle", mission |-> Earlier, op |-> "register", stamp |-> 0, seen |-> 0,
          known |-> FALSE, fails |-> FALSE ]

Places == { "idle", "list", "clock", "look", "observe", "recall", "fact", "lock", "inspect",
            "steal", "relock", "stamp", "read", "write", "unlock", "confirm", "move" }

Locals == [ at : Places, mission : Missions \union {Earlier}, op : Operations, stamp : Time,
            seen : Nat, known : BOOLEAN, fails : BOOLEAN ]

Free  == [ by |-> NoWorker, is |-> "free" ]
Locks == [ by : Workers \union {NoWorker}, is : { "free", "empty", "stamped" } ]

TypeOK ==
  /\ registry \in Seq(Records) /\ lock \in Locks
  /\ evidence \in [ Missions -> [ Observed -> Time ] ]
  /\ facts \in [ Missions -> [ Operations -> Time ] ]
  /\ ready \subseteq Missions
  /\ worker \in [ Workers -> Locals ]
  /\ \A w \in Workers : worker[w].at # "idle" => worker[w].mission \in Missions
  /\ now \in Time /\ faults \in 0 .. MaxFaults
  /\ stolen \in BOOLEAN /\ crossed \in BOOLEAN

Registration ==
  [ of |-> Earlier, op |-> "register", at |-> 0, after |-> 0, cut |-> "no" ]

Init ==
  /\ registry \in { << >>, <<Registration>> } /\ lock = Free
  /\ evidence = [ m \in Missions |-> [ o \in Observed |-> 0 ] ]
  /\ facts = [ m \in Missions |-> [ o \in Operations |-> 0 ] ]
  /\ ready = {}
  /\ worker = [ w \in Workers |-> Idle ]
  /\ now = 0 /\ faults = 0 /\ stolen = FALSE /\ crossed = FALSE

-------------------------------------------------------------------------------
(* The registry as it is replayed.                                         *)

\* readRecords throws for any other file.
Readable ==
  \A i \in DOMAIN registry :
    /\ registry[i].cut # "within"
    /\ i < Len(registry) => registry[i].cut = "no"
    /\ registry[i].after = i - 1
    /\ i > 1 => registry[i - 1].at <= registry[i].at

Has(m, op) == \E i \in DOMAIN registry : registry[i].of = m /\ registry[i].op = op
Registered == \E m \in Missions \union {Earlier} : Has(m, "register")

\* projectRegistry, with one record more.
Admits(m, op) ==
  CASE op = "register" -> ~Registered
    [] op = "check"    -> ~Has(m, "check")
    [] op = "select"   -> ~Has(m, "select") /\ Registered /\ Has(m, "check")

\* Mutants: time does not matter; a record of the same millisecond is out of order.
NeverStale(stamp) == FALSE
StaleAtOnce(stamp) == registry # << >> /\ stamp <= registry[Len(registry)].at

Stale(stamp) == registry # << >> /\ stamp < registry[Len(registry)].at

-------------------------------------------------------------------------------
(* setupStack, one process at a time.                                      *)

At(w, place) == worker[w].at = place
Goes(w, place) == worker' = [ worker EXCEPT ![w].at = place ]
\* The mission stays CONTRACTED and the worker exits.
Throws(w) == worker' = [ worker EXCEPT ![w] = Idle ]

Busy == { w \in Workers : worker[w].at # "idle" }

\* A worker of a contracted mission.
Begin(w, m) ==
  /\ At(w, "idle") /\ m \notin ready /\ now < MaxTime
  /\ now' = now + 1
  /\ worker' = [ worker EXCEPT ![w] = [ Idle EXCEPT !.at = "list", !.mission = m ] ]
  /\ crossed' = (crossed \/ Busy # {})
  /\ UNCHANGED <<disk, faults, stolen>>

\* What a worker does to nothing but itself.
Alone == UNCHANGED <<disk, now, faults, stolen, crossed>>

\* Whether the stack is registered; otherwise this mission registers it.
List(w) ==
  /\ At(w, "list")
  /\ IF Readable
     THEN worker' = [ worker EXCEPT ![w].at = "clock",
                                    ![w].op = IF Registered THEN "check" ELSE "register" ]
     ELSE Throws(w)
  /\ Alone

\* occurredAt = clock(), and then the tools are probed, if it is they.
Clock(w) ==
  /\ At(w, "clock")
  /\ \E t \in { now, now + 1 } \intersect Time :
       /\ now' = t
       /\ worker' = [ worker EXCEPT ![w].stamp = t, ![w].known = FALSE,
                        ![w].at = IF worker[w].op = "check" THEN "observe" ELSE "look" ]
  /\ UNCHANGED <<disk, faults, stolen, crossed>>

\* registerStack and selectStack look at what is there before they do anything.
Look(w) ==
  LET m == worker[w].mission IN
  /\ At(w, "look")
  /\ IF Readable /\ Admits(m, worker[w].op)
     THEN Goes(w, IF worker[w].op = "register" THEN "observe" ELSE "recall")
     ELSE IF Readable /\ worker[w].op = "register" /\ Has(m, "register")
     THEN worker' = [ worker EXCEPT ![w].at = "clock", ![w].op = "check" ]
     ELSE Throws(w)
  /\ Alone

\* evaluateStackEligibility: a tool is missing, or its version is out of range.
DoesNotFit(w) ==
  /\ At(w, "look") /\ worker[w].op = "select" /\ faults < MaxFaults
  /\ Throws(w)
  /\ faults' = faults + 1 /\ crossed' = TRUE
  /\ UNCHANGED <<disk, now, stolen>>

\* captureOrReuseEvidence: what is there must be the same, its time included.
Observe(w) ==
  LET m == worker[w].mission  op == worker[w].op IN
  /\ At(w, "observe")
  /\ IF evidence[m][op] \in { 0, worker[w].stamp }
     THEN /\ evidence' = [ evidence EXCEPT ![m][op] = worker[w].stamp ]
          /\ Goes(w, "recall")
     ELSE Throws(w) /\ UNCHANGED evidence
  /\ UNCHANGED <<registry, lock, facts, ready, now, faults, stolen, crossed>>

\* The record that is about to be appended is there already.
Recorded(w) ==
  \E i \in DOMAIN registry :
    /\ registry[i].of = worker[w].mission /\ registry[i].op = worker[w].op
    /\ registry[i].at = worker[w].stamp

\* appendOperation: what is recorded of this operation must be just that.
Recall(w) ==
  /\ At(w, "recall")
  /\ IF Readable /\ (Has(worker[w].mission, worker[w].op) => Recorded(w))
     THEN worker' = [ worker EXCEPT ![w].at = "fact", ![w].known = Recorded(w) ]
     ELSE Throws(w)
  /\ Alone

\* Mutant: the fact is left for later.
FactIsLate(w) == At(w, "fact") /\ Goes(w, "lock") /\ Alone

\* recordFactOrReuse.
Fact(w) ==
  LET m == worker[w].mission  op == worker[w].op IN
  /\ At(w, "fact")
  /\ IF facts[m][op] \in { 0, worker[w].stamp }
     THEN /\ facts' = [ facts EXCEPT ![m][op] = worker[w].stamp ]
          /\ worker' = [ worker EXCEPT ![w].at = IF worker[w].known THEN "confirm" ELSE "lock",
                                       ![w].known = FALSE ]
     ELSE Throws(w) /\ UNCHANGED facts
  /\ UNCHANGED <<registry, lock, evidence, ready, now, faults, stolen, crossed>>

\* The Ledger is locked by the server.
FactRefused(w) ==
  /\ At(w, "fact") /\ faults < MaxFaults
  /\ Throws(w)
  /\ faults' = faults + 1 /\ crossed' = TRUE
  /\ UNCHANGED <<disk, now, stolen>>

-------------------------------------------------------------------------------
(* appendEvent, call by call.                                              *)

Disk(w) == UNCHANGED <<evidence, facts, ready, now, faults, crossed>>

Take(w) == lock' = [ by |-> w, is |-> "empty" ]

\* openSync(lockPath, "wx").
Lock(w) ==
  /\ At(w, "lock")
  /\ IF lock.is = "free"
     THEN Take(w) /\ Goes(w, "stamp")
     ELSE UNCHANGED lock /\ Goes(w, "inspect")
  /\ UNCHANGED <<registry, stolen>> /\ Disk(w)

\* An empty lock, or none any more, has no pid, and no pid is not alive.
Inspect(w) ==
  /\ At(w, "inspect")
  /\ IF lock.is = "stamped" /\ lock.by # NoWorker THEN Throws(w) ELSE Goes(w, "steal")
  /\ Alone

Steal(w) ==
  /\ At(w, "steal")
  /\ IF lock.is = "free"
     THEN Throws(w) /\ UNCHANGED <<lock, stolen>>
     ELSE /\ lock' = Free /\ Goes(w, "relock")
          /\ stolen' = (stolen \/ lock.by # NoWorker)
  /\ UNCHANGED registry /\ Disk(w)

\* The second attempt.
Relock(w) ==
  /\ At(w, "relock")
  /\ IF lock.is = "free"
     THEN Take(w) /\ Goes(w, "stamp")
     ELSE UNCHANGED lock /\ Throws(w)
  /\ UNCHANGED <<registry, stolen>> /\ Disk(w)

\* The pid is written to the file that was opened, wherever it is by now.
Stamp(w) ==
  /\ At(w, "stamp")
  /\ lock' = IF lock.by = w THEN [ lock EXCEPT !.is = "stamped" ] ELSE lock
  /\ Goes(w, "read")
  /\ UNCHANGED <<registry, stolen>> /\ Disk(w)

\* The records are read again and the new one is admitted, or nothing is written.
Read(w) ==
  LET sound == Readable /\ ~Stale(worker[w].stamp) IN
  /\ At(w, "read")
  /\ IF sound /\ Admits(worker[w].mission, worker[w].op)
     THEN worker' = [ worker EXCEPT ![w].at = "write", ![w].seen = Len(registry) ]
     ELSE worker' = [ worker EXCEPT ![w].at = "unlock", ![w].fails = ~(sound /\ Recorded(w)) ]
  /\ Alone

Entry(w, cut) ==
  [ of |-> worker[w].mission, op |-> worker[w].op, at |-> worker[w].stamp,
    after |-> worker[w].seen, cut |-> cut ]

Write(w) ==
  /\ At(w, "write")
  /\ registry' = Append(registry, Entry(w, "no"))
  /\ worker' = [ worker EXCEPT ![w].at = "unlock", ![w].seen = 0 ]
  /\ UNCHANGED <<lock, stolen>> /\ Disk(w)

\* Mutant: what went wrong under the lock is forgotten.
UnlockWhatever(w) ==
  /\ At(w, "unlock")
  /\ lock' = Free
  /\ Goes(w, "confirm")
  /\ UNCHANGED <<registry, stolen>> /\ Disk(w)

\* The finally clause removes whatever lock there is.
Unlock(w) ==
  /\ At(w, "unlock")
  /\ lock' = Free
  /\ IF worker[w].fails THEN Throws(w) ELSE Goes(w, "confirm")
  /\ UNCHANGED <<registry, stolen>> /\ Disk(w)

\* What was recorded is read back, and the next operation begins.
Confirm(w) ==
  /\ At(w, "confirm")
  /\ IF ~Readable THEN Throws(w)
     ELSE CASE worker[w].op = "register" ->
                 worker' = [ worker EXCEPT ![w].at = "clock", ![w].op = "check" ]
            [] worker[w].op = "check" ->
                 worker' = [ worker EXCEPT ![w].at = "clock", ![w].op = "select" ]
            [] OTHER -> Goes(w, "move")
  /\ Alone

\* CONTRACTED -> PROVISIONING, once.
Move(w) ==
  /\ At(w, "move")
  /\ ready' = ready \union {worker[w].mission}
  /\ Throws(w)
  /\ UNCHANGED <<registry, lock, evidence, facts, now, faults, stolen, crossed>>

-------------------------------------------------------------------------------
(* Deaths.                                                                 *)

Dies(w) ==
  /\ faults < MaxFaults /\ faults' = faults + 1
  /\ worker' = [ worker EXCEPT ![w] = Idle ]
  /\ lock' = IF lock.by = w THEN [ lock EXCEPT !.by = NoWorker ] ELSE lock
  /\ crossed' = TRUE
  /\ UNCHANGED <<evidence, facts, ready, now, stolen>>

Die(w) == worker[w].at # "idle" /\ Dies(w) /\ UNCHANGED registry

\* A record is cut short.
DieWriting(w) ==
  /\ At(w, "write") /\ Dies(w)
  /\ \E cut \in { "newline", "within" } : registry' = Append(registry, Entry(w, cut))

-------------------------------------------------------------------------------
Step(w) ==
  \/ List(w) \/ Clock(w) \/ Look(w) \/ DoesNotFit(w) \/ Observe(w) \/ Recall(w)
  \/ Fact(w) \/ FactRefused(w)
  \/ Lock(w) \/ Inspect(w) \/ Steal(w) \/ Relock(w) \/ Stamp(w) \/ Read(w) \/ Write(w)
  \/ Unlock(w) \/ Confirm(w) \/ Move(w)

Next ==
  \E w \in Workers :
    \/ \E m \in Missions : Begin(w, m)
    \/ Step(w) \/ Die(w) \/ DieWriting(w)

Spec == Init /\ [][Next]_vars

-------------------------------------------------------------------------------
(* Properties.                                                             *)

Cut == \E i \in DOMAIN registry : registry[i].cut # "no"

\* The registry every mission depends on can be read, unless a record was cut short or
\* a worker lost the lock it held: whatever clocks say, whoever registers the stack first.
OnlyTheftDamages == Readable \/ Cut \/ stolen

\* toolchain-stack-registry.js:463-545: what the registry says of a mission is a fact in
\* the Ledger of that mission and was observed, at the same time, whichever of its
\* workers came first and wherever the others died.
RecordsAreFacts ==
  \A i \in DOMAIN registry :
    LET r == registry[i] IN
    r.of # Earlier =>
      /\ facts[r.of][r.op] = r.at
      /\ r.op # "select" => evidence[r.of][r.op] = r.at

\* A mission is provisioned on a stack that was selected for it, on the strength of a
\* check of the machine that was its own and came before.
ReadyIsSelected ==
  \A m \in ready :
    \E i, j \in DOMAIN registry :
      /\ registry[i].of = m /\ registry[i].op = "check"
      /\ registry[j].of = m /\ registry[j].op = "select" /\ i < j

\* The observation left by an attempt that did not come to its end: it has a time no
\* later attempt can have.
Left(m) ==
  /\ m \notin ready /\ \A w \in Workers : At(w, "idle") \/ worker[w].mission # m
  /\ \/ evidence[m]["check"] # 0
     \/ evidence[m]["register"] # 0 /\ ~Registered

\* A mission whose setup fails for good met another worker or a fault: one after the
\* other, any number of missions is set up.
OnlyTheCrossedAreLeft == (\E m \in Missions : Left(m)) => crossed

\* What the code says and does not keep.

\* test/milestone-6.test.js:731, "an interrupted pre-Ledger registration observation is
\* reused safely on restart": no attempt fails on what an interrupted one observed.
InterruptedObservationIsReused ==
  \A w \in Workers :
    LET m == worker[w].mission  op == worker[w].op IN
    At(w, "observe") =>
      \/ evidence[m][op] \in { 0, worker[w].stamp }
      \/ \E x \in Workers \ {w} : worker[x].mission = m

\* Missions do not damage what they share.
RegistryStaysReadable == Readable

\* A mission is not left behind for another's sake.
NobodyIsLeft == \A m \in Missions : ~Left(m)

===============================================================================
