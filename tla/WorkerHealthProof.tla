--------------------------- MODULE WorkerHealthProof ---------------------------
(***************************************************************************)
(* Theorems about WorkerHealth, for every cap on restarts and every        *)
(* combination of faults.                                                  *)
(***************************************************************************)
EXTENDS WorkerHealth, FiniteSetTheorems, TLAPS

\* The entry's restart_count counts the processes started, and the monitor is
\* about to replace one only below the cap.
Counted ==
  /\ cur = starts
  /\ status = "none" => starts = 0 /\ mon = "idle"
  /\ status # "none" => starts = restarts + 1 /\ restarts <= MaxRestarts
  /\ mon \in {"await", "start"} => restarts < MaxRestarts
  /\ \A p \in Procs : st[p] = "none" <=> p > starts

\* Exit code 0, the teardown of a run that was not interrupted and the
\* completion key are evidence of a finished graph.
Evidence ==
  /\ \A p \in Procs : st[p] \in {"setkey", "delhb", "exit"} => finished[p]
  /\ \A p \in Procs : rc[p] = "zero" => finished[p]
  /\ completed => \E p \in Procs : finished[p]
  /\ DoneIsReal

\* When restart() waits, a replaced process is dead before its successor starts.
Buried ==
  WaitsForExit =>
    /\ \A p \in Procs : p # cur => ~Live(p)
    /\ mon = "start" => st[cur] = "dead"

\* When, besides, a replacement beats before its predecessor's key expires: the
\* current worker, while nothing has happened to it, is never on the way to be
\* replaced.  It misses a heartbeat, or is dead, only after it has set the
\* completion key, and what the monitor read and has not acted upon agrees.
Unharmed ==
  /\ \A p \in Procs : p > starts => ~termed[p] /\ beats[p]
  /\ cur # 0 /\ ~harmed[cur] =>
       /\ ~termed[cur] /\ beats[cur] /\ st[cur] \notin {"unwind", "linger"}
       /\ st[cur] \in {"delhb", "exit", "dead"} => completed
       /\ mon \notin {"await", "start"}
       /\ mon = "exists" => completed
       /\ mon = "look" /\ ~sawTtl /\ status = "running" => completed
       /\ status = "running" \/ (mon = "look" /\ sawTtl) => hb # 0 \/ completed

HealthInv == TypeOK /\ Counted /\ Evidence /\ Buried

-----------------------------------------------------------------------------
\* The initial state.
LEMMA HealthInit ==
  ASSUME Init
  PROVE  HealthInv
<1> USE HealthAssumption DEF Init, Procs
<1>1. /\ overdue \in BOOLEAN /\ sawTtl \in BOOLEAN /\ late \in BOOLEAN
      /\ completed \in BOOLEAN
  BY Zenon
<1>2. /\ termed \in [Procs -> BOOLEAN] /\ beats \in [Procs -> BOOLEAN]
      /\ finished \in [Procs -> BOOLEAN] /\ harmed \in [Procs -> BOOLEAN]
  BY Zenon
<1>3. TypeOK
  BY <1>1, <1>2 DEF TypeOK, ProcStates, MonitorPcs, Active
<1>4. Counted /\ Buried
  BY DEF Counted, Buried, Live
<1>5. Evidence
  BY DEF Evidence, DoneIsReal
<1>6. QED
  BY <1>3, <1>4, <1>5 DEF HealthInv

\* Types: a process is started only below the cap, hence within Procs.
LEMMA TypeStep ==
  ASSUME TypeOK, Counted, [Next]_vars
  PROVE  TypeOK'
<1> USE HealthAssumption DEF Procs, TypeOK, Counted, Active, ProcStates, MonitorPcs
<1>1. CASE Spawn
  <2>1. overdue' \in BOOLEAN
    BY <1>1, Zenon DEF Spawn, Register
  <2>2. QED
    BY <1>1, <2>1 DEF Spawn, Register, Live, entry, monitor, procs
<1>2. CASE StartReplacement
  <2>1. overdue' \in BOOLEAN
    BY <1>2, Zenon DEF StartReplacement, Register
  <2>2. QED
    BY <1>2, <2>1 DEF StartReplacement, Register, Live, entry, monitor, procs
<1>3. CASE Tick \/ ReadTtl \/ MonitorCrashes \/ AwaitExit
  <2>1. late' \in BOOLEAN
    BY <1>3, Zenon DEF Tick, ReadTtl, MonitorCrashes, AwaitExit
  <2>2. sawTtl' \in BOOLEAN
    BY <1>3, Zenon DEF Tick, ReadTtl, MonitorCrashes, AwaitExit
  <2>3. mon' \in MonitorPcs /\ UNCHANGED <<entry, procs>>
    BY <1>3 DEF Tick, ReadTtl, MonitorCrashes, AwaitExit
  <2>4. QED
    BY <2>1, <2>2, <2>3 DEF entry, procs
<1>4. CASE Sweep \/ LookHealthy \/ LookSilent \/ FoundCompleted \/ GiveUp \/
           RestartFails
  BY <1>4 DEF Sweep, LookHealthy, LookSilent, FoundCompleted, GiveUp, RestartFails,
     Returncodes, Live, entry, monitor, procs
<1>5. CASE LookExited
  BY <1>5 DEF LookExited, Returncodes, Live, entry, monitor, procs
<1>6. CASE Terminate
  BY <1>6 DEF Terminate, Live, entry, monitor, procs
<1>7. CASE AwaitTimeout
  BY <1>7 DEF AwaitTimeout, Live, entry, monitor, procs
<1>8. CASE Expire
  BY <1>8 DEF Expire, Live, entry, monitor, procs
<1>9. CASE GraceEnds
  BY <1>9 DEF GraceEnds, monitor, procs
<1>9a. CASE Settled \/ UNCHANGED vars
  BY <1>9a DEF Settled, vars, entry, monitor, procs
<1>10. ASSUME NEW p \in Procs, Boot(p) \/ Beat(p)
      PROVE  TypeOK'
  BY <1>10 DEF Boot, Beat, Goto, entry, monitor, procs
<1>10a. ASSUME NEW p \in Procs, BeatFails(p)
      PROVE  TypeOK'
  BY <1>10a DEF BeatFails, entry, monitor, procs
<1>11. ASSUME NEW p \in Procs, FinishGraph(p)
      PROVE  TypeOK'
  BY <1>11, SMTT(30) DEF FinishGraph, Goto, Exits, Live, entry, monitor, procs
<1>12. ASSUME NEW p \in Procs, SetKey(p)
      PROVE  TypeOK'
  <2>1. completed' \in BOOLEAN
    BY <1>12, Zenon DEF SetKey
  <2>2. harmed' \in [Procs -> BOOLEAN]
    BY <1>12 DEF SetKey
  <2>3. st' \in [Procs -> ProcStates]
    BY <1>12 DEF SetKey, Goto
  <2>4. QED
    BY <1>12, <2>1, <2>2, <2>3 DEF SetKey, entry, monitor
<1>13. ASSUME NEW p \in Procs, DelHb(p)
      PROVE  TypeOK'
  BY <1>13 DEF DelHb, Goto, entry, monitor, procs
<1>13a. ASSUME NEW p \in Procs, Exit(p) \/ LingerEnds(p)
      PROVE  TypeOK'
  BY <1>13a, SMTT(30) DEF Exit, LingerEnds, Goto, Exits, entry, monitor, procs
<1>13b. ASSUME NEW p \in Procs, Unwind(p)
      PROVE  TypeOK'
  BY <1>13b DEF Unwind, Goto, entry, monitor, procs
<1>14. ASSUME NEW p \in Procs, HandleTerm(p)
      PROVE  TypeOK'
  BY <1>14 DEF HandleTerm, Goto, Exits, Live, entry, monitor, procs
<1>15. ASSUME NEW p \in Procs, TermInTeardown(p)
      PROVE  TypeOK'
  <2>1. completed' \in BOOLEAN
    BY <1>15, Zenon DEF TermInTeardown
  <2>2. QED
    BY <1>15, <2>1, ZenonT(40) DEF TermInTeardown, Goto, Exits, Live, entry, monitor, procs
<1>16. ASSUME NEW p \in Procs, Kill(p)
      PROVE  TypeOK'
  BY <1>16 DEF Kill, Goto, Exits, Live, entry, monitor, procs
<1>16a. ASSUME NEW p \in Procs, Signal(p)
      PROVE  TypeOK'
  BY <1>16a DEF Signal, Live, entry, monitor, procs
<1> QED
  BY <1>1, <1>2, <1>3, <1>4, <1>5, <1>6, <1>7, <1>8, <1>9, <1>9a, <1>10, <1>10a, <1>11,
     <1>12, <1>13, <1>13a, <1>13b, <1>14, <1>15, <1>16, <1>16a
     DEF Next, Monitor, Worker, Time

\* Only spawn() and restart() touch the count; restart() is reached below the cap.
LEMMA CountedStep ==
  ASSUME TypeOK, Counted, [Next]_vars
  PROVE  Counted'
<1> USE HealthAssumption DEF Procs, TypeOK, Counted, Active, ProcStates, MonitorPcs
<1>1. CASE Spawn
  BY <1>1 DEF Spawn, Register, Live, entry, monitor, procs
<1>2. CASE StartReplacement
  BY <1>2 DEF StartReplacement, Register, Live, entry, monitor, procs
<1>3. CASE Terminate
  BY <1>3 DEF Terminate, Live, entry, monitor, procs
<1>4. CASE AwaitExit
  BY <1>4 DEF AwaitExit, Live, entry, monitor, procs
<1>5. CASE AwaitTimeout
  BY <1>5 DEF AwaitTimeout, Live, entry, monitor, procs
\* No other monitor step leads towards a replacement.
<1>6. CASE Tick \/ Sweep \/ ReadTtl \/ MonitorCrashes \/ LookExited \/ LookHealthy \/
           LookSilent \/ FoundCompleted \/ GiveUp \/ RestartFails
  BY <1>6 DEF Tick, Sweep, ReadTtl, MonitorCrashes, LookExited, LookHealthy, LookSilent,
     FoundCompleted, GiveUp, RestartFails, Returncodes, Live, entry, monitor, procs
<1>7. CASE Expire \/ GraceEnds \/ Settled \/ UNCHANGED vars
  BY <1>7 DEF Expire, GraceEnds, Settled, vars, Live, entry, monitor, procs
\* A process that has been started stays started.
<1>8. ASSUME NEW p \in Procs, Boot(p) \/ Beat(p) \/ BeatFails(p) \/ FinishGraph(p) \/
             SetKey(p) \/ DelHb(p) \/ Exit(p)
      PROVE  Counted'
  BY <1>8 DEF Boot, Beat, BeatFails, FinishGraph, SetKey, DelHb, Exit, Goto, Exits,
     Live, entry, monitor, procs
<1>9. ASSUME NEW p \in Procs, HandleTerm(p) \/ TermInTeardown(p) \/ Unwind(p) \/
             LingerEnds(p) \/ Kill(p) \/ Signal(p)
      PROVE  Counted'
  BY <1>9, ZenonT(40) DEF HandleTerm, TermInTeardown, Unwind, LingerEnds, Kill, Signal, Goto, Exits,
     Live, entry, monitor, procs
<1> QED
  BY <1>1, <1>2, <1>3, <1>4, <1>5, <1>6, <1>7, <1>8, <1>9 DEF Next, Monitor, Worker,
     Time

\* Nothing but FinishGraph leads to the teardown, to exit code 0 or to the key.
LEMMA EvidenceStep ==
  ASSUME TypeOK, Counted, Evidence, [Next]_vars
  PROVE  Evidence'
<1> USE HealthAssumption DEF Procs, TypeOK, Counted, Evidence, DoneIsReal
<1>1. CASE Spawn
  BY <1>1 DEF Spawn, Register, Live, entry, monitor, procs
<1>2. CASE StartReplacement
  BY <1>2 DEF StartReplacement, Register, Live, entry, monitor, procs
\* The two steps that record done.
<1>3. CASE LookExited
  BY <1>3 DEF LookExited, Returncodes, Live, entry, monitor, procs
<1>4. CASE FoundCompleted
  BY <1>4 DEF FoundCompleted, Live, entry, monitor, procs
<1>5. CASE Tick \/ Sweep \/ ReadTtl \/ MonitorCrashes \/ LookHealthy \/ LookSilent \/
           GiveUp \/ Terminate \/ AwaitExit \/ RestartFails
  BY <1>5 DEF Tick, Sweep, ReadTtl, MonitorCrashes, LookHealthy, LookSilent, GiveUp,
     Terminate, AwaitExit, RestartFails, Returncodes, Live, entry, monitor, procs
<1>6. CASE AwaitTimeout
  BY <1>6 DEF AwaitTimeout, Live, entry, monitor, procs
<1>7. CASE Expire \/ GraceEnds \/ Settled \/ UNCHANGED vars
  BY <1>7 DEF Expire, GraceEnds, Settled, vars, Live, entry, monitor, procs
<1>8. ASSUME NEW p \in Procs, FinishGraph(p)
      PROVE  Evidence'
  BY <1>8 DEF FinishGraph, Goto, Exits, Live, entry, monitor, procs
<1>9. ASSUME NEW p \in Procs, SetKey(p)
      PROVE  Evidence'
  BY <1>9 DEF SetKey, Goto, Live, entry, monitor, procs
<1>10. ASSUME NEW p \in Procs, DelHb(p)
      PROVE  Evidence'
  BY <1>10 DEF DelHb, Goto, Live, entry, monitor, procs
<1>11. ASSUME NEW p \in Procs, Exit(p)
      PROVE  Evidence'
  BY <1>11 DEF Exit, Goto, Exits, Live, entry, monitor, procs
<1>12. ASSUME NEW p \in Procs, TermInTeardown(p)
      PROVE  Evidence'
  BY <1>12 DEF TermInTeardown, Goto, Exits, Live, entry, monitor, procs
\* The other worker steps are not in the teardown.
<1>13. ASSUME NEW p \in Procs, Boot(p) \/ Beat(p) \/ BeatFails(p) \/ HandleTerm(p) \/
             Unwind(p) \/ LingerEnds(p)
      PROVE  Evidence'
  BY <1>13, SMTT(30) DEF Boot, Beat, BeatFails, HandleTerm, Unwind, LingerEnds, Goto, Exits, Live,
     entry, monitor, procs
<1>14. ASSUME NEW p \in Procs, Kill(p) \/ Signal(p)
      PROVE  Evidence'
  BY <1>14 DEF Kill, Signal, Goto, Exits, Live, entry, monitor, procs
<1> QED
  BY <1>1, <1>2, <1>3, <1>4, <1>5, <1>6, <1>7, <1>8, <1>9, <1>10, <1>11, <1>12, <1>13,
     <1>14 DEF Next, Monitor, Worker, Time

\* The monitor waits or kills before it starts a replacement.
LEMMA BuriedStep ==
  ASSUME TypeOK, Counted, Buried, [Next]_vars
  PROVE  Buried'
<1> USE HealthAssumption DEF Procs, TypeOK, Counted, Buried, Live
<1>1. CASE Spawn
  BY <1>1 DEF Spawn, Register, entry, monitor, procs
<1>2. CASE StartReplacement
  BY <1>2 DEF StartReplacement, Register, entry, monitor, procs
<1>3. CASE Terminate
  BY <1>3 DEF Terminate, entry, monitor, procs
<1>4. CASE AwaitExit
  BY <1>4 DEF AwaitExit, entry, monitor, procs
<1>5. CASE AwaitTimeout
  BY <1>5 DEF AwaitTimeout, entry, monitor, procs
<1>6. CASE Tick \/ Sweep \/ ReadTtl \/ MonitorCrashes \/ LookExited \/ LookHealthy \/
           LookSilent \/ FoundCompleted \/ GiveUp \/ RestartFails
  BY <1>6 DEF Tick, Sweep, ReadTtl, MonitorCrashes, LookExited, LookHealthy, LookSilent,
     FoundCompleted, GiveUp, RestartFails, Returncodes, entry, monitor, procs
<1>7. CASE Expire \/ GraceEnds \/ Settled \/ UNCHANGED vars
  BY <1>7 DEF Expire, GraceEnds, Settled, vars, entry, monitor, procs
\* A dead process takes no step.
<1>8. ASSUME NEW p \in Procs, Boot(p) \/ Beat(p) \/ BeatFails(p) \/ FinishGraph(p) \/
             SetKey(p) \/ DelHb(p) \/ Exit(p)
      PROVE  Buried'
  BY <1>8 DEF Boot, Beat, BeatFails, FinishGraph, SetKey, DelHb, Exit, Goto, Exits,
     entry, monitor, procs
<1>9. ASSUME NEW p \in Procs, HandleTerm(p) \/ TermInTeardown(p) \/ Unwind(p) \/
             LingerEnds(p) \/ Kill(p) \/ Signal(p)
      PROVE  Buried'
  BY <1>9 DEF HandleTerm, TermInTeardown, Unwind, LingerEnds, Kill, Signal, Goto, Exits,
     entry, monitor, procs
<1> QED
  BY <1>1, <1>2, <1>3, <1>4, <1>5, <1>6, <1>7, <1>8, <1>9 DEF Next, Monitor, Worker,
     Time

-----------------------------------------------------------------------------
\* The whole invariant of supervision.
THEOREM HealthInvariant == Spec => []HealthInv
<1>1. Init => HealthInv
  BY HealthInit
<1>2. HealthInv /\ [Next]_vars => HealthInv'
  BY TypeStep, CountedStep, EvidenceStep, BuriedStep DEF HealthInv
<1>3. QED
  BY <1>1, <1>2, PTL DEF Spec

\* Type correctness.
THEOREM HealthTypes == Spec => []TypeOK
<1>1. HealthInv => TypeOK
  BY DEF HealthInv
<1>2. QED
  BY <1>1, HealthInvariant, PTL

\* The cap of _restart() holds over all triggers and faults.
THEOREM RestartsCappedHolds == Spec => []RestartsCapped
<1>1. HealthInv => RestartsCapped
  BY HealthAssumption DEF HealthInv, TypeOK, Counted, RestartsCapped
<1>2. QED
  BY <1>1, HealthInvariant, PTL

\* No interrupted, killed or hung run is ever recorded as done.
THEOREM DoneIsRealHolds == Spec => []DoneIsReal
<1>1. HealthInv => DoneIsReal
  BY DEF HealthInv, Evidence
<1>2. QED
  BY <1>1, HealthInvariant, PTL

\* With the spawner that waits for the old process there is one worker at a time.
THEOREM OneWorkerHolds == WaitsForExit /\ Spec => []OneWorker
<1> SUFFICES ASSUME WaitsForExit PROVE Spec => []OneWorker
  OBVIOUS
<1>1. ASSUME HealthInv PROVE OneWorker
  <2> DEFINE Running == {p \in Procs : Executes(p)}
  <2>1. Running \subseteq {cur}
    BY <1>1 DEF HealthInv, Buried, Live, Executes
  <2>2. IsFiniteSet({cur}) /\ Cardinality({cur}) = 1
    BY FS_Singleton
  <2>3. Cardinality(Running) <= 1
    BY <2>1, <2>2, FS_Subset
  <2>4. QED
    BY <2>3 DEF OneWorker
<1>2. HealthInv => OneWorker
  BY <1>1
<1>3. QED
  BY <1>2, HealthInvariant, PTL

-----------------------------------------------------------------------------
(* Only a harmed worker is replaced.                                       *)

\* Every step keeps the worker to which nothing has happened safe.
LEMMA UnharmedStep ==
  ASSUME WaitsForExit, QuickBoot, HealthInv, Unharmed, [Next]_vars
  PROVE  Unharmed'
<1>0a. /\ TypeOK /\ cur = starts
       /\ \A p \in Procs : st[p] = "none" <=> p > starts
  BY DEF HealthInv, Counted
<1>0b. \A p \in Procs : p # cur => ~Live(p)
  BY DEF HealthInv, Buried
<1>0c. cur \in Procs \cup {0} /\ Procs \subseteq Nat \ {0}
  BY <1>0a, HealthAssumption DEF TypeOK, Procs
<1>0. /\ TypeOK /\ cur = starts /\ cur \in Procs \cup {0} /\ Procs \subseteq Nat \ {0}
      /\ \A p \in Procs : st[p] = "none" <=> p > starts
      /\ \A p \in Procs : p # cur => ~Live(p)
  BY <1>0a, <1>0b, <1>0c
<1> USE HealthAssumption DEF Unharmed
<1>1. CASE Spawn \/ StartReplacement
  <2>1. /\ cur' = starts + 1 /\ starts' = starts + 1 /\ cur' \in Procs /\ mon' = "idle"
        /\ status' = "warmup" /\ st' = [st EXCEPT ![starts + 1] = "boot"]
        /\ UNCHANGED <<termed, beats, hb, completed, harmed>>
    BY <1>0, <1>1 DEF Spawn, StartReplacement, Register, HealthInv, Counted, monitor, Procs
  <2>2. st'[cur'] = "boot" /\ ~termed[cur'] /\ beats[cur']
    BY <1>0, <2>1 DEF TypeOK
  <2> QED
    BY <1>0, <2>1, <2>2
<1>2. CASE Tick \/ Sweep \/ ReadTtl \/ MonitorCrashes
  BY <1>0, <1>2 DEF Tick, Sweep, ReadTtl, MonitorCrashes, entry, monitor, procs, Active
<1>3. CASE LookExited
  <2>1. mon = "look" /\ ~Live(cur) /\ mon' \in {"idle", "exists"} /\ status' \in {status, "done"}
    BY <1>3 DEF LookExited, Returncodes
  <2>2. UNCHANGED <<cur, starts, termed, beats, st, hb, completed, harmed, sawTtl>>
    BY <1>3 DEF LookExited, procs
  <2>3. cur # 0 => st[cur] = "dead"
    BY <1>0, <2>1 DEF Live
  <2> QED
    BY <2>1, <2>2, <2>3
<1>4. CASE LookHealthy \/ LookSilent
  BY <1>4 DEF LookHealthy, LookSilent, procs
<1>5. CASE FoundCompleted \/ GiveUp \/ RestartFails \/ AwaitExit
  BY <1>5 DEF FoundCompleted, GiveUp, RestartFails, AwaitExit, entry, procs
<1>6. CASE Terminate
  <2>1. cur # 0 => harmed[cur]
    BY <1>6 DEF Terminate
  <2>2. /\ termed' = [termed EXCEPT ![cur] = Live(cur)]
        /\ UNCHANGED <<cur, starts, beats, harmed>>
    BY <1>6 DEF Terminate, entry
  <2>3. \A p \in Procs : p > starts => ~termed'[p]
    BY <1>0, <2>2 DEF TypeOK
  <2> QED
    BY <2>1, <2>2, <2>3
<1>7. CASE AwaitTimeout
  <2>1. cur # 0 => harmed[cur]
    BY <1>7 DEF AwaitTimeout
  <2> QED
    BY <1>7, <2>1 DEF AwaitTimeout, entry
<1>8. CASE Expire
  <2>1. /\ hb \in Procs /\ hb' = 0 /\ harmed' = [harmed EXCEPT ![hb] = @ \/ Live(hb)]
        /\ hb # cur => ~Live(cur)
        /\ UNCHANGED <<status, cur, mon, sawTtl, starts, st, termed, beats, completed>>
    BY <1>0, <1>8 DEF Expire, TypeOK, entry, monitor
  <2>2. \A p \in Procs : harmed[p] => harmed'[p]
    BY <1>0, <2>1 DEF TypeOK
  <2>3. cur # 0 /\ ~harmed'[cur] => ~Live(cur)
    BY <1>0, <2>1 DEF TypeOK
  <2>4. cur # 0 /\ ~harmed'[cur] => st[cur] = "dead" /\ ~harmed[cur]
    <3> SUFFICES ASSUME cur # 0, ~harmed'[cur] PROVE st[cur] = "dead" /\ ~harmed[cur]
      OBVIOUS
    <3>1. cur \in Procs /\ ~(cur > starts)
      BY <1>0
    <3>2. st[cur] # "none"
      BY <1>0, <3>1
    <3>3. ~Live(cur) /\ ~harmed[cur]
      BY <2>2, <2>3, <3>1
    <3> QED
      BY <3>2, <3>3 DEF Live
  <2> QED
    BY <2>1, <2>4
<1>9. CASE GraceEnds \/ Settled \/ UNCHANGED vars
  BY <1>9 DEF GraceEnds, Settled, vars, entry, monitor, procs
<1>10. ASSUME NEW p \in Procs, Worker(p) \/ Kill(p) \/ Signal(p)
       PROVE  Unharmed'
  <2>0. UNCHANGED <<status, cur, mon, sawTtl, starts>>
    BY <1>10 DEF Worker, Boot, Beat, BeatFails, FinishGraph, SetKey, DelHb, Exit, HandleTerm,
       TermInTeardown, Unwind, LingerEnds, Kill, Signal, entry, monitor
  <2>1. CASE HandleTerm(p) \/ TermInTeardown(p)
    <3>1. termed[p] /\ st[p] \in {"boot", "work", "setkey", "delhb", "exit"}
      BY <2>1 DEF HandleTerm, TermInTeardown
    <3>2. p = cur /\ harmed[cur]
      BY <1>0, <3>1 DEF Live
    <3>3. termed' = [termed EXCEPT ![p] = FALSE] /\ UNCHANGED <<beats, harmed>>
      BY <2>1 DEF HandleTerm, TermInTeardown
    <3>4. \A q \in Procs : q > starts => ~termed'[q]
      BY <1>0, <3>3 DEF TypeOK
    <3> QED
      BY <2>0, <3>2, <3>3, <3>4
  <2>2. CASE Unwind(p) \/ LingerEnds(p)
    <3>1. p = cur /\ harmed[cur]
      BY <1>0, <2>2 DEF Unwind, LingerEnds, Live
    <3> QED
      BY <2>0, <2>2, <3>1 DEF Unwind, LingerEnds
  <2>3. CASE BeatFails(p) \/ Kill(p) \/ Signal(p)
    <3>1. p = cur
      BY <1>0, <2>3 DEF BeatFails, Kill, Signal, Live
    <3>2. harmed' = [harmed EXCEPT ![p] = TRUE]
      BY <2>3 DEF BeatFails, Kill, Signal
    <3>3. harmed'[cur]
      BY <1>0, <3>1, <3>2 DEF TypeOK
    <3>4. \A q \in Procs : q > starts => termed'[q] = termed[q] /\ beats'[q] = beats[q]
      BY <1>0, <2>3, <3>1 DEF BeatFails, Kill, Signal, TypeOK
    <3> QED
      BY <2>0, <3>3, <3>4
  <2>4. CASE Boot(p) \/ Beat(p)
    <3>1. p = cur /\ cur # 0 /\ st[cur] \in {"boot", "work"}
      BY <1>0, <2>4 DEF Boot, Beat, Live
    <3>2. st'[cur] = "work" /\ hb' \in {hb, p} /\ UNCHANGED <<termed, beats, completed, harmed>>
      BY <1>0, <2>4, <3>1 DEF Boot, Beat, Goto, TypeOK
    <3> QED
      BY <1>0, <2>0, <3>1, <3>2
  <2>5. CASE FinishGraph(p)
    <3>1. p = cur /\ cur # 0
      BY <1>0, <2>5 DEF FinishGraph, Live
    <3>2. UNCHANGED <<termed, beats, hb, completed, harmed>>
      BY <2>5 DEF FinishGraph
    <3>3. beats[cur] => st'[cur] = "setkey"
      BY <1>0, <2>5, <3>1 DEF FinishGraph, Goto, TypeOK
    <3> QED
      BY <2>0, <3>1, <3>2, <3>3
  <2>6. CASE SetKey(p)
    <3>1. p = cur /\ cur # 0
      BY <1>0, <2>6 DEF SetKey, Live
    <3>2. st'[cur] = "delhb" /\ UNCHANGED <<termed, beats, hb>>
      BY <1>0, <2>6, <3>1 DEF SetKey, Goto, TypeOK
    <3>3. (completed' /\ UNCHANGED harmed) \/ harmed'[cur]
      BY <1>0, <2>6, <3>1 DEF SetKey, TypeOK
    <3> QED
      BY <2>0, <3>1, <3>2, <3>3
  <2>7. CASE DelHb(p) \/ Exit(p)
    <3>1. p = cur /\ cur # 0 /\ st[cur] \in {"delhb", "exit"}
      BY <1>0, <2>7 DEF DelHb, Exit, Live
    <3>2. st'[cur] \in {"exit", "dead"} /\ UNCHANGED <<termed, beats, completed, harmed>>
      BY <1>0, <2>7, <3>1 DEF DelHb, Exit, Goto, Exits, TypeOK
    <3> QED
      BY <2>0, <3>1, <3>2
  <2> QED
    BY <1>10, <2>1, <2>2, <2>3, <2>4, <2>5, <2>6, <2>7 DEF Worker
<1> QED
  BY <1>1, <1>2, <1>3, <1>4, <1>5, <1>6, <1>7, <1>8, <1>9, <1>10 DEF Next, Monitor, Time

\* The only two steps that start a process.
LEMMA OnlyStarts ==
  ASSUME [Next]_vars, ~Spawn, ~StartReplacement PROVE starts' = starts
<1>1. CASE Monitor
  BY <1>1 DEF Monitor, Tick, Sweep, ReadTtl, MonitorCrashes, LookExited, LookHealthy,
     LookSilent, FoundCompleted, GiveUp, Terminate, AwaitExit, AwaitTimeout, RestartFails, procs
<1>2. CASE Time \/ Settled \/ UNCHANGED vars
  BY <1>2 DEF Time, Expire, GraceEnds, Settled, vars, procs
<1>3. ASSUME NEW p \in Procs, Worker(p) \/ Kill(p) \/ Signal(p) PROVE starts' = starts
  BY <1>3 DEF Worker, Boot, Beat, BeatFails, FinishGraph, SetKey, DelHb, Exit, HandleTerm,
     TermInTeardown, Unwind, LingerEnds, Kill, Signal
<1> QED
  BY <1>1, <1>2, <1>3 DEF Next

\* A worker that nobody killed, signalled, starved or cut off from Redis is never
\* replaced, by the spawner that waits for the old process and as long as a
\* replacement beats before the key of its predecessor expires: the completion
\* key is set before the heartbeat is cleared, and the monitor never acts on an
\* older view than that.
THEOREM OnlyHarmedReplacedHolds == WaitsForExit /\ QuickBoot /\ Spec => OnlyHarmedReplaced
<1> SUFFICES ASSUME WaitsForExit, QuickBoot PROVE Spec => OnlyHarmedReplaced
  OBVIOUS
<1>1. Init => Unharmed
  BY HealthAssumption DEF Init, Unharmed, Procs
<1>2. HealthInv /\ Unharmed /\ [Next]_vars => Unharmed'
  BY UnharmedStep
<1>3. HealthInv /\ Unharmed /\ [Next]_vars => [starts' > starts /\ cur # 0 => harmed[cur]]_vars
  <2> SUFFICES ASSUME HealthInv, Unharmed, [Next]_vars, starts' > starts, cur # 0
               PROVE  harmed[cur]
    OBVIOUS
  <2>1. starts \in Nat /\ cur = starts
    BY HealthAssumption DEF HealthInv, TypeOK, Counted, Procs
  <2>2. Spawn \/ StartReplacement
    BY <2>1, OnlyStarts
  <2>3. ~Spawn
    BY <2>1 DEF Spawn, HealthInv, Counted
  <2> QED
    BY <2>2, <2>3 DEF StartReplacement, Unharmed
<1> QED
  BY <1>1, <1>2, <1>3, HealthInvariant, PTL DEF Spec, OnlyHarmedReplaced

=============================================================================
