---------------------------- MODULE SpawnersProof ----------------------------
(***************************************************************************)
(* Theorems about Spawners, for every cap, cluster and set of deployments,  *)
(* and any number of faults.                                                *)
(***************************************************************************)
EXTENDS Spawners, SequenceTheorems, TLAPS

\* What holds of every unit on its own: an exit code is that of an exited
\* process and a return code that of one that is over or gone; a Job is listed
\* until it is lost, and lost only when it is over or on its way out; a node is
\* known from the placement on, and the proxy's node is the unit's.
Sound(u) ==
    /\ u.exit # NoCode => Over(u)
    /\ kind # "docker" /\ u.rc # NoCode => Over(u) \/ u.lost
    /\ kind = "docker" => u.listed
    /\ kind = "k8s" => (u.listed <=> ~u.lost) /\ (u.lost => Over(u) \/ u.told)
    /\ u.pod = "pending" => u.node = NoNode
    /\ u.seen # NoNode => u.seen = u.node

UnitsSound == \A i \in DOMAIN units : Sound(units[i])

\* A restart is under way only below the cap.
Capped == step # "watch" => entry.count < MaxWorkerRestarts

\* What the names and the order of the units say about the registry entry: a
\* name is never asked for twice, except by an orchestrator that has forgotten
\* its units, and a container keeps the name of the bug for good.
Numbered ==
    /\ forgot > 0 => faults > 0
    /\ kind = "docker" => Len(units) <= 1
    /\ entry.status = "none" => entry.count = 0
    /\ forgot = 0 /\ entry.status = "none" => Len(units) = 0
    /\ forgot = 1 /\ entry.status = "none" => Len(units) = 1
    /\ forgot = 0 => \A i \in DOMAIN units : units[i].name < i
    /\ forgot = 0 /\ entry.status # "none"
         => entry.unit = Len(units) /\ entry.count < Len(units)
    /\ forgot <= 1 => \A i \in DOMAIN units : units[i].name <= entry.count

\* No call failed, and an orchestrator that restarted finds its worker again.
Clean ==
    /\ faults = IF forgot > 0 THEN 1 ELSE 0
    /\ forgot > 0 => kind = "docker" \/ (kind = "k8s" /\ forgot = 1)

Leaving(u) == Over(u) \/ u.told

\* The units that are not registered, and the one about to be replaced, leave.
Owned ==
    Clean /\ entry.status # "none" =>
      /\ \A i \in DOMAIN units : i # entry.unit => Leaving(units[i])
      /\ step # "watch" => Leaving(units[entry.unit])

Resumes(j, i) ==
    \/ /\ units[j].hint = units[i].node
       /\ affinity = "required" /\ units[j].hint # NoNode
            => units[j].node \in {NoNode, units[i].node}
    \/ units[j].hint = NoNode /\ units[i].lookups = MaxNodeLookups

\* The node of the unit is known to its proxy, or it cannot be asked for again.
Known(u) == \/ u.seen = u.node
            \/ u.seen = NoNode /\ u.lookups = MaxNodeLookups

\* The Job under watch has no return code yet, so one that is read is acted
\* upon at once; the node of a Job about to be replaced is known, or the
\* look-ups are used up.
Steered ==
    kind = "k8s" /\ affinity # "off" /\ faults = 0 =>
      /\ \A i \in 2..Len(units) : Resumes(i, i - 1)
      /\ Active /\ step = "watch" => units[entry.unit].rc = NoCode
      /\ step # "watch" => Known(units[entry.unit])

-----------------------------------------------------------------------------
(* One unit at a time *)

\* What no runtime and no proxy does to a unit: it keeps its name and its hint,
\* one that is leaving does not come back and stays where it is, and one is
\* placed once, where its hint is binding on the node hinted at.
Evolves(u, v) ==
    /\ v.name = u.name /\ v.hint = u.hint
    /\ Leaving(u) => Leaving(v)
    /\ \/ v.node = u.node
       \/ /\ ~Leaving(u) /\ u.node = NoNode
          /\ u.hint = NoNode \/ affinity # "required" \/ v.node = u.hint

Fine(u, v) == v \in Units /\ Sound(v) /\ Evolves(u, v)

LEMMA LookupNodeFine ==
    ASSUME NEW u \in Units, Sound(u)
    PROVE  /\ Fine(u, LookupNode(u))
           /\ LookupNode(u).lookups >= u.lookups
           /\ LookupNode(u).lost = u.lost
           /\ ~u.lost => \/ LookupNode(u).seen = u.node
                         \/ /\ LookupNode(u).seen = NoNode
                            /\ LookupNode(u).lookups = MaxNodeLookups
<1>1. CASE u.seen # NoNode \/ u.lookups >= MaxNodeLookups
  <2>1. LookupNode(u) = u
    BY <1>1 DEF LookupNode
  <2>2. u.lookups \in 0..MaxNodeLookups
    BY DEF Units
  <2> QED BY <1>1, <2>1, <2>2, SpawnersAssumption DEF Fine, Sound, Evolves
<1>2. CASE ~(u.seen # NoNode \/ u.lookups >= MaxNodeLookups)
  <2>1. u.lookups + 1 \in 0..MaxNodeLookups /\ u.lookups \in Nat
    BY <1>2, SpawnersAssumption DEF Units
  <2> DEFINE n == IF u.lost THEN NoNode ELSE u.node
  <2>2. n \in MaybeNode
    BY DEF MaybeNode, Units
  <2>3. LookupNode(u) = [u EXCEPT !.lookups = u.lookups + 1, !.seen = n]
    BY <1>2 DEF LookupNode, Units
  <2>4. LookupNode(u) \in Units
    BY <2>1, <2>2, <2>3 DEF Units
  <2>5. /\ LookupNode(u).lookups = u.lookups + 1 /\ LookupNode(u).seen = n
        /\ \A f \in {"pod", "exit", "listed", "lost", "told", "node", "name", "hint", "rc"} :
              LookupNode(u)[f] = u[f]
    BY <2>3 DEF Units
  <2>6. Sound(LookupNode(u)) /\ Evolves(u, LookupNode(u))
    BY <2>5 DEF Sound, Evolves, Leaving, Over
  <2> QED BY <2>1, <2>4, <2>5, <2>6 DEF Fine
<1> QED BY <1>1, <1>2

LEMMA ReloadedFine ==
    ASSUME NEW u \in Units, Sound(u), kind \in Kinds
    PROVE  Fine(u, Reloaded(u)) /\ Reloaded(u).lookups >= u.lookups
<1>1. CASE kind = "process"
  BY <1>1, SpawnersAssumption DEF Reloaded, ReadProcess, Fine, Units, Sound, Evolves, Leaving, Over, Codes
<1>2. CASE kind = "docker"
  BY <1>2, SpawnersAssumption DEF Reloaded, ReadContainer, Fine, Units, Sound, Evolves, Leaving, Over, Codes
<1>3. CASE kind = "ecs"
  BY <1>3, SpawnersAssumption DEF Reloaded, ReadTask, Fine, Units, Sound, Evolves, Leaving, Over, Codes
<1>4. CASE kind = "k8s"
  <2>1. CASE u.listed /\ ~Over(u)
    BY <1>4, <2>1, LookupNodeFine DEF Reloaded, ReadJob
  <2>2. CASE ~(u.listed /\ ~Over(u))
    BY <1>4, <2>2, SpawnersAssumption DEF Reloaded, ReadJob, Fine, Units, Sound, Evolves, Leaving, Over, Codes
  <2> QED BY <2>1, <2>2
<1> QED BY <1>1, <1>2, <1>3, <1>4, SpawnersAssumption

LEMMA UnreadFine ==
    ASSUME NEW u \in Units, Sound(u), kind \in Kinds, kind # "process",
           NEW v \in Unread(u)
    PROVE  Fine(u, v) /\ v.lookups >= u.lookups
<1>1. CASE kind = "docker"
  BY <1>1 DEF Unread, Fine, Units, Sound, Evolves, Leaving, Over, Codes
<1>2. CASE kind = "ecs"
  BY <1>2 DEF Unread, Fine, Units, Sound, Evolves, Leaving, Over, Codes
<1>3. CASE kind = "k8s"
  <2>1. LookupNode(u).lookups \in 0..MaxNodeLookups /\ LookupNode(u).lookups >= u.lookups
    BY LookupNodeFine DEF Fine, Units
  <2>2. CASE v = u
    BY <2>2 DEF Fine, Evolves, Units
  <2>3. CASE v = [LookupNode(u) EXCEPT !.seen = u.seen]
    <3>1. v \in Units
      BY <2>3, LookupNodeFine DEF Fine, Units
    <3>2. /\ v.lookups = LookupNode(u).lookups /\ v.seen = u.seen
          /\ \A f \in {"pod", "exit", "listed", "lost", "told", "node", "name", "hint", "rc"} :
                v[f] = u[f]
      BY <2>3, LookupNodeFine DEF Fine, Units, LookupNode
    <3> QED BY <2>1, <3>1, <3>2 DEF Fine, Sound, Evolves, Leaving, Over
  <2> QED BY <1>3, <2>2, <2>3 DEF Unread
<1> QED BY <1>1, <1>2, <1>3, SpawnersAssumption

LEMMA HintedFine ==
    ASSUME NEW u \in Units, Sound(u)
    PROVE  Fine(u, Hinted(u)) /\ Hinted(u).lookups >= u.lookups
<1>1. CASE kind = "k8s"
  BY <1>1, LookupNodeFine DEF Hinted
<1>2. CASE kind # "k8s"
  BY <1>2, SpawnersAssumption DEF Hinted, Fine, Units, Evolves
<1> QED BY <1>1, <1>2

LEMMA TerminatedFine ==
    ASSUME NEW u \in Units, Sound(u), kind \in Kinds
    PROVE  /\ Fine(u, Terminated(u)) /\ Terminated(u).told
           /\ Terminated(u).lookups = u.lookups /\ Terminated(u).seen = u.seen
           /\ Terminated(u).node = u.node
BY SpawnersAssumption DEF Terminated, Fine, Units, Sound, Evolves, Leaving, Over, Codes

LEMMA FineTransitive ==
    ASSUME NEW u \in Units, NEW v, NEW w, Sound(u), Fine(u, v), Fine(v, w)
    PROVE  Fine(u, w)
BY DEF Fine, Evolves

LEMMA UnitFine ==
    ASSUME NEW name \in 0..MaxWorkerRestarts, NEW hint \in MaybeNode, kind \in Kinds
    PROVE  Unit(name, hint) \in Units /\ Sound(Unit(name, hint))
<1>1. 0 \in 0..MaxNodeLookups
  BY SpawnersAssumption
<1>2. Unit(name, hint) \in Units
  BY <1>1 DEF Unit, Units, Codes, MaybeNode
<1>3. Sound(Unit(name, hint))
  BY DEF Unit, Sound, Over
<1> QED BY <1>2, <1>3

-----------------------------------------------------------------------------
(* The shape of a step *)

Local == TypeOK /\ Capped /\ UnitsSound

\* A check of the monitor leaves the registered unit as v: a verdict on the
\* entry, or the first half of a restart, which stops the unit or is one failed
\* call further.  Without failed calls, a Job is restarted only while it is
\* listed, and its node is read first.
Checked(v) ==
    LET u == units[entry.unit] IN
    /\ Fine(u, v) /\ v.lookups >= u.lookups
    /\ units' = [units EXCEPT ![entry.unit] = v]
    /\ faults' \in faults..MaxFaults
    /\ \/ /\ UNCHANGED step
          /\ \E s \in {"warmup", "running", "done", "failed"} :
                 /\ entry' = [entry EXCEPT !.status = s]
                 /\ s \in {"warmup", "running"} => v.rc = NoCode
       \/ /\ step' \in {"stopping", "starting"}
          /\ UNCHANGED entry /\ entry.count < MaxWorkerRestarts
          /\ v.told \/ faults' > faults
          /\ kind = "k8s" /\ faults' = 0 /\ u.rc = NoCode => Known(v)

LEMMA VerdictChecked ==
    ASSUME Local, Active, NEW u, NEW f \in {faults, faults + 1}, f <= MaxFaults,
           Fine(units[entry.unit], u), u.lookups >= units[entry.unit].lookups,
           \/ f > faults
           \/ kind = "k8s" /\ units[entry.unit].rc = NoCode /\ u.lost => u.rc = 0
           \/ kind # "k8s",
           Verdict(u, f)
    PROVE  \E v : Checked(v)
<1> DEFINE w == units[entry.unit]
<1>1. entry.unit \in DOMAIN units /\ w \in Units /\ faults \in Nat /\ MaxFaults \in Nat
  BY SpawnersAssumption DEF Local, TypeOK, Active
<1>2. w.lookups \in Nat
  BY <1>1 DEF Units
<1>3. Sound(w) /\ kind \in Kinds /\ u \in Units /\ Sound(u)
  BY <1>1 DEF Local, UnitsSound, TypeOK, Fine
<1>4. ASSUME NEW s \in {"warmup", "running", "done", "failed"}, Enter(s), Leave(u), faults' = f,
             s \in {"warmup", "running"} => u.rc = NoCode
      PROVE  Checked(u)
  BY <1>1, <1>4 DEF Checked, Enter, Leave
<1>5. ASSUME Restart(u, f), u.rc # 0
      PROVE  \E v : Checked(v)
  <2>1. CASE entry.count >= MaxWorkerRestarts
    <3>1. Enter("failed") /\ Leave(u) /\ faults' = f
      BY <1>5, <2>1, SpawnersAssumption DEF Restart, Local, TypeOK
    <3> QED BY <3>1, <1>4
  <2>2. CASE entry.count < MaxWorkerRestarts
    <3>1. Fine(u, Hinted(u)) /\ Hinted(u).lookups >= u.lookups
      BY <1>3, HintedFine
    <3>2. Fine(w, Hinted(u))
      BY <1>1, <1>3, <3>1, FineTransitive
    <3>3. /\ Fine(Hinted(u), StopOld(u)) /\ StopOld(u).told
          /\ StopOld(u).lookups = Hinted(u).lookups /\ StopOld(u).seen = Hinted(u).seen
          /\ StopOld(u).node = Hinted(u).node
      BY <1>3, <3>1, TerminatedFine DEF StopOld, Fine
    <3>4. Fine(w, StopOld(u))
      BY <1>1, <1>3, <3>2, <3>3, FineTransitive
    <3>5. u.lookups \in Nat /\ Hinted(u).lookups \in Nat
      BY <1>3, <3>1 DEF Units, Fine
    <3>6. kind = "k8s" /\ faults' = 0 /\ w.rc = NoCode /\ faults' = f => Known(StopOld(u))
      <4> SUFFICES ASSUME kind = "k8s", faults' = 0, w.rc = NoCode, faults' = f
                   PROVE  Known(StopOld(u))
        OBVIOUS
      <4>1. ~u.lost
        BY <1>1, <1>5
      <4>2. \/ Hinted(u).seen = u.node
            \/ Hinted(u).seen = NoNode /\ Hinted(u).lookups = MaxNodeLookups
        BY <1>3, <4>1, LookupNodeFine DEF Hinted
      <4>3. Hinted(u).node = u.node
        BY <1>3 DEF Hinted, LookupNode, Units
      <4> QED BY <3>3, <4>2, <4>3 DEF Known
    <3>7. /\ step' \in {"stopping", "starting"} /\ UNCHANGED entry
          /\ \/ units' = [units EXCEPT ![entry.unit] = StopOld(u)] /\ faults' = f
             \/ /\ units' = [units EXCEPT ![entry.unit] = Hinted(u)]
                /\ \/ f > faults /\ faults' = f
                   \/ f < MaxFaults /\ faults' = f + 1
      <4>1. ~(entry.count >= MaxWorkerRestarts)
        BY <2>2, SpawnersAssumption DEF Local, TypeOK
      <4>2. step' = IF kind \in {"process", "docker"} THEN "stopping" ELSE "starting"
        BY <1>5, <4>1 DEF Restart
      <4>3. step' \in {"stopping", "starting"}
        BY <4>2
      <4>4. /\ UNCHANGED entry
            /\ \/ units' = [units EXCEPT ![entry.unit] = StopOld(u)] /\ faults' = f
               \/ /\ units' = [units EXCEPT ![entry.unit] = Hinted(u)]
                  /\ \/ f > faults /\ faults' = f
                     \/ kind # "process" /\ f < MaxFaults /\ faults' = f + 1
        BY <1>5, <4>1, Zenon DEF Restart
      <4> QED BY <4>3, <4>4, Zenon
    <3>8. CASE units' = [units EXCEPT ![entry.unit] = StopOld(u)] /\ faults' = f
      <4>1. Checked(StopOld(u))
        BY <1>1, <1>2, <2>2, <3>1, <3>3, <3>4, <3>5, <3>6, <3>7, <3>8 DEF Checked
      <4> QED BY <4>1
    <3>9. CASE /\ units' = [units EXCEPT ![entry.unit] = Hinted(u)]
               /\ \/ f > faults /\ faults' = f
                  \/ f < MaxFaults /\ faults' = f + 1
      <4>1. faults' > faults /\ faults' \in faults..MaxFaults /\ faults' # 0
        BY <1>1, <3>9
      <4>2. Checked(Hinted(u))
        BY <1>2, <2>2, <3>1, <3>2, <3>5, <3>7, <3>9, <4>1 DEF Checked
      <4> QED BY <4>2
    <3> QED BY <3>7, <3>8, <3>9
  <2> QED BY <2>1, <2>2, SpawnersAssumption DEF Local, TypeOK
<1>6. CASE Enter("done") /\ Leave(u) /\ faults' = f
  BY <1>4, <1>6
<1>7. CASE /\ \/ Dead(u) /\ u.rc # 0 /\ ~completed
              \/ Silent(u) /\ entry.status = "running" /\ ~completed
           /\ Restart(u, f)
  BY <1>5, <1>7, SpawnersAssumption DEF Dead, Silent
<1>8. CASE /\ ~Dead(u) /\ beat
           /\ Enter("running") /\ Leave(u) /\ faults' = f
  BY <1>4, <1>8 DEF Dead
<1>9. CASE /\ Silent(u) /\ entry.status = "warmup"
           /\ WarmUp /\ Leave(u) /\ faults' = f
  BY <1>4, <1>9 DEF Silent, Dead, WarmUp
<1> QED BY <1>6, <1>7, <1>8, <1>9 DEF Verdict

LEMMA CheckChecked ==
    ASSUME Local, Check
    PROVE  \E v : Checked(v)
<1> DEFINE w == units[entry.unit]
<1>1. w \in Units /\ Sound(w) /\ kind \in Kinds /\ faults \in Nat /\ MaxFaults \in Nat
      /\ faults <= MaxFaults
  BY SpawnersAssumption DEF Local, TypeOK, Active, UnitsSound, Check
<1>2. CASE Verdict(Reloaded(w), faults)
  <2>1. Fine(w, Reloaded(w)) /\ Reloaded(w).lookups >= w.lookups
    BY <1>1, ReloadedFine
  <2>2. kind = "k8s" /\ w.rc = NoCode /\ Reloaded(w).lost => Reloaded(w).rc = 0
    <3> SUFFICES ASSUME kind = "k8s", w.rc = NoCode, Reloaded(w).lost
                 PROVE  Reloaded(w).rc = 0
      OBVIOUS
    <3>1. CASE ~w.listed
      <4>1. Reloaded(w) = [w EXCEPT !.rc = 0]
        BY <3>1 DEF Reloaded, ReadJob
      <4> QED BY <1>1, <4>1 DEF Units
    <3>2. CASE w.listed
      <4>1. ~w.lost
        BY <1>1, <3>2 DEF Sound
      <4>2. Reloaded(w).lost = w.lost
        BY <1>1, <3>2, LookupNodeFine DEF Reloaded, ReadJob, Units
      <4> QED BY <4>1, <4>2
    <3> QED BY <3>1, <3>2
  <2> QED BY <1>1, <1>2, <2>1, <2>2, VerdictChecked DEF Check
<1>3. CASE /\ kind # "process" /\ faults < MaxFaults
           /\ \E u \in Unread(w) : Verdict(u, faults + 1)
  <2>1. PICK u \in Unread(w) : Verdict(u, faults + 1)
    BY <1>3
  <2>2. Fine(w, u) /\ u.lookups >= w.lookups
    BY <1>1, <1>3, UnreadFine
  <2>3. faults + 1 > faults /\ faults + 1 <= MaxFaults
    BY <1>1, <1>3
  <2> QED BY <1>1, <2>1, <2>2, <2>3, VerdictChecked DEF Check
<1> QED BY <1>2, <1>3 DEF Check

\* A runtime step, or the wait for an exit, leaves unit i as v.
Moved(i, v) == i \in DOMAIN units /\ Fine(units[i], v) /\ units' = [units EXCEPT ![i] = v]

LEMMA RuntimeMoves ==
    ASSUME Local, NEW i \in DOMAIN units, Runtime(i)
    PROVE  \E v : Moved(i, v) /\ v.seen = units[i].seen /\ v.lookups = units[i].lookups
                             /\ v.rc = units[i].rc
<1> DEFINE w == units[i]
<1>1. units \in Seq(Units) /\ w \in Units /\ Sound(w) /\ kind \in Kinds
  BY DEF Local, TypeOK, UnitsSound
<1>2. ASSUME NEW n \in Nodes, Schedule(i, n)
      PROVE  \E v : Moved(i, v) /\ v.seen = w.seen /\ v.lookups = w.lookups /\ v.rc = w.rc
  <2> DEFINE m == IF kind = "k8s" THEN n ELSE NoNode
             v == [w EXCEPT !.pod = "up", !.node = m]
  <2>1. units' = [units EXCEPT ![i] = v]
    BY <1>1, <1>2 DEF Schedule, Units
  <2>2. m \in MaybeNode /\ w.node = NoNode
    BY <1>1, <1>2 DEF MaybeNode, Schedule, Sound
  <2>3. v \in Units /\ v.seen = w.seen /\ v.lookups = w.lookups /\ v.rc = w.rc
    BY <1>1, <2>2 DEF Units
  <2>4. Sound(v)
    BY <1>1, <1>2, <2>2 DEF Schedule, Sound, Over, Units
  <2>5. Evolves(w, v)
    BY <1>1, <1>2, <2>2 DEF Schedule, Evolves, Leaving, Over, Units
  <2> QED BY <2>1, <2>3, <2>4, <2>5 DEF Moved, Fine
<1>3. CASE Appear(i)
  <2> DEFINE v == [w EXCEPT !.listed = TRUE]
  <2>1. units' = [units EXCEPT ![i] = v]
    BY <1>1, <1>3 DEF Appear, Units
  <2>2. Fine(w, v) /\ v.seen = w.seen /\ v.lookups = w.lookups /\ v.rc = w.rc
    BY <1>1, <1>3 DEF Appear, Fine, Units, Sound, Evolves, Leaving, Over
  <2> QED BY <2>1, <2>2 DEF Moved
<1>4. CASE Obey(i) \/ \E code \in {0, 1} : Exit(i, code)
  <2>1. PICK code \in {0, 1} :
             units' = [units EXCEPT ![i].pod = "exited", ![i].exit = code] /\ ~Over(w)
    BY <1>1, <1>4 DEF Obey, Exit, Over
  <2> DEFINE v == [w EXCEPT !.pod = "exited", !.exit = code]
  <2>2. units' = [units EXCEPT ![i] = v]
    BY <1>1, <2>1 DEF Units
  <2>3. Fine(w, v) /\ v.seen = w.seen /\ v.lookups = w.lookups /\ v.rc = w.rc
    BY <1>1, <2>1 DEF Fine, Units, Sound, Evolves, Leaving, Over, Codes
  <2> QED BY <2>2, <2>3 DEF Moved
<1>5. CASE Vanish(i)
  <2> DEFINE v == [w EXCEPT !.listed = FALSE, !.lost = TRUE, !.told = @ \/ ~Over(w)]
  <2>1. units' = [units EXCEPT ![i] = v]
    BY <1>1, <1>5 DEF Vanish, Units
  <2>2. Fine(w, v) /\ v.seen = w.seen /\ v.lookups = w.lookups /\ v.rc = w.rc
    BY <1>1, <1>5 DEF Vanish, Fine, Units, Sound, Evolves, Leaving, Over
  <2> QED BY <2>1, <2>2 DEF Moved
<1> QED BY <1>2, <1>3, <1>4, <1>5 DEF Runtime

LEMMA AwaitExitMoves ==
    ASSUME Local, AwaitExit
    PROVE  \/ UNCHANGED units /\ (Over(units[entry.unit]) \/ ~units[entry.unit].told)
           \/ \E v : /\ Moved(entry.unit, v) /\ Over(v)
                  /\ v.seen = units[entry.unit].seen /\ v.lookups = units[entry.unit].lookups
<1> DEFINE w == units[entry.unit]
<1>1. /\ units \in Seq(Units) /\ entry.unit \in DOMAIN units
      /\ w \in Units /\ Sound(w) /\ kind \in Kinds
  BY DEF Local, TypeOK, UnitsSound, AwaitExit, Active
<1>2. CASE units' = [units EXCEPT ![entry.unit].pod = "exited", ![entry.unit].exit = 1]
  <2> DEFINE v == [w EXCEPT !.pod = "exited", !.exit = 1]
  <2>1. units' = [units EXCEPT ![entry.unit] = v]
    BY <1>1, <1>2 DEF Units
  <2>2. Fine(w, v) /\ Over(v) /\ v.seen = w.seen /\ v.lookups = w.lookups
    BY <1>1, <1>2 DEF Fine, Units, Sound, Evolves, Leaving, Over, Codes
  <2> QED BY <1>1, <2>1, <2>2 DEF Moved
<1> QED BY <1>2 DEF AwaitExit

LEMMA AdoptedMoves ==
    ASSUME Local, NEW count \in 0..MaxWorkerRestarts, Adopted(count)
    PROVE  \E i \in Holders(count) : \E v :
              /\ Moved(i, v) /\ v.rc = NoCode
              /\ entry' = [status |-> "warmup", unit |-> i, count |-> count]
<1>1. PICK i \in Holders(count) :
         /\ units' = [units EXCEPT ![i].rc = NoCode, ![i].seen = NoNode, ![i].lookups = 0]
         /\ entry' = [status |-> "warmup", unit |-> i, count |-> count]
  BY DEF Adopted
<1> DEFINE w == units[i]
           v == [w EXCEPT !.rc = NoCode, !.seen = NoNode, !.lookups = 0]
<1>2. i \in DOMAIN units /\ w \in Units /\ Sound(w) /\ 0 \in 0..MaxNodeLookups /\ units \in Seq(Units)
  BY SpawnersAssumption DEF Holders, Local, TypeOK, UnitsSound
<1>3. units' = [units EXCEPT ![i] = v]
  BY <1>1, <1>2 DEF Units
<1>4. Fine(w, v) /\ v.rc = NoCode
  BY <1>2 DEF Fine, Units, Sound, Evolves, Leaving, Over, Codes, MaybeNode
<1> QED BY <1>1, <1>2, <1>3, <1>4 DEF Moved

LEMMA MovedUnits ==
    ASSUME units \in Seq(Units), NEW i, NEW v, Moved(i, v)
    PROVE  /\ units' \in Seq(Units) /\ Len(units') = Len(units) /\ Len(units) \in Nat
           /\ DOMAIN units' = 1..Len(units) /\ DOMAIN units = 1..Len(units)
           /\ i \in 1..Len(units) /\ units'[i] = v
           /\ \A j \in 1..Len(units) : units'[j] = IF j = i THEN v ELSE units[j]
<1>1. i \in 1..Len(units) /\ v \in Units /\ units' = [units EXCEPT ![i] = v]
  BY DEF Moved, Fine
<1> QED BY <1>1, ExceptSeq

LEMMA CreatedUnits ==
    ASSUME Local, NEW count \in 0..MaxWorkerRestarts, NEW hint \in MaybeNode,
           Created(count, hint)
    PROVE  /\ units' \in Seq(Units) /\ Len(units') = Len(units) + 1 /\ Len(units) \in Nat
           /\ DOMAIN units' = 1..(Len(units) + 1) /\ DOMAIN units = 1..Len(units)
           /\ units'[Len(units) + 1] = Unit(count, hint)
           /\ \A j \in 1..Len(units) : units'[j] = units[j]
<1>1. Unit(count, hint) \in Units /\ units \in Seq(Units)
  BY UnitFine DEF Local, TypeOK
<1>2. units' = Append(units, Unit(count, hint))
  BY DEF Created
<1> QED BY <1>1, <1>2, AppendProperties

\* Whichever way a step changes the units, they keep what holds of each.
LEMMA UnitsStaySound ==
    ASSUME Local, kind' = kind, affinity' = affinity,
           \/ UNCHANGED units
           \/ \E i : \E v : Moved(i, v)
           \/ \E count \in 0..MaxWorkerRestarts : \E hint \in MaybeNode : Created(count, hint)
    PROVE  UnitsSound' /\ units' \in Seq(Units) /\ Len(units') \in Nat /\ Len(units') >= Len(units)
<1>0. units \in Seq(Units) /\ Len(units) \in Nat /\ kind \in Kinds /\ DOMAIN units = 1..Len(units)
  BY DEF Local, TypeOK
<1>1. CASE UNCHANGED units
  BY <1>0, <1>1 DEF Local, UnitsSound, Sound, Over
<1>2. ASSUME NEW i, NEW v, Moved(i, v)
      PROVE  UnitsSound' /\ units' \in Seq(Units) /\ Len(units') \in Nat /\ Len(units') >= Len(units)
  <2>1. \A j \in DOMAIN units' : Sound(units'[j])
    BY <1>0, <1>2, MovedUnits DEF Local, UnitsSound, Moved, Fine
  <2>2. UnitsSound'
    BY <2>1 DEF UnitsSound, Sound, Over
  <2> QED BY <1>0, <1>2, <2>2, MovedUnits
<1>3. ASSUME NEW count \in 0..MaxWorkerRestarts, NEW hint \in MaybeNode, Created(count, hint)
      PROVE  UnitsSound' /\ units' \in Seq(Units) /\ Len(units') \in Nat /\ Len(units') >= Len(units)
  <2>1. \A j \in DOMAIN units' : j \in 1..Len(units) \/ j = Len(units) + 1
    BY <1>3, CreatedUnits
  <2>2. \A j \in DOMAIN units' : Sound(units'[j])
    BY <1>0, <1>3, <2>1, CreatedUnits, UnitFine DEF Local, UnitsSound
  <2>3. UnitsSound'
    BY <2>2 DEF UnitsSound, Sound, Over
  <2> QED BY <1>3, <2>3, CreatedUnits
<1> QED BY <1>1, <1>2, <1>3

LEMMA HintTyped ==
    ASSUME Local, step = "starting"
    PROVE  Hint \in MaybeNode /\ entry.count + 1 \in 0..MaxWorkerRestarts
<1>1. entry.unit \in DOMAIN units /\ units[entry.unit] \in Units
  BY DEF Local, TypeOK, Active
<1>2. units[entry.unit].seen \in MaybeNode
  BY <1>1 DEF Units
<1> QED BY <1>2, SpawnersAssumption DEF Hint, MaybeNode, Local, Capped, TypeOK

LEMMA StartTyped ==
    ASSUME Local, NEW count \in 0..MaxWorkerRestarts, NEW hint \in MaybeNode,
           Created(count, hint) \/ Adopted(count), kind' = kind, affinity' = affinity
    PROVE  /\ UnitsSound' /\ units' \in Seq(Units)
           /\ entry' \in [status : {"none", "warmup", "running", "done", "failed"},
                          unit : 0..Len(units'), count : 0..MaxWorkerRestarts]
           /\ entry'.status = "warmup" /\ entry'.unit > 0 /\ faults' = faults
           /\ Len(units') \in Nat /\ Len(units') >= Len(units)
<1>1. CASE Created(count, hint)
  <2>1. UnitsSound' /\ units' \in Seq(Units)
    BY <1>1, UnitsStaySound
  <2>2. Len(units') = Len(units) + 1 /\ Len(units) \in Nat
    BY <1>1, CreatedUnits
  <2> QED BY <1>1, <2>1, <2>2 DEF Created
<1>2. CASE Adopted(count)
  <2>1. PICK i \in Holders(count) : \E v :
              /\ Moved(i, v) /\ v.rc = NoCode
              /\ entry' = [status |-> "warmup", unit |-> i, count |-> count]
    BY <1>2, AdoptedMoves
  <2>2. UnitsSound' /\ units' \in Seq(Units)
    BY <2>1, UnitsStaySound
  <2>3. i \in 1..Len(units) /\ Len(units') = Len(units) /\ Len(units) \in Nat
    BY <2>1, MovedUnits DEF Local, TypeOK
  <2>4. entry' = [status |-> "warmup", unit |-> i, count |-> count] /\ faults' = faults
    BY <1>2, <2>1 DEF Adopted
  <2> QED BY <2>2, <2>3, <2>4
<1> QED BY <1>1, <1>2

-----------------------------------------------------------------------------
(* Types, and what holds of every unit *)

LEMMA InitLocal ==
    ASSUME Init
    PROVE  Local
<1>1. units \in Seq(Units) /\ Len(units) = 0
  BY DEF Init
<1>2. entry \in [status : {"none", "warmup", "running", "done", "failed"},
                unit : 0..Len(units), count : 0..MaxWorkerRestarts] /\ entry.status = "none"
  BY <1>1, SpawnersAssumption DEF Init, NoEntry
<1>3. TypeOK
  <2>1. kind \in Kinds /\ affinity \in Affinities \cup {"off"}
    BY DEF Init, Affinity
  <2>2. forgot \in 0..Len(units) /\ faults \in 0..MaxFaults
    BY <1>1, SpawnersAssumption DEF Init
  <2>3. step = "watch" /\ beat \in BOOLEAN /\ completed \in BOOLEAN
    BY DEF Init
  <2> QED BY <1>1, <1>2, <2>1, <2>2, <2>3 DEF TypeOK
<1>4. Capped /\ UnitsSound
  BY DEF Init, Capped, UnitsSound
<1> QED BY <1>3, <1>4 DEF Local

LEMMA RaisesTyped ==
    ASSUME Local, NEW count, Raises(count)
    PROVE  UNCHANGED units /\ faults' \in faults..MaxFaults
BY SpawnersAssumption DEF Raises, Fault, Local, TypeOK

LEMMA SpawnLocal ==
    ASSUME Local, Spawn
    PROVE  Local'
<1>0. 0 \in 0..MaxWorkerRestarts /\ NoNode \in MaybeNode
  BY SpawnersAssumption DEF MaybeNode
<1>1. step = "watch" /\ Len(units) \in Nat
  BY DEF Spawn, Local, TypeOK, Active
<1>2. CASE Created(0, NoNode) \/ Adopted(0)
  <2>1. /\ UnitsSound' /\ units' \in Seq(Units)
        /\ entry' \in [status : {"none", "warmup", "running", "done", "failed"},
                       unit : 0..Len(units'), count : 0..MaxWorkerRestarts]
        /\ entry'.status = "warmup" /\ entry'.unit > 0 /\ faults' = faults
        /\ Len(units') \in Nat /\ Len(units') >= Len(units)
    BY <1>0, <1>2, StartTyped DEF Spawn
  <2>2. TypeOK'
    BY <1>1, <2>1 DEF Local, TypeOK, Spawn, Active
  <2> QED BY <1>1, <2>1, <2>2 DEF Local, Capped, Spawn
<1>3. CASE Raises(0) /\ UNCHANGED entry
  <2>1. UNCHANGED units /\ faults' \in faults..MaxFaults
    BY <1>3, RaisesTyped
  <2>2. UnitsSound'
    BY <2>1, UnitsStaySound DEF Spawn
  <2>3. TypeOK'
    BY <1>1, <1>3, <2>1, SpawnersAssumption DEF Local, TypeOK, Spawn, Active
  <2> QED BY <1>1, <2>2, <2>3 DEF Local, Capped, Spawn
<1> QED BY <1>2, <1>3 DEF Spawn

LEMMA ForgetLocal ==
    ASSUME Local, Forget
    PROVE  Local'
<1>1. UnitsSound'
  BY UnitsStaySound DEF Forget
<1>2. TypeOK' /\ Capped'
  BY SpawnersAssumption DEF Local, TypeOK, Capped, Forget, Fault, Active, NoEntry
<1> QED BY <1>1, <1>2 DEF Local

LEMMA CheckLocal ==
    ASSUME Local, Check
    PROVE  Local'
<1>1. PICK v : Checked(v)
  BY CheckChecked
<1>2. Moved(entry.unit, v)
  BY <1>1 DEF Checked, Moved, Check, Active, Local, TypeOK
<1>3. UnitsSound' /\ units' \in Seq(Units)
  BY <1>2, UnitsStaySound DEF Check
<1>4. Len(units') = Len(units)
  BY <1>2, MovedUnits DEF Local, TypeOK
<1>5. \/ /\ step' = "watch"
         /\ \E s \in {"warmup", "running", "done", "failed"} : entry' = [entry EXCEPT !.status = s]
      \/ /\ step' \in {"stopping", "starting"}
         /\ entry' = entry /\ entry.count < MaxWorkerRestarts
  BY <1>1 DEF Checked, Check
<1>6. faults' \in 0..MaxFaults
  BY <1>1, SpawnersAssumption DEF Checked, Local, TypeOK
<1>7. /\ entry' \in [status : {"none", "warmup", "running", "done", "failed"},
                     unit : 0..Len(units'), count : 0..MaxWorkerRestarts]
      /\ entry'.unit > 0 /\ (step' # "watch" => Active' /\ entry'.count < MaxWorkerRestarts)
      /\ step' \in {"watch", "stopping", "starting"}
  BY <1>4, <1>5 DEF Check, Active, Local, TypeOK
<1>8. TypeOK' /\ Capped'
  BY <1>3, <1>4, <1>6, <1>7 DEF Check, Local, TypeOK, Capped
<1> QED BY <1>3, <1>8 DEF Local

LEMMA AwaitExitLocal ==
    ASSUME Local, AwaitExit
    PROVE  Local'
<1>1. UnitsSound' /\ units' \in Seq(Units)
  BY AwaitExitMoves, UnitsStaySound DEF AwaitExit
<1>2. Len(units') = Len(units)
  BY AwaitExitMoves, MovedUnits DEF Local, TypeOK
<1>3. faults' = faults /\ entry' = entry /\ step = "stopping" /\ step' = "starting"
  BY DEF AwaitExit
<1>4. TypeOK' /\ Capped'
  BY <1>1, <1>2, <1>3 DEF AwaitExit, Local, TypeOK, Capped, Active
<1> QED BY <1>1, <1>4 DEF Local

LEMMA ReplaceLocal ==
    ASSUME Local, Replace
    PROVE  Local'
<1>0. Hint \in MaybeNode /\ entry.count + 1 \in 0..MaxWorkerRestarts
  BY HintTyped DEF Replace
<1>1. CASE Created(entry.count + 1, Hint) \/ Adopted(entry.count + 1)
  <2>1. /\ UnitsSound' /\ units' \in Seq(Units)
        /\ entry' \in [status : {"none", "warmup", "running", "done", "failed"},
                       unit : 0..Len(units'), count : 0..MaxWorkerRestarts]
        /\ entry'.status = "warmup" /\ entry'.unit > 0 /\ faults' = faults
        /\ Len(units') \in Nat /\ Len(units') >= Len(units) /\ Len(units) \in Nat
    BY <1>0, <1>1, StartTyped DEF Replace, Local, TypeOK
  <2>2. TypeOK'
    BY <2>1 DEF Local, TypeOK, Replace, Active
  <2> QED BY <2>1, <2>2 DEF Local, Capped, Replace
<1>2. CASE Raises(entry.count + 1) /\ Enter("failed")
  <2>1. UNCHANGED units /\ faults' \in faults..MaxFaults
    BY <1>2, RaisesTyped
  <2>2. UnitsSound'
    BY <2>1, UnitsStaySound DEF Replace
  <2>3. TypeOK'
    BY <1>2, <2>1, SpawnersAssumption DEF Local, TypeOK, Replace, Active, Enter
  <2> QED BY <2>2, <2>3 DEF Local, Capped, Replace
<1> QED BY <1>1, <1>2 DEF Replace

LEMMA RuntimeLocal ==
    ASSUME Local, NEW i \in DOMAIN units, Runtime(i)
    PROVE  Local'
<1>1. PICK v : Moved(i, v)
  BY RuntimeMoves
<1>2. /\ kind' = kind /\ affinity' = affinity /\ entry' = entry /\ step' = step
      /\ forgot' = forgot /\ beat' = beat /\ completed' \in BOOLEAN
      /\ faults' \in 0..MaxFaults
  <2>1. faults \in Nat /\ MaxFaults \in Nat /\ faults <= MaxFaults /\ completed \in BOOLEAN
    BY SpawnersAssumption DEF Local, TypeOK
  <2>2. Alone /\ beat' = beat
    BY DEF Runtime, Schedule, Appear, Obey, Vanish, Exit
  <2>3. completed' \in {completed, TRUE}
    BY DEF Runtime, Schedule, Appear, Obey, Vanish, Exit
  <2>4. faults' = faults \/ Fault
    BY DEF Runtime, Schedule, Appear, Obey, Vanish, Exit
  <2>5. faults' \in 0..MaxFaults
    BY <2>1, <2>4 DEF Fault
  <2>6. completed' \in BOOLEAN
    BY <2>1, <2>3, Zenon
  <2> QED BY <2>2, <2>5, <2>6 DEF Alone
<1>3. UnitsSound' /\ units' \in Seq(Units)
  BY <1>1, <1>2, UnitsStaySound
<1>4. Len(units') = Len(units)
  BY <1>1, MovedUnits DEF Local, TypeOK
<1> QED BY <1>2, <1>3, <1>4 DEF Local, TypeOK, Capped, Active

LEMMA BeatLocal ==
    ASSUME Local, Beat \/ BeatExpires
    PROVE  Local'
<1>1. /\ UNCHANGED <<kind, affinity, units, entry, step, forgot, completed>>
      /\ faults' \in 0..MaxFaults /\ beat' \in BOOLEAN
  <2>1. faults \in Nat /\ MaxFaults \in Nat /\ faults <= MaxFaults
    BY SpawnersAssumption DEF Local, TypeOK
  <2>2. Alone /\ UNCHANGED <<units, completed>> /\ beat' \in BOOLEAN
    BY DEF Beat, BeatExpires
  <2>3. faults' = faults \/ Fault
    BY DEF Beat, BeatExpires
  <2> QED BY <2>1, <2>2, <2>3 DEF Alone, Fault
<1>2. UnitsSound'
  BY <1>1, UnitsStaySound
<1> QED BY <1>1, <1>2 DEF Local, TypeOK, Capped, Active

LEMMA NextLocal ==
    ASSUME Local, [Next]_vars
    PROVE  Local'
<1>1. CASE UNCHANGED vars
  BY <1>1 DEF vars, Local, TypeOK, Capped, UnitsSound, Sound, Over, Active
<1>2. CASE Next
  BY <1>2, SpawnLocal, ForgetLocal, CheckLocal, AwaitExitLocal, ReplaceLocal, RuntimeLocal,
     BeatLocal DEF Next
<1> QED BY <1>1, <1>2

\* Every variable of the spawners keeps its type, a restart goes on only below the
\* cap, and every unit stays sound: whatever fails and whenever it is asked.
THEOREM SpawnersTypes == Spec => []Local
<1>1. Init => Local
  BY InitLocal
<1>2. Local /\ [Next]_vars => Local'
  BY NextLocal
<1> QED BY <1>1, <1>2, PTL DEF Spec

\* An answer that is late or missing never condemns a worker: except under Docker,
\* a proxy has a return code only once its unit is over or its object is gone for
\* good, for any number of failed calls, units and restarts of the orchestrator.
THEOREM SpawnersCodeIsEarned == Spec => []CodeIsEarned
<1>1. Local => CodeIsEarned
  BY DEF Local, UnitsSound, Sound, CodeIsEarned
<1> QED BY <1>1, SpawnersTypes, PTL

-----------------------------------------------------------------------------
(* One owner *)

\* A step that changes at most one unit, and neither the number nor the unit of
\* the entry, keeps the numbering.
LEMMA SameEntryNumbered ==
    ASSUME Local, Numbered, kind' = kind, forgot' = forgot,
           faults' \in Nat, faults' >= faults,
           entry'.unit = entry.unit, entry'.count = entry.count,
           entry'.status = "none" <=> entry.status = "none",
           UNCHANGED units \/ \E i : \E v : Moved(i, v)
    PROVE  Numbered'
<1>1. units \in Seq(Units) /\ faults \in Nat /\ forgot \in Nat /\ DOMAIN units = 1..Len(units)
  BY DEF Local, TypeOK
<1>2. /\ Len(units') = Len(units) /\ DOMAIN units' = DOMAIN units
      /\ \A j \in DOMAIN units : units'[j].name = units[j].name
  <2>1. CASE UNCHANGED units
    BY <2>1
  <2>2. CASE \E i : \E v : Moved(i, v)
    <3>1. PICK i, v : Moved(i, v)
      BY <2>2
    <3> QED BY <1>1, <3>1, MovedUnits DEF Moved, Fine, Evolves
  <2> QED BY <2>1, <2>2
<1> QED BY <1>1, <1>2 DEF Numbered

\* The same for the ownership, where a restart that begins or goes on has told
\* the unit to leave, or is one failed call further.
LEMMA SameEntryOwned ==
    ASSUME Local, Numbered, Owned, kind' = kind, forgot' = forgot,
           faults' \in Nat, faults' >= faults,
           entry'.unit = entry.unit, entry.status # "none",
           UNCHANGED units \/ \E i : \E v : Moved(i, v),
           step' # "watch" => \/ step # "watch" \/ faults' > faults
                              \/ Leaving(units'[entry.unit])
    PROVE  Owned'
<1>1. units \in Seq(Units) /\ faults \in Nat /\ forgot \in Nat /\ DOMAIN units = 1..Len(units)
      /\ entry.unit \in DOMAIN units
  BY DEF Local, TypeOK
<1>2. /\ DOMAIN units' = DOMAIN units
      /\ \A j \in DOMAIN units : Leaving(units[j]) => Leaving(units'[j])
  <2>1. CASE UNCHANGED units
    BY <2>1
  <2>2. CASE \E i : \E v : Moved(i, v)
    <3>1. PICK i, v : Moved(i, v)
      BY <2>2
    <3> QED BY <1>1, <3>1, MovedUnits DEF Moved, Fine, Evolves
  <2> QED BY <2>1, <2>2
<1>3. ASSUME Clean'
      PROVE  Clean /\ faults' = faults
  BY <1>1, <1>3 DEF Clean, Numbered
<1>4. ASSUME Clean'
      PROVE  /\ \A j \in DOMAIN units' : j # entry'.unit => Leaving(units'[j])
             /\ step' # "watch" => Leaving(units'[entry'.unit])
  BY <1>1, <1>2, <1>3, <1>4 DEF Owned
<1>5. Clean' => /\ \A j \in DOMAIN units' : j # entry'.unit => Leaving(units[j])'
                /\ step' # "watch" => Leaving(units[entry.unit])'
  BY <1>4 DEF Leaving, Over
<1> QED BY <1>5 DEF Owned

Registered == Local /\ Numbered /\ Owned

LEMMA NamesTyped ==
    ASSUME Local
    PROVE  \A i \in DOMAIN units : units[i].name \in Nat
<1> SUFFICES ASSUME NEW i \in DOMAIN units
             PROVE  units[i].name \in Nat
  OBVIOUS
<1>1. units[i] \in Units
  BY DEF Local, TypeOK
<1>2. units[i].name \in 0..MaxWorkerRestarts
  BY <1>1 DEF Units
<1> QED BY <1>2

LEMMA StoppedContainerListed ==
    ASSUME Local, kind = "docker", NEW count, Holders(count) = {}
    PROVE  Len(units) = 0
<1>1. DOMAIN units = 1..Len(units) /\ Len(units) \in Nat
  BY DEF Local, TypeOK
<1>2. \A i \in DOMAIN units : i \in Holders(count)
  BY DEF Holders, Local, UnitsSound, Sound
<1> QED BY <1>1, <1>2

LEMMA CreatedOwned ==
    ASSUME Registered, NEW count \in 0..MaxWorkerRestarts, NEW hint \in MaybeNode,
           Created(count, hint), kind' = kind, forgot' = forgot, step' = "watch",
           forgot = 0 => count <= Len(units),
           forgot <= 1 => \A i \in DOMAIN units : units[i].name <= count,
           Clean => \A i \in DOMAIN units : Leaving(units[i])
    PROVE  Numbered' /\ Owned'
<1>1. /\ units' \in Seq(Units) /\ Len(units') = Len(units) + 1 /\ Len(units) \in Nat
      /\ DOMAIN units' = 1..(Len(units) + 1) /\ DOMAIN units = 1..Len(units)
      /\ units'[Len(units) + 1] = Unit(count, hint)
      /\ \A j \in 1..Len(units) : units'[j] = units[j]
  BY CreatedUnits DEF Registered
<1>2. /\ entry' = [status |-> "warmup", unit |-> Len(units) + 1, count |-> count]
      /\ faults' = faults
  BY DEF Created
<1>3. units'[Len(units) + 1].name = count
  BY <1>1 DEF Unit
<1>4. faults \in Nat /\ forgot \in Nat /\ count \in Nat
  BY SpawnersAssumption DEF Registered, Local, TypeOK
<1>5. kind = "docker" => Len(units) = 0
  BY StoppedContainerListed DEF Registered, Created
<1>6. \A j \in DOMAIN units' : j \in DOMAIN units \/ j = Len(units) + 1
  BY <1>1
<1>7. forgot = 0 => \A j \in DOMAIN units' : units'[j].name < j
  <2>1. forgot = 0 => \A j \in DOMAIN units : units'[j].name < j
    BY <1>1 DEF Registered, Numbered
  <2>2. forgot = 0 => count < Len(units) + 1
    BY <1>1, <1>4
  <2> QED BY <1>3, <1>6, <2>1, <2>2
<1>8. forgot <= 1 => \A j \in DOMAIN units' : units'[j].name <= count
  BY <1>1, <1>3, <1>4, <1>6
<1>9. Numbered'
  BY <1>1, <1>2, <1>4, <1>5, <1>7, <1>8 DEF Numbered, Registered
<1>10. Clean' => Clean
  BY <1>2 DEF Clean
<1>11. Clean' => \A j \in DOMAIN units' : j # entry'.unit => Leaving(units'[j])
  BY <1>1, <1>2, <1>6, <1>10
<1>12. Owned'
  BY <1>11 DEF Owned, Leaving, Over
<1> QED BY <1>9, <1>12

LEMMA SpawnOwned ==
    ASSUME Registered, Spawn
    PROVE  Numbered' /\ Owned'
<1>1. /\ kind' = kind /\ forgot' = forgot /\ step' = "watch" /\ Len(units) \in Nat
      /\ DOMAIN units = 1..Len(units) /\ faults \in Nat /\ forgot \in Nat /\ entry.status = "none"
  BY DEF Spawn, Registered, Local, TypeOK, Active
<1>2. CASE Created(0, NoNode)
  <2>1. 0 \in 0..MaxWorkerRestarts /\ NoNode \in MaybeNode
    BY SpawnersAssumption DEF MaybeNode
  <2>2. forgot <= 1 => \A i \in DOMAIN units : units[i].name <= 0
    <3>1. forgot = 0 => DOMAIN units = {}
      BY <1>1 DEF Registered, Numbered
    <3>2. forgot = 1 => \A i \in DOMAIN units : units[i].name <= 0
      BY <1>1 DEF Registered, Numbered
    <3> QED BY <1>1, <3>1, <3>2
  <2>3. Clean => \A i \in DOMAIN units : Leaving(units[i])
    <3> SUFFICES ASSUME Clean, NEW i \in DOMAIN units
                 PROVE  Leaving(units[i])
      OBVIOUS
    <3>1. forgot # 0
      BY <1>1 DEF Registered, Numbered
    <3>2. CASE kind = "docker"
      BY <1>1, <1>2, <3>2, StoppedContainerListed DEF Registered, Created
    <3>3. CASE kind = "k8s" /\ forgot = 1
      <4>1. units[i].name = 0
        BY <2>2, <3>3, NamesTyped DEF Registered
      <4>2. ~units[i].listed
        BY <1>2, <3>3, <4>1 DEF Created, Holders
      <4> QED BY <3>3, <4>2 DEF Registered, Local, UnitsSound, Sound, Leaving
    <3> QED BY <1>1, <3>1, <3>2, <3>3 DEF Clean
  <2> QED BY <1>1, <1>2, <2>1, <2>2, <2>3, CreatedOwned
<1>3. CASE Adopted(0)
  <2>1. 0 \in 0..MaxWorkerRestarts
    BY SpawnersAssumption
  <2>2. PICK i \in Holders(0) : \E v :
              /\ Moved(i, v) /\ v.rc = NoCode
              /\ entry' = [status |-> "warmup", unit |-> i, count |-> 0]
    BY <1>3, <2>1, AdoptedMoves DEF Registered
  <2>3. PICK v : Moved(i, v) /\ entry' = [status |-> "warmup", unit |-> i, count |-> 0]
    BY <2>2
  <2>4. kind = "k8s" /\ faults' = faults
    BY <1>3 DEF Adopted
  <2>5. /\ Len(units') = Len(units) /\ DOMAIN units' = DOMAIN units /\ i \in DOMAIN units
        /\ \A j \in DOMAIN units : units'[j].name = units[j].name
    BY <2>3, MovedUnits DEF Registered, Local, TypeOK, Moved, Fine, Evolves
  <2>6. forgot # 0
    BY <1>1, <2>5 DEF Registered, Numbered
  <2>7. forgot = 1 => Len(units) = 1 /\ \A j \in DOMAIN units : units[j].name <= 0
    BY <1>1 DEF Registered, Numbered
  <2>8. Numbered'
    BY <1>1, <2>3, <2>4, <2>5, <2>6, <2>7 DEF Numbered, Registered
  <2>9. Clean' => forgot = 1
    BY <1>1, <2>4, <2>6 DEF Clean
  <2>10. Owned'
    BY <1>1, <2>3, <2>5, <2>7, <2>9 DEF Owned
  <2> QED BY <2>8, <2>10
<1>4. CASE Raises(0) /\ UNCHANGED entry
  <2>1. UNCHANGED units /\ faults' \in Nat /\ faults' >= faults
    BY <1>1, <1>4, RaisesTyped, SpawnersAssumption DEF Registered
  <2>2. Numbered'
    BY <1>1, <1>4, <2>1, SameEntryNumbered DEF Registered
  <2>3. Owned'
    BY <1>1, <1>4 DEF Owned
  <2> QED BY <2>2, <2>3
<1> QED BY <1>2, <1>3, <1>4 DEF Spawn

LEMMA ForgetOwned ==
    ASSUME Registered, Forget
    PROVE  Numbered' /\ Owned'
<1>1. /\ Len(units) \in Nat /\ DOMAIN units = 1..Len(units) /\ faults \in Nat /\ entry.unit > 0
      /\ entry.unit <= Len(units) /\ entry.unit \in Nat
      /\ \A i \in DOMAIN units : units[i].name \in Nat
  BY NamesTyped DEF Forget, Registered, Local, TypeOK, Active
<1>2. /\ kind' = kind /\ units' = units /\ forgot' = Len(units) /\ faults' = faults + 1
      /\ entry' = NoEntry /\ forgot = 0
  BY DEF Forget, Fault
<1>3. forgot' > 0 /\ faults' > 0
  BY <1>1, <1>2
<1>4. Len(units) = 1 => \A i \in DOMAIN units : units[i].name <= 0
  BY <1>1, <1>2 DEF Registered, Numbered
<1>5. forgot' <= 1 => Len(units) = 1
  BY <1>1, <1>2, <1>3
<1>6. Numbered'
  BY <1>1, <1>2, <1>3, <1>4, <1>5 DEF Numbered, Registered, NoEntry
<1>7. Owned'
  BY <1>2 DEF Owned, NoEntry
<1> QED BY <1>6, <1>7

LEMMA CheckOwned ==
    ASSUME Registered, Check
    PROVE  Numbered' /\ Owned'
<1>1. PICK v : Checked(v)
  BY CheckChecked DEF Registered
<1>2. /\ Moved(entry.unit, v) /\ entry.status # "none" /\ step = "watch"
      /\ kind' = kind /\ forgot' = forgot /\ faults \in Nat /\ MaxFaults \in Nat
  BY <1>1, SpawnersAssumption DEF Checked, Moved, Check, Active, Registered, Local, TypeOK
<1>3. faults' \in Nat /\ faults' >= faults
  BY <1>1, <1>2 DEF Checked
<1>4. entry'.unit = entry.unit /\ entry'.count = entry.count /\ entry'.status # "none"
  BY <1>1, <1>2 DEF Checked, Registered, Local, TypeOK
<1>5. units'[entry.unit] = v
  BY <1>2, MovedUnits DEF Registered, Local, TypeOK
<1>6. step' # "watch" => v.told \/ faults' > faults
  BY <1>1, <1>2 DEF Checked
<1>7. Numbered'
  BY <1>2, <1>3, <1>4, SameEntryNumbered DEF Registered
<1>8. Owned'
  BY <1>2, <1>3, <1>4, <1>5, <1>6, SameEntryOwned DEF Registered, Leaving
<1> QED BY <1>7, <1>8

LEMMA AwaitExitOwned ==
    ASSUME Registered, AwaitExit
    PROVE  Numbered' /\ Owned'
<1>1. UNCHANGED units \/ \E i : \E v : Moved(i, v)
  BY AwaitExitMoves DEF Registered
<1>2. /\ kind' = kind /\ forgot' = forgot /\ faults' = faults /\ entry' = entry
      /\ step # "watch" /\ entry.status # "none" /\ faults \in Nat
  BY DEF AwaitExit, Registered, Local, TypeOK, Active
<1>3. Numbered'
  BY <1>1, <1>2, SameEntryNumbered DEF Registered
<1>4. Owned'
  BY <1>1, <1>2, SameEntryOwned DEF Registered
<1> QED BY <1>3, <1>4

LEMMA NoNamesakeAhead ==
    ASSUME Registered, forgot <= 1
    PROVE  ~Adopted(entry.count + 1)
<1>1. \A i \in DOMAIN units : units[i].name <= entry.count /\ units[i].name \in Nat
  BY NamesTyped DEF Registered, Numbered
<1>2. entry.count \in Nat
  BY SpawnersAssumption DEF Registered, Local, TypeOK
<1>3. \A i \in DOMAIN units : units[i].name # entry.count + 1
  BY <1>1, <1>2
<1> QED BY <1>3 DEF Adopted, Holders

LEMMA ReplaceOwned ==
    ASSUME Registered, Replace
    PROVE  Numbered' /\ Owned'
<1>1. /\ kind' = kind /\ forgot' = forgot /\ step' = "watch" /\ Len(units) \in Nat
      /\ DOMAIN units = 1..Len(units) /\ faults \in Nat /\ forgot \in Nat
      /\ entry.status # "none" /\ entry.count \in Nat /\ step # "watch"
  BY SpawnersAssumption DEF Replace, Registered, Local, TypeOK, Active
<1>2. Hint \in MaybeNode /\ entry.count + 1 \in 0..MaxWorkerRestarts
  BY HintTyped DEF Replace, Registered
<1>3. CASE Created(entry.count + 1, Hint)
  <2>1. forgot = 0 => entry.count + 1 <= Len(units)
    BY <1>1 DEF Registered, Numbered
  <2>2. forgot <= 1 => \A i \in DOMAIN units : units[i].name <= entry.count + 1
    BY <1>1, NamesTyped DEF Registered, Numbered
  <2>3. Clean => \A i \in DOMAIN units : Leaving(units[i])
    BY <1>1 DEF Registered, Owned
  <2> QED BY <1>1, <1>2, <1>3, <2>1, <2>2, <2>3, CreatedOwned
<1>4. CASE Adopted(entry.count + 1)
  <2>1. forgot > 1
    BY <1>1, <1>4, NoNamesakeAhead
  <2>2. PICK i, v :
              /\ Moved(i, v)
              /\ entry' = [status |-> "warmup", unit |-> i, count |-> entry.count + 1]
    BY <1>2, <1>4, AdoptedMoves DEF Registered
  <2>3. Len(units') = Len(units)
    BY <2>2, MovedUnits DEF Registered, Local, TypeOK
  <2>4. kind = "k8s" /\ faults' = faults
    BY <1>4 DEF Adopted
  <2>5. Numbered'
    BY <1>1, <2>1, <2>2, <2>3, <2>4 DEF Registered, Numbered
  <2>6. ~Clean'
    BY <1>1, <2>1, <2>4 DEF Clean
  <2> QED BY <2>5, <2>6 DEF Owned
<1>5. CASE Raises(entry.count + 1) /\ Enter("failed")
  <2>1. UNCHANGED units /\ faults' \in Nat /\ faults' >= faults
    BY <1>1, <1>5, RaisesTyped, SpawnersAssumption DEF Registered
  <2>2. entry'.unit = entry.unit /\ entry'.count = entry.count /\ entry'.status # "none"
    BY <1>5 DEF Enter, Registered, Local, TypeOK
  <2>3. Numbered'
    BY <1>1, <2>1, <2>2, SameEntryNumbered DEF Registered
  <2>4. Owned'
    BY <1>1, <2>1, <2>2, SameEntryOwned DEF Registered
  <2> QED BY <2>3, <2>4
<1> QED BY <1>3, <1>4, <1>5 DEF Replace

LEMMA AloneOwned ==
    ASSUME Registered, Alone, faults' = faults \/ Fault,
           UNCHANGED units \/ \E i : \E v : Moved(i, v)
    PROVE  Numbered' /\ Owned'
<1>1. /\ kind' = kind /\ forgot' = forgot /\ entry' = entry /\ step' = step
      /\ faults \in Nat /\ faults' \in Nat /\ faults' >= faults
  BY DEF Alone, Fault, Registered, Local, TypeOK
<1>2. Numbered'
  BY <1>1, SameEntryNumbered DEF Registered
<1>3. CASE entry.status = "none"
  BY <1>1, <1>2, <1>3 DEF Owned
<1>4. CASE entry.status # "none"
  BY <1>1, <1>2, <1>4, SameEntryOwned DEF Registered
<1> QED BY <1>3, <1>4

LEMMA RuntimeAlone ==
    ASSUME NEW i, Runtime(i)
    PROVE  Alone /\ (faults' = faults \/ Fault)
BY DEF Runtime, Schedule, Appear, Obey, Vanish, Exit

LEMMA BeatAlone ==
    ASSUME Beat \/ BeatExpires
    PROVE  Alone /\ (faults' = faults \/ Fault) /\ UNCHANGED units
BY DEF Beat, BeatExpires

LEMMA NextRegistered ==
    ASSUME Registered, [Next]_vars
    PROVE  Registered'
<1>1. Local'
  BY NextLocal DEF Registered
<1>2. CASE UNCHANGED vars
  BY <1>1, <1>2 DEF vars, Registered, Numbered, Owned, Clean, Leaving, Over
<1>3. CASE \E i \in DOMAIN units : Runtime(i)
  <2>1. PICK i \in DOMAIN units : Runtime(i)
    BY <1>3
  <2>2. \E v : Moved(i, v)
    BY <2>1, RuntimeMoves DEF Registered
  <2> QED BY <1>1, <2>1, <2>2, RuntimeAlone, AloneOwned DEF Registered
<1>4. CASE Beat \/ BeatExpires
  BY <1>1, <1>4, BeatAlone, AloneOwned DEF Registered
<1>5. CASE Spawn \/ Forget \/ Check \/ AwaitExit \/ Replace
  BY <1>1, <1>5, SpawnOwned, ForgetOwned, CheckOwned, AwaitExitOwned, ReplaceOwned DEF Registered
<1> QED BY <1>2, <1>3, <1>4, <1>5 DEF Next

LEMMA InitRegistered ==
    ASSUME Init
    PROVE  Registered
<1>1. Local
  BY InitLocal
<1>2. Numbered /\ Owned
  BY DEF Init, Numbered, Owned, NoEntry
<1> QED BY <1>1, <1>2 DEF Registered

\* What the names, the order and the stopping of the units say about the registry
\* entry, for every cap, any number of faults and a restart of the orchestrator.
THEOREM SpawnersRegistered == Spec => []Registered
<1>1. Init => Registered
  BY InitRegistered
<1>2. Registered /\ [Next]_vars => Registered'
  BY NextRegistered
<1> QED BY <1>1, <1>2, PTL DEF Spec

\* One owner of the bug: with no call to a runtime failing, every worker but the
\* registered one is over or on its way out, and a restarted orchestrator keeps
\* this for containers and for a first Job.
THEOREM SpawnersOneOwner == Spec => []OneOwner
<1>1. Registered => OneOwner
  BY DEF Registered, Owned, Clean, OneOwner, Leaving
<1> QED BY <1>1, SpawnersRegistered, PTL

-----------------------------------------------------------------------------
(* A restarted Job goes back to its node *)

\* The deployments and executions SteeredBack is about.
Guided == kind = "k8s" /\ affinity # "off" /\ faults = 0

\* Before a Job is registered there is none, and then it is the latest one.
LEMMA GuidedFacts ==
    ASSUME Registered, Guided
    PROVE  /\ forgot = 0 /\ Clean /\ Len(units) \in Nat /\ DOMAIN units = 1..Len(units)
           /\ entry.status = "none" => Len(units) = 0
           /\ entry.status # "none" => entry.unit = Len(units)
           /\ \A i \in 2..Len(units) : Leaving(units[i - 1])
           /\ step # "watch" => Leaving(units[entry.unit]) /\ entry.status # "none"
<1>1. /\ Len(units) \in Nat /\ DOMAIN units = 1..Len(units) /\ forgot \in Nat
      /\ step # "watch" => entry.status # "none"
  BY DEF Registered, Local, TypeOK, Active
<1>2. forgot = 0 /\ Clean
  BY <1>1 DEF Registered, Numbered, Guided, Clean
<1>3. /\ entry.status = "none" => Len(units) = 0
      /\ entry.status # "none" => entry.unit = Len(units)
  BY <1>2 DEF Registered, Numbered
<1>4. \A i \in 2..Len(units) : i - 1 \in DOMAIN units /\ i - 1 # Len(units)
  BY <1>1
<1>5. entry.status # "none" => \A i \in 2..Len(units) : Leaving(units[i - 1])
  BY <1>2, <1>3, <1>4 DEF Registered, Owned
<1>6. \A i \in 2..Len(units) : Leaving(units[i - 1])
  BY <1>1, <1>3, <1>5
<1> QED BY <1>1, <1>2, <1>3, <1>6 DEF Registered, Owned

\* One unit changes, the look-ups of none are taken back, and none but the last
\* is looked up again.
LEMMA MovedResumes ==
    ASSUME Registered, Guided, Steered, NEW i, NEW v, Moved(i, v),
           v.lookups = units[i].lookups \/ i = Len(units), affinity' = affinity
    PROVE  \A j \in 2..Len(units') : Resumes(j, j - 1)'
<1>1. /\ Len(units') = Len(units) /\ Len(units) \in Nat /\ i \in 1..Len(units)
      /\ \A j \in 1..Len(units) : units'[j] = IF j = i THEN v ELSE units[j]
  BY MovedUnits DEF Registered, Local, TypeOK
<1> SUFFICES ASSUME NEW j \in 2..Len(units)
             PROVE  Resumes(j, j - 1)'
  BY <1>1
<1>2. j \in 1..Len(units) /\ j - 1 \in 1..Len(units) /\ j - 1 # Len(units) /\ j # j - 1
  BY <1>1
<1>3. Resumes(j, j - 1) /\ Leaving(units[j - 1])
  BY GuidedFacts DEF Steered, Guided
<1>4. Evolves(units[i], v)
  BY DEF Moved, Fine
<1>5. units'[j - 1].node = units[j - 1].node /\ units'[j - 1].lookups = units[j - 1].lookups
  BY <1>1, <1>2, <1>3, <1>4 DEF Evolves
<1>6. /\ units'[j].hint = units[j].hint
      /\ \/ units'[j].node = units[j].node
         \/ units[j].hint = NoNode \/ affinity # "required" \/ units'[j].node = units[j].hint
  BY <1>1, <1>2, <1>4 DEF Evolves
<1> QED BY <1>3, <1>5, <1>6 DEF Resumes

LEMMA CheckSteered ==
    ASSUME Registered, Steered, Guided, faults' = 0, Check
    PROVE  Steered'
<1>1. PICK v : Checked(v)
  BY CheckChecked DEF Registered
<1>2. /\ Moved(entry.unit, v) /\ step = "watch" /\ Active /\ affinity' = affinity
      /\ entry.status # "none"
  BY <1>1 DEF Checked, Moved, Check, Active, Registered, Local, TypeOK
<1>3. units[entry.unit].rc = NoCode
  BY <1>2 DEF Steered, Guided
<1>4. entry'.unit = entry.unit /\ units'[entry.unit] = v
  BY <1>1, <1>2, MovedUnits DEF Checked, Registered, Local, TypeOK
<1>5. Active' /\ step' = "watch" => v.rc = NoCode
  BY <1>1, <1>2 DEF Checked, Active, Registered, Local, TypeOK
<1>6. step' # "watch" => Known(v)
  BY <1>1, <1>2, <1>3 DEF Checked, Guided
<1>7. \A j \in 2..Len(units') : Resumes(j, j - 1)'
  BY <1>2, GuidedFacts, MovedResumes
<1> QED BY <1>4, <1>5, <1>6, <1>7 DEF Steered, Known

LEMMA RuntimeSteered ==
    ASSUME Registered, Steered, Guided, NEW i \in DOMAIN units, Runtime(i)
    PROVE  Steered'
<1>1. PICK v : Moved(i, v) /\ v.seen = units[i].seen /\ v.lookups = units[i].lookups
                          /\ v.rc = units[i].rc
  BY RuntimeMoves DEF Registered
<1>2. entry' = entry /\ step' = step /\ affinity' = affinity
  BY RuntimeAlone DEF Alone
<1>3. \A j \in 2..Len(units') : Resumes(j, j - 1)'
  BY <1>1, <1>2, MovedResumes
<1>4. \A j \in DOMAIN units : /\ units'[j].rc = units[j].rc /\ units'[j].seen = units[j].seen
                              /\ units'[j].lookups = units[j].lookups
                              /\ Leaving(units[j]) => units'[j].node = units[j].node
  BY <1>1, MovedUnits DEF Registered, Local, TypeOK, Moved, Fine, Evolves
<1>5. entry.status # "none" => entry.unit \in DOMAIN units
  BY DEF Registered, Local, TypeOK
<1>6. Active' /\ step' = "watch" => units'[entry'.unit].rc = NoCode
  BY <1>2, <1>4, <1>5 DEF Active, Steered, Guided
<1>7. step' # "watch" => Known(units'[entry'.unit])
  BY <1>2, <1>4, <1>5, GuidedFacts DEF Steered, Guided, Known
<1> QED BY <1>3, <1>6, <1>7 DEF Steered, Known

LEMMA AwaitExitSteered ==
    ASSUME Registered, Steered, Guided, AwaitExit
    PROVE  Steered'
<1>1. /\ entry' = entry /\ step' = "starting" /\ step # "watch" /\ affinity' = affinity
  BY DEF AwaitExit
<1>2. CASE UNCHANGED units
  BY <1>1, <1>2 DEF Steered, Guided, Resumes, Known
<1>3. ASSUME NEW v, Moved(entry.unit, v), v.seen = units[entry.unit].seen,
             v.lookups = units[entry.unit].lookups
      PROVE  Steered'
  <2>1. \A j \in 2..Len(units') : Resumes(j, j - 1)'
    BY <1>1, <1>3, MovedResumes
  <2>2. v.node = units[entry.unit].node
    BY <1>1, <1>3, GuidedFacts DEF Moved, Fine, Evolves
  <2>3. units'[entry.unit] = v
    BY <1>3, MovedUnits DEF Registered, Local, TypeOK
  <2>4. Known(units'[entry.unit])
    BY <1>1, <1>3, <2>2, <2>3 DEF Steered, Guided, Known
  <2> QED BY <1>1, <2>1, <2>4 DEF Steered, Known
<1> QED BY <1>2, <1>3, AwaitExitMoves DEF Registered

LEMMA ReplaceSteered ==
    ASSUME Registered, Steered, Guided, faults' = 0, Replace
    PROVE  Steered'
<1>1. /\ step' = "watch" /\ step # "watch" /\ affinity' = affinity /\ faults = 0
      /\ step = "starting" /\ kind = "k8s" /\ affinity # "off"
  BY DEF Replace, Guided
<1>2. Hint \in MaybeNode /\ entry.count + 1 \in 0..MaxWorkerRestarts
  BY <1>1, HintTyped DEF Registered
<1>3. /\ forgot = 0 /\ entry.unit = Len(units) /\ Len(units) \in Nat
      /\ Known(units[entry.unit])
  BY <1>1, GuidedFacts DEF Steered, Guided
<1>4. ~Adopted(entry.count + 1)
  BY <1>3, NoNamesakeAhead
<1>5. ~Raises(entry.count + 1)
  BY <1>1 DEF Raises, Fault
<1>6. Created(entry.count + 1, Hint)
  BY <1>4, <1>5 DEF Replace
<1>7. /\ Len(units') = Len(units) + 1
      /\ units'[Len(units) + 1] = Unit(entry.count + 1, Hint)
      /\ \A j \in 1..Len(units) : units'[j] = units[j]
  BY <1>2, <1>6, CreatedUnits DEF Registered
<1>8. entry'.unit = Len(units) + 1
  BY <1>6 DEF Created
<1>9. ASSUME NEW j \in 2..Len(units')
      PROVE  Resumes(j, j - 1)'
  <2>1. CASE j = Len(units) + 1
    <3>1. units'[j].hint = units[entry.unit].seen /\ units'[j].node = NoNode
      BY <1>1, <1>7, <2>1 DEF Unit, Hint
    <3>2. j - 1 = entry.unit /\ units'[j - 1] = units[entry.unit]
      BY <1>3, <1>7, <1>9, <2>1
    <3> QED BY <1>3, <3>1, <3>2 DEF Known, Resumes
  <2>2. CASE j # Len(units) + 1
    <3>1. j \in 2..Len(units) /\ j \in 1..Len(units) /\ j - 1 \in 1..Len(units)
      BY <1>3, <1>7, <1>9, <2>2
    <3>2. units'[j] = units[j] /\ units'[j - 1] = units[j - 1] /\ Resumes(j, j - 1)
      BY <1>7, <3>1 DEF Steered, Guided
    <3> QED BY <1>1, <3>2 DEF Resumes
  <2> QED BY <2>1, <2>2
<1>10. units'[entry'.unit].rc = NoCode
  BY <1>7, <1>8 DEF Unit
<1> QED BY <1>1, <1>9, <1>10 DEF Steered

LEMMA SpawnSteered ==
    ASSUME Registered, Steered, Guided, faults' = 0, Spawn
    PROVE  Steered'
<1>1. /\ Len(units) = 0 /\ DOMAIN units = 1..Len(units) /\ step' = "watch" /\ entry.status = "none"
      /\ faults = 0 /\ kind = "k8s"
  BY GuidedFacts DEF Spawn, Registered, Local, TypeOK, Active, Guided
<1>2. ~Adopted(0) /\ ~Raises(0)
  BY <1>1 DEF Adopted, Holders, Raises, Fault
<1>3. Created(0, NoNode)
  BY <1>2 DEF Spawn
<1>4. 0 \in 0..MaxWorkerRestarts /\ NoNode \in MaybeNode
  BY SpawnersAssumption DEF MaybeNode
<1>5. Len(units') = 1 /\ units'[1] = Unit(0, NoNode)
  BY <1>1, <1>3, <1>4, CreatedUnits DEF Registered
<1>6. entry'.unit = 1 /\ units'[1].rc = NoCode
  BY <1>1, <1>3, <1>5 DEF Created, Unit
<1>7. \A j \in 2..Len(units') : Resumes(j, j - 1)'
  BY <1>5
<1> QED BY <1>1, <1>6, <1>7 DEF Steered

LEMMA NextSteered ==
    ASSUME Registered, Steered, [Next]_vars
    PROVE  Steered'
<1>1. CASE UNCHANGED vars
  BY <1>1 DEF vars, Steered, Resumes, Known, Active
<1>2. CASE Next /\ ~Guided'
  BY <1>2 DEF Steered, Guided
<1>3. CASE Next /\ Guided'
  <2>1. Guided
    <3>1. kind' = kind /\ affinity' = affinity
      BY <1>3 DEF Next, Spawn, Forget, Check, AwaitExit, Replace, Beat, BeatExpires, Runtime,
         Schedule, Appear, Obey, Vanish, Exit, Alone
    <3>2. faults \in Nat /\ faults' >= faults
      <4>1. faults \in Nat
        BY DEF Registered, Local, TypeOK
      <4>2. CASE Check
        <5>1. PICK v : Checked(v)
          BY <4>2, CheckChecked DEF Registered
        <5> QED BY <4>1, <5>1 DEF Checked
      <4>3. CASE ~Check
        <5>1. faults' = faults \/ Fault
          BY <1>3, <4>3, RuntimeAlone, BeatAlone
             DEF Next, Spawn, Forget, AwaitExit, Replace, Created, Adopted, Raises
        <5> QED BY <4>1, <5>1 DEF Fault
      <4> QED BY <4>1, <4>2, <4>3
    <3> QED BY <1>3, <3>1, <3>2 DEF Guided
  <2>2. faults' = 0 /\ faults = 0
    BY <1>3, <2>1 DEF Guided
  <2>3. CASE Forget
    BY <2>2, <2>3 DEF Forget, Fault
  <2>4. CASE Beat \/ BeatExpires
    <3>1. UNCHANGED <<kind, affinity, units, entry, step>>
      BY <2>4, BeatAlone DEF Alone
    <3> QED BY <2>2, <3>1 DEF Steered, Resumes, Known, Active
  <2> QED BY <1>3, <2>1, <2>2, <2>3, <2>4, SpawnSteered, CheckSteered, AwaitExitSteered,
             ReplaceSteered, RuntimeSteered DEF Next
<1> QED BY <1>1, <1>2, <1>3

LEMMA InitSteered ==
    ASSUME Init
    PROVE  Steered
BY DEF Init, Steered, NoEntry, Active

\* "ORDER MATTERS": with no failed call, a restarted Job asks for the node its
\* predecessor was placed on, and gets it where that is required, unless the
\* look-ups were used up before the predecessor was placed; for every cluster, cap
\* on the restarts and cap on the look-ups.
THEOREM SpawnersSteeredBack == Spec => []SteeredBack
<1>1. Init => Registered /\ Steered
  BY InitRegistered, InitSteered
<1>2. (Registered /\ Steered) /\ [Next]_vars => (Registered /\ Steered)'
  BY NextRegistered, NextSteered
<1>3. Steered => SteeredBack
  BY DEF Steered, SteeredBack, Resumes
<1> QED BY <1>1, <1>2, <1>3, PTL DEF Spec

=============================================================================
