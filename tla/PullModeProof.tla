---------------------------- MODULE PullModeProof ----------------------------
(***************************************************************************)
(* Theorems about PullMode, for any number of daemons, jobs, slots and     *)
(* failures.                                                               *)
(***************************************************************************)
EXTENDS PullMode, FiniteSetTheorems, TLAPS

-----------------------------------------------------------------------------
(* The inductive invariant *)

Recovering == mon.at = "recover"
Retrying   == mon.at \in {"claim", "retry"}

New(s, j) == streams[s].new[j]
Pel(s, j) == streams[s].pel[j]

\* The monitor has entries in hand in the phases that dispatch them, and those of
\* the pending and the rejected stream, which nobody else reads, are unacknowledged.
\* A daemon has a job in hand exactly between reading its entry and the XACK.
Bookkeeping ==
  /\ mon.sent # NoJob => (Recovering \/ Retrying) /\ mon.batch[mon.sent] > 0
  /\ mon.at \in {"recover", "forget"} => mon.d \in Daemons
  /\ mon.at \in {"idle", "scan", "forget"} => mon.batch = NoEntries
  /\ Retrying => \A j \in Jobs : mon.batch[j] <= Pel(mon.s, j)
  /\ \A d \in Daemons : dpc[d] \in {"got", "spawned", "rejected"} <=> hand[d] # NoJob

Local == TypeOK /\ Bookkeeping

\* The stream whose entry the monitor has sent on and not acknowledged.
Source == IF Recovering THEN mon.d ELSE mon.s

\* 1 for an entry of j that the monitor is about to acknowledge,
Claimed(s, j) == IF mon.sent = j /\ s = Source THEN 1 ELSE 0

\* 1 for one that its daemon is about to acknowledge,
Handled(s, j) ==
  IF s \in Daemons
  THEN IF dpc[s] \in {"spawned", "rejected"} /\ hand[s] = j THEN 1 ELSE 0
  ELSE 0

\* 1 for one that its daemon has read and not decided about.
Held(s, j) ==
  IF s \in Daemons THEN IF dpc[s] = "got" /\ hand[s] = j THEN 1 ELSE 0 ELSE 0

\* A job the orchestrator has not been told of is in no stream and in no hand.
Absent(j) ==
  /\ \A s \in Streams : New(s, j) = 0 /\ Pel(s, j) = 0
  /\ mon.batch[j] = 0 /\ mon.sent # j
  /\ \A d \in Daemons : hand[d] # j
  /\ started[j] = 0

Untold == \A j \in todo : Absent(j)

\* The stream has an entry of j that outlives the acknowledgements under way: the
\* monitor's and the daemon's may both take one, of what has been delivered.
Safe(s, j) == \/ New(s, j) >= 1 + Claimed(s, j)
              \/ New(s, j) + Pel(s, j) >= 1 + Claimed(s, j) + Handled(s, j)

KeptFor(j) == j \in todo \/ started[j] > 0 \/ j \in dropped \/ \E s \in Streams : Safe(s, j)
Kept == \A j \in Jobs : KeptFor(j)

\* How often j can still be started or sent on from the stream, if nothing is cut
\* short: once for an entry, unless somebody is about to acknowledge it, and at
\* least once for the job in a daemon's hand.
Load(s, j) ==
  New(s, j) + LET p == Pel(s, j) - Claimed(s, j) - Handled(s, j)
              IN IF p >= Held(s, j) THEN p ELSE Held(s, j)

Tokens(j) == {t \in Streams \X Nat : 1 <= t[2] /\ t[2] <= Load(t[1], j)}
ToldOf(j) == IF j \in todo THEN 1 ELSE 0

\* Every start and every chance of one comes from the one report of the job, or
\* from an interruption that is counted.
Counted ==
  \A j \in Jobs :
    /\ IsFiniteSet(Tokens(j))
    /\ started[j] + Cardinality(Tokens(j)) + ToldOf(j) <= 1 + again[j]

\* A slot is taken by a running worker; the only worker of a job has its slot and
\* its owner key.
OwnedBy(d, j) ==
  /\ j \in active[d] => workers[d][j] > 0
  /\ workers[d][j] > 0 =>
       /\ started[j] > 0
       /\ again[j] = 0 => owner[j] = d /\ workers[d][j] = 1 /\ j \in active[d]

Owned == \A d \in Daemons, j \in Jobs : OwnedBy(d, j)

-----------------------------------------------------------------------------
(* Streams *)

Less(n) == IF n > 0 THEN n - 1 ELSE 0

Entries == [Jobs -> Nat]
Stream  == [new : Entries, pel : Entries]

LEMMA Ids ==
  /\ Daemons \subseteq Streams /\ PENDING_STREAM \in Streams /\ REJECTED_STREAM \in Streams
  /\ PENDING_STREAM \notin Daemons /\ REJECTED_STREAM \notin Daemons
  /\ PENDING_STREAM # REJECTED_STREAM
  /\ NoJob \notin Jobs
BY PullAssumption DEF Daemons, Streams, PENDING_STREAM, REJECTED_STREAM, NoJob

LEMMA StreamTypes ==
  ASSUME TypeOK, NEW s \in Streams
  PROVE  streams[s] \in Stream /\ streams[s].new \in Entries /\ streams[s].pel \in Entries
BY DEF TypeOK, Stream, Entries

LEMMA EntryTypes ==
  ASSUME TypeOK, NEW s \in Streams, NEW j \in Jobs
  PROVE  /\ streams[s] \in Stream /\ streams[s].new \in Entries /\ streams[s].pel \in Entries
         /\ New(s, j) \in Nat /\ Pel(s, j) \in Nat
BY DEF TypeOK, Stream, Entries, New, Pel

\* A stream replaced as a whole.
LEMMA Replaced ==
  ASSUME TypeOK, NEW x \in Streams, NEW n \in Entries, NEW p \in Entries,
         streams' = [streams EXCEPT ![x] = [new |-> n, pel |-> p]]
  PROVE  /\ streams' \in [Streams -> Stream]
         /\ \A s \in Streams, j \in Jobs :
              /\ New(s, j)' = IF s = x THEN n[j] ELSE New(s, j)
              /\ Pel(s, j)' = IF s = x THEN p[j] ELSE Pel(s, j)
<1>1. streams' \in [Streams -> Stream]
  BY DEF TypeOK, Stream, Entries
<1>2. ASSUME NEW s \in Streams
      PROVE  streams'[s] = IF s = x THEN [new |-> n, pel |-> p] ELSE streams[s]
  BY DEF TypeOK
<1> QED BY <1>1, <1>2 DEF New, Pel

\* XADD.
LEMMA Added ==
  ASSUME TypeOK, NEW to \in Streams, NEW k \in Jobs,
         streams' = [streams EXCEPT ![to].new[k] = @ + 1]
  PROVE  /\ streams' \in [Streams -> Stream]
         /\ \A s \in Streams, j \in Jobs :
              /\ New(s, j)' = IF s = to /\ j = k THEN New(s, j) + 1 ELSE New(s, j)
              /\ Pel(s, j)' = Pel(s, j)
<1> DEFINE n == [streams[to].new EXCEPT ![k] = @ + 1]
           p == streams[to].pel
<1>1. n \in Entries /\ p \in Entries
  BY EntryTypes DEF Entries
<1>2. streams'[to] = [new |-> n, pel |-> p]
  BY EntryTypes, ZenonT(40) DEF Stream, TypeOK
<1>3. streams' = [streams EXCEPT ![to] = [new |-> n, pel |-> p]]
  BY <1>2 DEF TypeOK
<1>4. /\ \A j \in Jobs : n[j] = IF j = k THEN New(to, j) + 1 ELSE New(to, j)
      /\ \A j \in Jobs : p[j] = Pel(to, j)
  BY EntryTypes DEF New, Pel, Entries
<1> HIDE DEF n, p
<1>5. /\ streams' \in [Streams -> Stream]
      /\ \A s \in Streams, j \in Jobs :
           /\ New(s, j)' = IF s = to THEN n[j] ELSE New(s, j)
           /\ Pel(s, j)' = IF s = to THEN p[j] ELSE Pel(s, j)
  BY ONLY TypeOK, to \in Streams, <1>1, <1>3, Replaced
<1> QED BY <1>4, <1>5

\* XACK of an entry, which may have gone.
LEMMA Acked ==
  ASSUME TypeOK, NEW x \in Streams, NEW k \in Jobs,
         streams' = [streams EXCEPT ![x].pel[k] = IF @ > 0 THEN @ - 1 ELSE 0]
  PROVE  /\ streams' \in [Streams -> Stream]
         /\ \A s \in Streams, j \in Jobs :
              /\ New(s, j)' = New(s, j)
              /\ Pel(s, j)' = IF s = x /\ j = k THEN Less(Pel(s, j)) ELSE Pel(s, j)
<1> DEFINE n == streams[x].new
           p == [streams[x].pel EXCEPT ![k] = IF @ > 0 THEN @ - 1 ELSE 0]
<1>1. n \in Entries /\ p \in Entries
  BY EntryTypes DEF Entries
<1>2. streams'[x] = [new |-> n, pel |-> p]
  BY EntryTypes, ZenonT(40) DEF Stream, TypeOK
<1>3. streams' = [streams EXCEPT ![x] = [new |-> n, pel |-> p]]
  BY <1>2 DEF TypeOK
<1>4. /\ \A j \in Jobs : n[j] = New(x, j)
      /\ \A j \in Jobs : p[j] = IF j = k THEN Less(Pel(x, j)) ELSE Pel(x, j)
  BY EntryTypes DEF New, Pel, Entries, Less
<1> HIDE DEF n, p
<1>5. /\ streams' \in [Streams -> Stream]
      /\ \A s \in Streams, j \in Jobs :
           /\ New(s, j)' = IF s = x THEN n[j] ELSE New(s, j)
           /\ Pel(s, j)' = IF s = x THEN p[j] ELSE Pel(s, j)
  BY ONLY TypeOK, x \in Streams, <1>1, <1>3, Replaced
<1> QED BY <1>4, <1>5

\* XACK of an entry that is there.
LEMMA AckedOne ==
  ASSUME TypeOK, NEW x \in Streams, NEW k \in Jobs, streams[x].pel[k] > 0,
         streams' = [streams EXCEPT ![x].pel[k] = @ - 1]
  PROVE  /\ streams' \in [Streams -> Stream]
         /\ \A s \in Streams, j \in Jobs :
              /\ New(s, j)' = New(s, j)
              /\ Pel(s, j)' = IF s = x /\ j = k THEN Pel(s, j) - 1 ELSE Pel(s, j)
<1> DEFINE n == streams[x].new
           p == [streams[x].pel EXCEPT ![k] = @ - 1]
<1>1. n \in Entries /\ p \in Entries
  BY EntryTypes DEF Entries
<1>2. streams'[x] = [new |-> n, pel |-> p]
  BY EntryTypes, ZenonT(40) DEF Stream, TypeOK
<1>3. streams' = [streams EXCEPT ![x] = [new |-> n, pel |-> p]]
  BY <1>2 DEF TypeOK
<1>4. /\ \A j \in Jobs : n[j] = New(x, j)
      /\ \A j \in Jobs : p[j] = IF j = k THEN Pel(x, j) - 1 ELSE Pel(x, j)
  BY EntryTypes DEF New, Pel, Entries
<1> HIDE DEF n, p
<1>5. /\ streams' \in [Streams -> Stream]
      /\ \A s \in Streams, j \in Jobs :
           /\ New(s, j)' = IF s = x THEN n[j] ELSE New(s, j)
           /\ Pel(s, j)' = IF s = x THEN p[j] ELSE Pel(s, j)
  BY ONLY TypeOK, x \in Streams, <1>1, <1>3, Replaced
<1> QED BY <1>4, <1>5

\* XREADGROUP of one entry.
LEMMA Taken ==
  ASSUME TypeOK, NEW x \in Streams, NEW k \in Jobs, streams[x].new[k] > 0,
         streams' = [streams EXCEPT ![x].new[k] = @ - 1, ![x].pel[k] = @ + 1]
  PROVE  /\ streams' \in [Streams -> Stream]
         /\ \A s \in Streams, j \in Jobs :
              /\ New(s, j)' = IF s = x /\ j = k THEN New(s, j) - 1 ELSE New(s, j)
              /\ Pel(s, j)' = IF s = x /\ j = k THEN Pel(s, j) + 1 ELSE Pel(s, j)
<1> DEFINE n == [streams[x].new EXCEPT ![k] = @ - 1]
           p == [streams[x].pel EXCEPT ![k] = @ + 1]
<1>1. n \in Entries /\ p \in Entries
  BY EntryTypes DEF Entries
<1>2. streams'[x] = [new |-> n, pel |-> p]
  BY EntryTypes DEF Stream, TypeOK
<1>3. streams' = [streams EXCEPT ![x] = [new |-> n, pel |-> p]]
  BY <1>2 DEF TypeOK
<1>4. /\ \A j \in Jobs : n[j] = IF j = k THEN New(x, j) - 1 ELSE New(x, j)
      /\ \A j \in Jobs : p[j] = IF j = k THEN Pel(x, j) + 1 ELSE Pel(x, j)
  BY EntryTypes DEF New, Pel, Entries
<1> HIDE DEF n, p
<1>5. /\ streams' \in [Streams -> Stream]
      /\ \A s \in Streams, j \in Jobs :
           /\ New(s, j)' = IF s = x THEN n[j] ELSE New(s, j)
           /\ Pel(s, j)' = IF s = x THEN p[j] ELSE Pel(s, j)
  BY ONLY TypeOK, x \in Streams, <1>1, <1>3, Replaced
<1> QED BY <1>4, <1>5

LEMMA KnownCount ==
  ASSUME NEW c
  PROVE  Cardinality(Known(c)) \in 0..NDaemons
<1>1. /\ IsFiniteSet(Daemons) /\ Cardinality(Daemons) = NDaemons
  BY FS_Interval, PullAssumption DEF Daemons
<1>2. /\ IsFiniteSet(Known(c)) /\ Cardinality(Known(c)) <= NDaemons
  <2>1. Known(c) \in SUBSET Daemons
    BY DEF Known
  <2> QED BY <1>1, <2>1, FS_Subset
<1> QED BY <1>2, FS_CardinalityType, PullAssumption

LEMMA IndexType ==
  ASSUME NEW c, NEW d
  PROVE  Index(c, d) \in Nat
<1>1. /\ IsFiniteSet(Daemons)
  BY FS_Interval, PullAssumption DEF Daemons
<1>2. {e \in Known(c) : e < d} \in SUBSET Daemons
  BY DEF Known
<1>3. IsFiniteSet({e \in Known(c) : e < d})
  BY <1>1, <1>2, FS_Subset
<1> QED BY <1>3, FS_CardinalityType DEF Index

\* The jobs's entry goes to one stream, and the cache and the pointer are typed.
LEMMA Sent ==
  ASSUME TypeOK, NEW k \in Jobs, SpawnRaw(k)
  PROVE  /\ cache' \in [Daemons -> {"absent", "full", "free"}] /\ fresh' \in BOOLEAN
         /\ pointer' \in 0..NDaemons
         /\ streams' \in [Streams -> Stream]
         /\ \E to \in Streams : \A s \in Streams, j \in Jobs :
              /\ New(s, j)' = IF s = to /\ j = k THEN New(s, j) + 1 ELSE New(s, j)
              /\ Pel(s, j)' = Pel(s, j)
<1> DEFINE c == CacheView
           n == Cardinality(Known(c))
<1>1. c \in [Daemons -> {"absent", "full", "free"}]
  BY DEF TypeOK, CacheView
<1>2. PICK to \in Streams : /\ Choose(c, to)
                            /\ streams' = [streams EXCEPT ![to].new[k] = @ + 1]
  BY DEF SpawnRaw
<1>3. pointer' \in 0..NDaemons
  <2>1. n \in 0..NDaemons
    BY KnownCount
  <2>2. Index(c, to) \in Nat
    BY IndexType
  <2>3. CASE Free(c) # {} /\ pointer' = (Index(c, to) + 1) % n
    <3>1. PICK d \in Daemons : c[d] = "free"
      BY <2>3 DEF Free
    <3>2. d \in Known(c)
      BY <3>1 DEF Known
    <3>3. IsFiniteSet(Known(c))
      <4>1. /\ IsFiniteSet(Daemons) /\ Known(c) \in SUBSET Daemons
        BY FS_Interval, PullAssumption DEF Daemons, Known
      <4> QED BY <4>1, FS_Subset
    <3>4. n # 0
      BY <3>2, <3>3, FS_EmptySet
    <3> HIDE DEF n, c
    <3>5. n \in Nat /\ n > 0 /\ n <= NDaemons /\ NDaemons \in Nat
      BY <2>1, <3>4, PullAssumption
    <3>6. pointer' \in 0..(n-1)
      BY <2>2, <2>3, <3>5
    <3> QED BY <3>5, <3>6
  <2>4. CASE n = 0 /\ pointer' = pointer
    BY <2>4 DEF TypeOK
  <2>5. CASE n # 0 /\ pointer' = (Start(c) + 1) % n
    <3>1. Start(c) \in Nat
      BY PullAssumption DEF TypeOK, Start
    <3> HIDE DEF n, c
    <3>5. n \in Nat /\ n > 0 /\ n <= NDaemons /\ NDaemons \in Nat
      BY <2>1, <2>5, PullAssumption
    <3>6. pointer' \in 0..(n-1)
      BY <3>1, <2>5, <3>5
    <3> QED BY <3>5, <3>6
  <2> QED BY <1>2, <2>3, <2>4, <2>5 DEF Choose, Free
<1>4. cache' = c /\ fresh' = TRUE
  BY DEF SpawnRaw
<1> HIDE DEF c
<1> QED BY <1>1, <1>2, <1>3, <1>4, Added

-----------------------------------------------------------------------------
(* Types and bookkeeping *)

MonType == [at : {"idle", "scan", "recover", "forget", "claim", "retry"},
            left : SUBSET Daemons, d : Daemons \cup {0},
            s : {PENDING_STREAM, REJECTED_STREAM},
            batch : Entries, sent : Jobs \cup {NoJob}]

\* An entry in hand is done with.
LEMMA Decremented ==
  ASSUME mon \in MonType, mon.sent \in Jobs, mon.batch[mon.sent] \in Nat \ {0},
         mon' = [mon EXCEPT !.batch[mon.sent] = @ - 1, !.sent = NoJob]
  PROVE  /\ mon' \in MonType /\ mon'.sent = NoJob /\ mon'.at = mon.at /\ mon'.s = mon.s
         /\ mon'.d = mon.d
         /\ \A j \in Jobs : mon'.batch[j] = IF j = mon.sent THEN mon.batch[j] - 1 ELSE mon.batch[j]
<1> DEFINE nb == [mon.batch EXCEPT ![mon.sent] = @ - 1]
<1>1. /\ nb \in Entries
      /\ \A j \in Jobs : nb[j] = IF j = mon.sent THEN mon.batch[j] - 1 ELSE mon.batch[j]
  BY DEF MonType, Entries
<1>2. mon' = [mon EXCEPT !.batch = nb, !.sent = NoJob]
  BY DEF MonType
<1> HIDE DEF nb
<1> QED BY <1>1, <1>2 DEF MonType

LEMMA NoEntriesType == NoEntries \in Entries
BY DEF NoEntries, Entries

\* What the monitor has in hand in the phases that dispatch.
LEMMA InHandTypes ==
  ASSUME Local
  PROVE  /\ mon.d \in Daemons \cup {0} /\ mon.s \in {PENDING_STREAM, REJECTED_STREAM}
         /\ mon.s \in Streams /\ mon.s \notin Daemons
         /\ mon.batch \in Entries /\ mon.sent \in Jobs \cup {NoJob}
         /\ Recovering => mon.d \in Daemons /\ mon.d \in Streams
         /\ mon.sent # NoJob => mon.sent \in Jobs /\ mon.batch[mon.sent] \in Nat \ {0}
         /\ \A d \in Daemons : hand[d] # NoJob => hand[d] \in Jobs
<1>1. /\ mon.d \in Daemons \cup {0} /\ mon.s \in {PENDING_STREAM, REJECTED_STREAM}
      /\ mon.batch \in Entries /\ mon.sent \in Jobs \cup {NoJob}
  BY DEF Local, TypeOK, Entries
<1>2. mon.s \in Streams /\ mon.s \notin Daemons
  BY <1>1, Ids
<1>3. Recovering => mon.d \in Daemons /\ mon.d \in Streams
  BY Ids DEF Local, Bookkeeping, Recovering
<1>4. mon.sent # NoJob => mon.sent \in Jobs /\ mon.batch[mon.sent] \in Nat \ {0}
  BY <1>1 DEF Local, Bookkeeping, Entries
<1>5. \A d \in Daemons : hand[d] # NoJob => hand[d] \in Jobs
  BY DEF Local, TypeOK
<1> QED BY <1>1, <1>2, <1>3, <1>4, <1>5

\* The steps that leave the streams and the daemons' hands alone.
LEMMA DispatcherLocal ==
  ASSUME Local, CacheAges \/ \E j \in Jobs : Spawn(j)
  PROVE  Local'
<1>1. CASE CacheAges
  BY <1>1 DEF Local, TypeOK, Bookkeeping, CacheAges, redis, daemons, history, Recovering,
              Retrying, Pel
<1>2. ASSUME NEW k \in Jobs, Spawn(k) PROVE Local'
  <2>1. TypeOK /\ SpawnRaw(k)
    BY <1>2 DEF Local, Spawn
  <2>2. TypeOK'
    BY <1>2, <2>1, Sent DEF TypeOK, Spawn, daemons, history, Stream, Entries
  <2>3. Bookkeeping'
    <3>1. \A s \in Streams, j \in Jobs : Pel(s, j)' = Pel(s, j)
      BY <2>1, Sent
    <3>2. mon' = mon /\ dpc' = dpc /\ hand' = hand
      BY <1>2 DEF Spawn, daemons
    <3> QED BY <3>1, <3>2, InHandTypes DEF Local, Bookkeeping, Recovering, Retrying
  <2> QED BY <2>2, <2>3 DEF Local
<1> QED BY <1>1, <1>2

\* The monitor's steps that move no entry.
LEMMA QuietMonitorLocal ==
  ASSUME Local,
         \/ TickStarts \/ ScanEnds \/ Forget \/ Claim \/ RetryEnds \/ Interrupt
         \/ \E d \in Daemons : FoundDead(d)
  PROVE  Local'
<1>0. /\ TypeOK /\ Bookkeeping /\ UNCHANGED <<todo, streams, owner, daemons, started, dropped>>
  BY DEF Local, TickStarts, ScanEnds, Forget, Claim, RetryEnds, Interrupt, FoundDead,
         redis, history
<1>1. UNCHANGED <<streams, dpc, hand>> /\ \A s, j : Pel(s, j)' = Pel(s, j)
  BY <1>0 DEF daemons, Pel
<1>2. CASE TickStarts
  BY <1>0, <1>1, <1>2 DEF Local, TypeOK, Bookkeeping, TickStarts, redis, daemons, history,
              Recovering, Retrying
<1>3. CASE ScanEnds
  <2>1. TypeOK'
    BY <1>0, <1>3 DEF TypeOK, ScanEnds, redis, daemons, history
  <2>2. mon.batch = NoEntries /\ mon.sent = NoJob
    BY <1>0, <1>3 DEF ScanEnds, Bookkeeping, Recovering, Retrying
  <2>3. mon'.batch = NoEntries /\ mon'.sent = NoJob /\ mon'.at = "claim"
        /\ mon'.s = PENDING_STREAM
    BY <1>0, <1>3, <2>2 DEF ScanEnds, TypeOK
  <2>4. \A j \in Jobs : NoEntries[j] <= Pel(PENDING_STREAM, j)
    BY <1>0, Ids, EntryTypes DEF NoEntries
  <2> QED BY <1>0, <1>1, <2>1, <2>3, <2>4 DEF Local, Bookkeeping, Recovering, Retrying
<1>4. CASE Forget
  <2>1. TypeOK'
    BY <1>0, <1>4 DEF TypeOK, Forget, daemons, history
  <2>2. mon.batch = NoEntries /\ mon.sent = NoJob
    BY <1>0, <1>4 DEF Forget, Bookkeeping, Recovering, Retrying
  <2>3. mon'.batch = NoEntries /\ mon'.sent = NoJob /\ mon'.at = "scan"
    BY <1>0, <1>4, <2>2 DEF Forget, TypeOK
  <2> QED BY <1>0, <1>1, <2>1, <2>3 DEF Local, Bookkeeping, Recovering, Retrying
<1>5. CASE Claim
  <2>1. TypeOK'
    BY <1>0, <1>5, InHandTypes, StreamTypes DEF TypeOK, Claim, redis, daemons, history, Entries, Stream
  <2>2. /\ mon'.sent = NoJob /\ mon'.at = "claim" /\ mon'.s = mon.s
        /\ mon'.batch = streams[mon.s].pel
    BY <1>0, <1>5 DEF Claim, TypeOK, InHand
  <2>3. \A j \in Jobs : streams[mon.s].pel[j] <= Pel(mon.s, j)
    BY <1>0, InHandTypes, EntryTypes DEF Pel
  <2> QED BY <1>0, <1>1, <2>1, <2>2, <2>3 DEF Local, Bookkeeping, Recovering, Retrying
<1>6. CASE RetryEnds
  <2>1. TypeOK'
    BY <1>0, <1>6, NoEntriesType DEF TypeOK, RetryEnds, redis, daemons, history, Idle, Entries
  <2>2. mon.batch = NoEntries /\ mon.sent = NoJob
    BY <1>6 DEF RetryEnds, InHand
  <2>3. /\ mon'.sent = NoJob /\ mon'.batch = NoEntries
        /\ mon'.at = "idle" \/ (mon'.at = "claim" /\ mon'.s = REJECTED_STREAM)
    <3>1. CASE mon' = Idle
      BY <3>1 DEF Idle
    <3>2. CASE mon' = [mon EXCEPT !.at = "claim", !.s = REJECTED_STREAM]
      BY <1>0, <2>2, <3>2 DEF TypeOK
    <3> QED BY <1>6, <3>1, <3>2 DEF RetryEnds
  <2>4. \A j \in Jobs : NoEntries[j] <= Pel(REJECTED_STREAM, j)
    BY <1>0, Ids, EntryTypes DEF NoEntries
  <2> QED BY <1>0, <1>1, <2>1, <2>3, <2>4 DEF Local, Bookkeeping, Recovering, Retrying
<1>7. CASE Interrupt
  <2>1. mon' = Idle
    BY <1>7 DEF Interrupt
  <2>2. again' \in [Jobs -> Nat]
    BY <1>0, <1>7 DEF TypeOK, Interrupt
  <2>3. cache' \in [Daemons -> {"absent", "full", "free"}] /\ fresh' \in BOOLEAN
        /\ pointer' \in 0..NDaemons
    <3>1. 0 \in 0..NDaemons
      BY PullAssumption
    <3>2. CASE UNCHANGED <<cache, fresh, pointer>>
      BY <1>0, <3>2 DEF TypeOK
    <3>3. CASE cache' = [d \in Daemons |-> "absent"] /\ fresh' = FALSE /\ pointer' = 0
      BY <3>1, <3>3
    <3> QED BY <1>7, <3>2, <3>3 DEF Interrupt
  <2>4. TypeOK'
    BY <1>0, <1>7, <2>1, <2>2, <2>3, NoEntriesType
       DEF TypeOK, Interrupt, redis, daemons, Idle, Entries
  <2> QED BY <1>0, <1>1, <2>1, <2>4 DEF Local, Bookkeeping, Recovering, Retrying, Idle
<1>8. ASSUME NEW d \in Daemons, FoundDead(d) PROVE Local'
  <2>1. TypeOK'
    <3>1. streams[d].pel \in [Jobs -> Nat]
      BY <1>0, Ids, StreamTypes DEF Entries
    <3>2. mon' \in MonType
      BY <1>0, <1>8, <3>1 DEF TypeOK, FoundDead, MonType, Entries
    <3>3. UNCHANGED <<todo, cache, fresh, pointer, redis, daemons, history>>
      BY <1>8 DEF FoundDead
    <3> QED BY <1>0, <3>2, <3>3 DEF TypeOK, redis, daemons, history, MonType, Entries
  <2>2. mon.sent = NoJob
    BY <1>0, <1>8 DEF FoundDead, Bookkeeping, Recovering, Retrying
  <2>3. /\ mon'.sent = NoJob /\ mon'.d = d
        /\ (mon'.at = "forget" /\ mon'.batch = NoEntries) \/ mon'.at = "recover"
    BY <1>0, <1>8, <2>2 DEF FoundDead, TypeOK
  <2> QED BY <1>0, <1>1, <2>1, <2>3 DEF Local, Bookkeeping, Recovering, Retrying
<1> QED BY <1>2, <1>3, <1>4, <1>5, <1>6, <1>7, <1>8

\* The monitor's steps that do.
LEMMA BusyMonitorLocal ==
  ASSUME Local,
         \/ RecoverAcks \/ DeleteInbox \/ ReadNew \/ RetryAcks
         \/ \E j \in Jobs : RecoverSends(j) \/ RetrySends(j)
  PROVE  Local'
<1>0. /\ TypeOK /\ Bookkeeping /\ mon \in MonType
      /\ UNCHANGED <<todo, members, hash, owner, daemons, started, faults>>
  BY DEF Local, TypeOK, RecoverAcks, DeleteInbox, ReadNew, RetryAcks, RecoverSends, RetrySends,
         history, MonType, Entries
<1>1. CASE RecoverAcks
  <2>1. /\ Recovering /\ mon.sent \in Jobs /\ mon.d \in Daemons /\ mon.d \in Streams
        /\ mon.batch[mon.sent] \in Nat \ {0}
    BY <1>1, InHandTypes DEF RecoverAcks, Recovering
  <2>2. streams' \in [Streams -> Stream]
    <3>1. streams' = [streams EXCEPT ![mon.d].pel[mon.sent] = IF @ > 0 THEN @ - 1 ELSE 0]
      BY <1>1 DEF RecoverAcks
    <3> QED BY ONLY <1>0, <2>1, <3>1, Acked
  <2>3. mon' \in MonType /\ mon'.sent = NoJob /\ mon'.at = "recover" /\ mon'.d = mon.d
    BY <1>0, <1>1, <2>1, Decremented DEF RecoverAcks
  <2>4. TypeOK'
    BY <1>0, <1>1, <2>2, <2>3, ZenonT(40) DEF TypeOK, RecoverAcks, daemons, history, Stream, Entries, MonType
  <2> QED BY <1>0, <2>1, <2>3, <2>4 DEF Local, Bookkeeping, Recovering, Retrying, daemons
<1>2. CASE DeleteInbox
  <2>1. mon.d \in Daemons /\ mon.d \in Streams /\ mon.sent = NoJob /\ mon.batch = NoEntries
    BY <1>2, InHandTypes DEF DeleteInbox, Recovering
  <2>2. streams' \in [Streams -> Stream]
    BY <1>0, <1>2, <2>1, Replaced, NoEntriesType DEF DeleteInbox
  <2>3. /\ mon' \in MonType /\ mon'.sent = NoJob /\ mon'.at = "forget" /\ mon'.d = mon.d
        /\ mon'.batch = NoEntries
    BY <1>0, <1>2, <2>1 DEF DeleteInbox, MonType
  <2>4. TypeOK'
    BY <1>0, <1>2, <2>2, <2>3 DEF TypeOK, DeleteInbox, daemons, Stream, Entries, MonType
  <2> QED BY <1>0, <2>1, <2>3, <2>4 DEF Local, Bookkeeping, Recovering, Retrying, daemons
<1>3. CASE ReadNew
  <2> DEFINE n == streams[mon.s].new
             p == [j \in Jobs |-> streams[mon.s].pel[j] + streams[mon.s].new[j]]
  <2>1. mon.s \in Streams /\ mon.sent = NoJob /\ n \in Entries /\ p \in Entries
    BY <1>0, <1>3, InHandTypes, StreamTypes DEF ReadNew, InHand, Entries
  <2>2. /\ streams' \in [Streams -> Stream]
        /\ \A j \in Jobs : streams'[mon.s].pel[j] = p[j]
    <3>1. streams' = [streams EXCEPT ![mon.s] = [new |-> NoEntries, pel |-> p]]
      BY <1>3 DEF ReadNew
    <3> HIDE DEF p
    <3> QED BY <1>0, <2>1, <3>1, Replaced, NoEntriesType DEF Pel
  <2>3. /\ mon' \in MonType /\ mon'.sent = NoJob /\ mon'.at = "retry" /\ mon'.s = mon.s
        /\ mon'.batch = n
    BY <1>0, <1>3, <2>1 DEF ReadNew, MonType
  <2>4. TypeOK'
    BY <1>0, <1>3, <2>2, <2>3 DEF TypeOK, ReadNew, daemons, history, Stream, Entries, MonType
  <2>5. \A j \in Jobs : n[j] <= p[j]
    BY <1>0, <2>1, StreamTypes DEF Entries
  <2> HIDE DEF n, p
  <2>6. \A j \in Jobs : mon'.batch[j] <= Pel(mon.s, j)'
    BY <2>2, <2>3, <2>5 DEF Pel
  <2> QED BY <1>0, <2>3, <2>4, <2>6 DEF Local, Bookkeeping, Recovering, Retrying, daemons, Pel
<1>4. CASE RetryAcks
  <2>1. /\ Retrying /\ mon.s \in Streams /\ mon.sent \in Jobs
        /\ mon.batch[mon.sent] \in Nat \ {0} /\ mon.batch \in Entries
        /\ \A j \in Jobs : mon.batch[j] <= Pel(mon.s, j)
    BY <1>0, <1>4, InHandTypes DEF RetryAcks, Retrying, Bookkeeping
  <2>2. streams[mon.s].pel[mon.sent] > 0
    BY <1>0, <2>1, EntryTypes DEF Pel
  <2>3. streams' = [streams EXCEPT ![mon.s].pel[mon.sent] = @ - 1]
    BY <1>4 DEF RetryAcks
  <2>4. /\ streams' \in [Streams -> Stream]
        /\ \A j \in Jobs : streams'[mon.s].pel[j]
                             = IF j = mon.sent THEN Pel(mon.s, j) - 1 ELSE Pel(mon.s, j)
    <3>1. /\ streams' \in [Streams -> Stream]
          /\ \A s \in Streams, j \in Jobs :
               /\ New(s, j)' = New(s, j)
               /\ Pel(s, j)' = IF s = mon.s /\ j = mon.sent THEN Pel(s, j) - 1 ELSE Pel(s, j)
      BY ONLY <1>0, <2>1, <2>2, <2>3, AckedOne
    <3> QED BY <2>1, <3>1 DEF Pel
  <2>5. /\ mon' \in MonType /\ mon'.sent = NoJob /\ mon'.at = mon.at /\ mon'.s = mon.s
        /\ mon'.d = mon.d
        /\ \A j \in Jobs : mon'.batch[j] = IF j = mon.sent THEN mon.batch[j] - 1 ELSE mon.batch[j]
    BY <1>0, <1>4, <2>1, Decremented DEF RetryAcks
  <2>6. TypeOK'
    BY <1>0, <1>4, <2>4, <2>5, ZenonT(40) DEF TypeOK, RetryAcks, daemons, history, Stream, Entries, MonType
  <2>7. \A j \in Jobs : mon'.batch[j] <= Pel(mon.s, j)'
    BY <1>0, <2>1, <2>2, <2>4, <2>5, EntryTypes DEF Entries, Pel
  <2> QED BY <1>0, <2>1, <2>5, <2>6, <2>7
          DEF Local, Bookkeeping, Recovering, Retrying, daemons, Pel
<1>5. ASSUME NEW k \in Jobs, RecoverSends(k) \/ RetrySends(k) PROVE Local'
  <2>1. /\ SpawnRaw(k) /\ mon' = [mon EXCEPT !.sent = k] /\ mon.batch[k] > 0
        /\ Recovering \/ Retrying
        /\ dropped' = dropped
    BY <1>5 DEF RecoverSends, RetrySends, Recovering, Retrying, history
  <2>2. mon' \in MonType /\ mon'.sent = k /\ mon'.at = mon.at /\ mon'.s = mon.s
        /\ mon'.d = mon.d /\ mon'.batch = mon.batch
    BY <1>0, <2>1 DEF MonType
  <2>3. again' \in [Jobs -> Nat]
    BY <1>0, <1>5 DEF TypeOK, RecoverSends, RetrySends, history
  <2>4. TypeOK'
    BY <1>0, <2>1, <2>2, <2>3, Sent DEF TypeOK, daemons, Stream, Entries, MonType
  <2>5. \A s \in Streams, j \in Jobs : Pel(s, j)' = Pel(s, j)
    BY <1>0, <2>1, Sent
  <2>6. mon.s \in Streams
    BY InHandTypes
  <2> QED BY <1>0, <2>1, <2>2, <2>4, <2>5, <2>6
          DEF Local, Bookkeeping, Recovering, Retrying, daemons
<1> QED BY <1>1, <1>2, <1>3, <1>4, <1>5

\* The steps of a daemon that move an entry.
LEMMA BusyDaemonLocal ==
  ASSUME Local, NEW d \in Daemons,
         Reject(d) \/ AckInbox(d) \/ \E j \in Jobs : ReadInbox(d, j)
  PROVE  Local'
<1>0. /\ TypeOK /\ Bookkeeping /\ d \in Streams
      /\ UNCHANGED <<todo, orch, members, hash, owner, active, workers, history>>
  BY Ids DEF Local, Reject, AckInbox, ReadInbox
<1>1. ASSUME streams' \in [Streams -> Stream], hand' \in [Daemons -> Jobs \cup {NoJob}],
             dpc' \in [Daemons -> {"off", "idle", "got", "spawned", "rejected", "deaf", "draining"}],
             \A j \in Jobs : Pel(PENDING_STREAM, j)' = Pel(PENDING_STREAM, j),
             \A j \in Jobs : Pel(REJECTED_STREAM, j)' = Pel(REJECTED_STREAM, j),
             \A x \in Daemons :
               dpc'[x] \in {"got", "spawned", "rejected"} <=> hand'[x] # NoJob
      PROVE  Local'
  <2>1. TypeOK'
    BY <1>0, <1>1 DEF TypeOK, orch, history, Stream, Entries
  <2>2. mon' = mon
    BY <1>0 DEF orch
  <2>3. Retrying => \A j \in Jobs : mon.batch[j] <= Pel(mon.s, j)'
    BY <1>0, <1>1, <2>2, InHandTypes DEF Bookkeeping
  <2> QED BY <1>0, <1>1, <2>1, <2>2, <2>3 DEF Local, Bookkeeping, Recovering, Retrying
<1>2. CASE Reject(d)
  <2>1. hand[d] \in Jobs
    BY <1>0, <1>2, InHandTypes DEF Reject, Bookkeeping
  <2>2. /\ streams' \in [Streams -> Stream]
        /\ \A s \in Streams, j \in Jobs : Pel(s, j)' = Pel(s, j)
    <3>1. streams' = [streams EXCEPT ![REJECTED_STREAM].new[hand[d]] = @ + 1]
      BY <1>2 DEF Reject
    <3> QED BY <1>0, <2>1, <3>1, Ids, Added
  <2>3. /\ dpc[d] = "got" /\ dpc' = [dpc EXCEPT ![d] = "rejected"] /\ hand' = hand
    BY <1>2 DEF Reject
  <2> QED BY <1>0, <1>1, <2>2, <2>3, Ids DEF TypeOK, Bookkeeping
<1>3. CASE AckInbox(d)
  <2>1. hand[d] \in Jobs
    BY <1>0, <1>3, InHandTypes DEF AckInbox, Bookkeeping
  <2>2. streams' = [streams EXCEPT ![d].pel[hand[d]] = IF @ > 0 THEN @ - 1 ELSE 0]
    BY <1>3 DEF AckInbox
  <2>4. /\ streams' \in [Streams -> Stream]
        /\ \A s \in Streams, j \in Jobs :
             /\ New(s, j)' = New(s, j)
             /\ Pel(s, j)' = IF s = d /\ j = hand[d] THEN Less(Pel(s, j)) ELSE Pel(s, j)
    BY ONLY <1>0, <2>1, <2>2, Acked
  <2>5. /\ dpc' = [dpc EXCEPT ![d] = "idle"] /\ hand' = [hand EXCEPT ![d] = NoJob]
    BY <1>3 DEF AckInbox
  <2> QED BY <1>0, <1>1, <2>4, <2>5, Ids DEF TypeOK, Bookkeeping
<1>4. ASSUME NEW k \in Jobs, ReadInbox(d, k) PROVE Local'
  <2>1. /\ streams' \in [Streams -> Stream]
        /\ \A s \in Streams, j \in Jobs :
             /\ New(s, j)' = IF s = d /\ j = k THEN New(s, j) - 1 ELSE New(s, j)
             /\ Pel(s, j)' = IF s = d /\ j = k THEN Pel(s, j) + 1 ELSE Pel(s, j)
    <3>1. /\ streams[d].new[k] > 0
          /\ streams' = [streams EXCEPT ![d].new[k] = @ - 1, ![d].pel[k] = @ + 1]
      BY <1>4 DEF ReadInbox
    <3> QED BY ONLY <1>0, k \in Jobs, <3>1, Taken
  <2>2. /\ dpc' = [dpc EXCEPT ![d] = "got"] /\ hand' = [hand EXCEPT ![d] = k]
    BY <1>4 DEF ReadInbox
  <2> QED BY <1>0, <1>1, <2>1, <2>2, Ids DEF TypeOK, Bookkeeping
<1> QED BY <1>2, <1>3, <1>4

\* The steps of a daemon that move none.
LEMMA QuietDaemonLocal ==
  ASSUME Local, NEW d \in Daemons,
         \/ Register(d) \/ Heartbeat(d) \/ Accept(d) \/ HandlingFails(d) \/ Stop(d)
         \/ Drained(d) \/ Die(d) \/ Expire(d) \/ \E j \in Jobs : WorkerExits(d, j)
  PROVE  Local'
<1>0. /\ TypeOK /\ Bookkeeping /\ UNCHANGED <<todo, orch, streams, dropped>>
  BY DEF Local, Register, Heartbeat, Accept, HandlingFails, Stop, Drained, Die, Expire,
         WorkerExits, history, redis
<1>1. UNCHANGED <<mon, streams>> /\ \A s, j : Pel(s, j)' = Pel(s, j)
  BY <1>0 DEF orch, Pel
<1>2. ASSUME \A x \in Daemons :
               dpc'[x] \in {"got", "spawned", "rejected"} <=> hand'[x] # NoJob
      PROVE  Bookkeeping'
  BY <1>0, <1>1, <1>2 DEF Bookkeeping, Recovering, Retrying
<1>3. ASSUME hand[d] # NoJob PROVE hand[d] \in Jobs
  BY <1>3, InHandTypes
<1>4. CASE Register(d) \/ Heartbeat(d) \/ Expire(d)
  <2>1. TypeOK'
    BY <1>0, <1>4, ZenonT(40) DEF TypeOK, Register, Heartbeat, Expire, orch, history, daemons
  <2>2. Bookkeeping'
    BY <1>0, <1>2, <1>4 DEF TypeOK, Bookkeeping, Register, Heartbeat, Expire, daemons
  <2> QED BY <2>1, <2>2 DEF Local
<1>5. CASE Accept(d)
  <2>1. hand[d] \in Jobs
    BY <1>0, <1>3, <1>5 DEF Accept, Bookkeeping
  <2>2. TypeOK'
    BY <1>0, <1>5, <2>1 DEF TypeOK, Accept, orch
  <2>3. Bookkeeping'
    BY <1>0, <1>2, <1>5 DEF TypeOK, Bookkeeping, Accept
  <2> QED BY <2>2, <2>3 DEF Local
<1>6. CASE HandlingFails(d)
  <2>1. TypeOK'
    BY <1>0, <1>6 DEF TypeOK, HandlingFails, orch, redis
  <2>2. Bookkeeping'
    BY <1>0, <1>2, <1>6 DEF TypeOK, Bookkeeping, HandlingFails
  <2> QED BY <2>1, <2>2 DEF Local
<1>7. CASE Stop(d) \/ Die(d)
  <2>1. again' \in [Jobs -> Nat]
    <3>1. CASE dpc[d] \in {"spawned", "rejected"}
      <4>1. hand[d] \in Jobs
        BY <1>0, <1>3, <3>1 DEF Bookkeeping
      <4> QED BY <1>0, <1>7, <4>1 DEF TypeOK, Stop, Die, LeftUnacked
    <3>2. CASE dpc[d] \notin {"spawned", "rejected"}
      BY <1>0, <1>7, <3>2 DEF TypeOK, Stop, Die, LeftUnacked
    <3> QED BY <3>1, <3>2
  <2>2. CASE Stop(d)
    <3>1. TypeOK'
      BY <1>0, <2>1, <2>2 DEF TypeOK, Stop, orch
    <3>2. Bookkeeping'
      BY <1>0, <1>2, <2>2 DEF TypeOK, Bookkeeping, Stop
    <3> QED BY <3>1, <3>2 DEF Local
  <2>3. CASE Die(d)
    <3>1. TypeOK'
      BY <1>0, <2>1, <2>3 DEF TypeOK, Die, orch, redis, NoEntries
    <3>2. Bookkeeping'
      BY <1>0, <1>2, <2>3 DEF TypeOK, Bookkeeping, Die
    <3> QED BY <3>1, <3>2 DEF Local
  <2> QED BY <1>7, <2>2, <2>3
<1>8. CASE Drained(d)
  <2>1. TypeOK'
    BY <1>0, <1>8 DEF TypeOK, Drained, orch, history, NoEntries
  <2>2. Bookkeeping'
    BY <1>0, <1>2, <1>8 DEF TypeOK, Bookkeeping, Drained
  <2> QED BY <2>1, <2>2 DEF Local
<1>9. ASSUME NEW k \in Jobs, WorkerExits(d, k) PROVE Local'
  <2>1. TypeOK'
    BY <1>0, <1>9 DEF TypeOK, WorkerExits, orch, history
  <2>2. Bookkeeping'
    BY <1>0, <1>2, <1>9 DEF TypeOK, Bookkeeping, WorkerExits
  <2> QED BY <2>1, <2>2 DEF Local
<1> QED BY <1>4, <1>5, <1>6, <1>7, <1>8, <1>9

LEMMA InitLocal == Init => Local
<1> SUFFICES ASSUME Init PROVE Local
  OBVIOUS
<1>1. TypeOK
  <2>1. NoEntries \in [Jobs -> Nat]
    BY NoEntriesType DEF Entries
  <2>2. mon = Idle /\ Idle \in MonType
    BY NoEntriesType DEF Init, Idle, MonType
  <2>3. streams \in [Streams -> [new : [Jobs -> Nat], pel : [Jobs -> Nat]]]
    BY <2>1 DEF Init
  <2>4. pointer \in 0..NDaemons
    BY PullAssumption DEF Init
  <2> HIDE DEF NoEntries
  <2> QED BY <2>1, <2>2, <2>3, <2>4 DEF Init, TypeOK, MonType, Entries
<1>2. Bookkeeping
  BY DEF Init, Bookkeeping, Idle, Recovering, Retrying
<1> QED BY <1>1, <1>2 DEF Local

LEMMA StepLocal == Local /\ [Next]_vars => Local'
<1> SUFFICES ASSUME Local, [Next]_vars PROVE Local'
  OBVIOUS
<1>1. CASE Dispatcher
  BY <1>1, DispatcherLocal DEF Dispatcher
<1>2. CASE Monitor \/ Interrupt
  BY <1>2, QuietMonitorLocal, BusyMonitorLocal DEF Monitor
<1>3. ASSUME NEW d \in Daemons, Daemon(d) PROVE Local'
  BY <1>3, BusyDaemonLocal, QuietDaemonLocal DEF Daemon
<1>4. CASE UNCHANGED vars
  BY <1>4 DEF Local, TypeOK, Bookkeeping, vars, orch, redis, daemons, history, Recovering,
              Retrying, Pel
<1> QED BY <1>1, <1>2, <1>3, <1>4 DEF Next

\* Every variable keeps its type, and the monitor and the daemons keep their
\* books: dispatcher.py, daemon_monitor.py and worker_daemon.py never acknowledge
\* an entry they do not have in hand.
THEOREM PullTypes == Spec => []Local
<1>1. Init => Local
  BY InitLocal
<1>2. Local /\ [Next]_vars => Local'
  BY StepLocal
<1> QED BY <1>1, <1>2, PTL DEF Spec

-----------------------------------------------------------------------------
(* What each step does to the counts *)

LEMMA CountTypes ==
  ASSUME Local, NEW s \in Streams, NEW j \in Jobs
  PROVE  /\ New(s, j) \in Nat /\ Pel(s, j) \in Nat
         /\ Claimed(s, j) \in {0, 1} /\ Handled(s, j) \in {0, 1} /\ Held(s, j) \in {0, 1}
         /\ Handled(s, j) = 1 => Held(s, j) = 0
         /\ Load(s, j) \in Nat
<1>1. New(s, j) \in Nat /\ Pel(s, j) \in Nat
  BY EntryTypes DEF Local
<1>2. Claimed(s, j) \in {0, 1} /\ Handled(s, j) \in {0, 1} /\ Held(s, j) \in {0, 1}
  BY DEF Claimed, Handled, Held
<1>3. Handled(s, j) = 1 => Held(s, j) = 0
  BY DEF Handled, Held
<1>4. Load(s, j) \in Nat
  BY <1>1, <1>2 DEF Load
<1> QED BY <1>1, <1>2, <1>3, <1>4

SameStreams == \A s \in Streams, j \in Jobs : New(s, j)' = New(s, j) /\ Pel(s, j)' = Pel(s, j)
SameClaims  == \A s \in Streams, j \in Jobs : Claimed(s, j)' = Claimed(s, j)
SameHands   == \A s \in Streams, j \in Jobs :
                 Handled(s, j)' = Handled(s, j) /\ Held(s, j)' = Held(s, j)

LEMMA StreamsKept == UNCHANGED streams => SameStreams
BY DEF SameStreams, New, Pel

LEMMA ClaimsKept == UNCHANGED mon => SameClaims
BY DEF SameClaims, Claimed, Source, Recovering

LEMMA HandsKept == UNCHANGED <<dpc, hand>> => SameHands
BY DEF SameHands, Handled, Held

LEMMA NoClaim ==
  /\ mon.sent = NoJob => \A s \in Streams, j \in Jobs : Claimed(s, j) = 0
  /\ mon'.sent = NoJob => \A s \in Streams, j \in Jobs : Claimed(s, j)' = 0
BY Ids DEF Claimed

Quiet == SameStreams /\ SameClaims /\ SameHands

LEMMA QuietSteps ==
  ASSUME Local,
         \/ CacheAges \/ TickStarts \/ ScanEnds \/ Forget \/ Claim \/ RetryEnds
         \/ \E d \in Daemons :
              \/ FoundDead(d) \/ Register(d) \/ Heartbeat(d) \/ Expire(d) \/ Drained(d)
              \/ \E j \in Jobs : WorkerExits(d, j)
         \/ UNCHANGED vars
  PROVE  /\ Quiet
         /\ UNCHANGED <<todo, started, again, dropped>>
<1>0. TypeOK /\ Bookkeeping
  BY DEF Local
<1>1. /\ UNCHANGED <<todo, streams, started, again, dropped>>
  BY DEF CacheAges, TickStarts, ScanEnds, Forget, Claim, RetryEnds, FoundDead, Register,
         Heartbeat, Expire, Drained, WorkerExits, redis, history, vars
<1>2. SameHands
  <2>1. CASE UNCHANGED <<dpc, hand>>
    BY <2>1, HandsKept
  <2>2. ASSUME NEW d \in Daemons, Register(d) \/ Drained(d) PROVE SameHands
    <3>1. PICK p \in {"idle", "off"} :
            dpc' = [dpc EXCEPT ![d] = p] /\ hand' = hand
      BY <2>2 DEF Register, Drained
    <3>2. dpc[d] \in {"off", "draining"} /\ hand[d] = NoJob
      BY <1>0, <2>2 DEF Register, Drained, Bookkeeping
    <3>3. hand' = [hand EXCEPT ![d] = NoJob]
      BY <1>0, <3>1, <3>2 DEF TypeOK
    <3>4. \A s \in Streams, j \in Jobs :
           /\ Handled(s, j)' = IF s # d THEN Handled(s, j) ELSE 0
           /\ Held(s, j)' = IF s # d THEN Held(s, j) ELSE 0
      BY <1>0, <3>1, <3>3 DEF TypeOK, Handled, Held
    <3>5. \A j \in Jobs : Handled(d, j) = 0 /\ Held(d, j) = 0
      BY <3>2 DEF Handled, Held
    <3> QED BY <3>4, <3>5 DEF SameHands
  <2> QED BY <2>1, <2>2 DEF CacheAges, TickStarts, ScanEnds, Forget, Claim, RetryEnds,
               FoundDead, Register, Heartbeat, Expire, Drained, WorkerExits, daemons, vars
<1>3. SameClaims
  <2>1. CASE UNCHANGED mon
    BY <2>1, ClaimsKept
  <2>2. CASE mon.sent = NoJob /\ mon'.sent = NoJob
    BY <2>2, NoClaim DEF SameClaims
  <2>3. ASSUME \/ TickStarts \/ ScanEnds \/ Forget \/ Claim \/ RetryEnds
               \/ \E d \in Daemons : FoundDead(d)
        PROVE  mon.sent = NoJob /\ mon'.sent = NoJob
    <3>1. mon.sent = NoJob
      BY <1>0, <2>3 DEF TickStarts, ScanEnds, Forget, Claim, RetryEnds, FoundDead, InHand,
                        Bookkeeping, Recovering, Retrying
    <3>2. mon'.sent = mon.sent \/ mon'.sent = NoJob
      <4>1. CASE TickStarts
        BY <1>0, <4>1 DEF TypeOK, TickStarts
      <4>2. CASE ScanEnds
        BY <1>0, <4>2 DEF TypeOK, ScanEnds
      <4>3. CASE Forget
        BY <1>0, <4>3 DEF TypeOK, Forget
      <4>4. CASE Claim
        BY <1>0, <4>4 DEF TypeOK, Claim
      <4>5. CASE RetryEnds
        <5>1. CASE mon' = Idle
          BY <5>1 DEF Idle
        <5>2. CASE mon' = [mon EXCEPT !.at = "claim", !.s = REJECTED_STREAM]
          BY <1>0, <5>2 DEF TypeOK
        <5> QED BY <4>5, <5>1, <5>2 DEF RetryEnds
      <4>6. ASSUME NEW d \in Daemons, FoundDead(d)
            PROVE  mon'.sent = mon.sent
        BY <1>0, <4>6 DEF TypeOK, FoundDead
      <4> QED BY <2>3, <4>1, <4>2, <4>3, <4>4, <4>5, <4>6
    <3> QED BY <3>1, <3>2
  <2> QED BY <2>1, <2>2, <2>3 DEF CacheAges, Register, Heartbeat, Expire, Drained, WorkerExits,
               orch, vars
<1> QED BY <1>1, <1>2, <1>3, StreamsKept DEF Quiet

\* The job is sent to some stream.
Arrives(k) ==
  \E to \in Streams : \A s \in Streams, j \in Jobs :
    /\ New(s, j)' = IF s = to /\ j = k THEN New(s, j) + 1 ELSE New(s, j)
    /\ Pel(s, j)' = Pel(s, j)

LEMMA SpawnCounts ==
  ASSUME Local, NEW k \in Jobs, Spawn(k)
  PROVE  /\ Arrives(k) /\ SameClaims /\ SameHands
         /\ k \in todo /\ todo' = todo \ {k} /\ UNCHANGED <<started, again, dropped>>
<1>1. Arrives(k)
  BY Sent DEF Spawn, Local, Arrives
<1> QED BY <1>1, ClaimsKept, HandsKept DEF Spawn, daemons, history

LEMMA SendsCounts ==
  ASSUME Local, NEW k \in Jobs, RetrySends(k) \/ RecoverSends(k)
  PROVE  /\ Arrives(k) /\ SameHands
         /\ \A s \in Streams, j \in Jobs :
              /\ Claimed(s, j) = 0
              /\ Claimed(s, j)' = IF s = Source /\ j = k THEN 1 ELSE 0
         /\ UNCHANGED <<todo, started, dropped>>
         /\ Source \in Streams /\ mon.batch[k] > 0 /\ mon.batch \in Entries
<1>1. TypeOK /\ SpawnRaw(k) /\ mon' = [mon EXCEPT !.sent = k] /\ mon.sent = NoJob
  BY DEF Local, RetrySends, RecoverSends
<1>2. Arrives(k)
  BY <1>1, Sent DEF Arrives
<1>3. SameHands
  BY HandsKept DEF RetrySends, RecoverSends, daemons
<1>4. \A s \in Streams, j \in Jobs : Claimed(s, j) = 0
  BY <1>1, NoClaim
<1>5. mon'.sent = k /\ mon'.at = mon.at /\ mon'.s = mon.s /\ mon'.d = mon.d
  BY <1>1 DEF TypeOK
<1>6. Source' = Source
  BY <1>5 DEF Source, Recovering
<1>7. \A s \in Streams, j \in Jobs : Claimed(s, j)' = IF s = Source /\ j = k THEN 1 ELSE 0
  BY <1>5, <1>6 DEF Claimed
<1>8. Source \in Streams /\ mon.batch \in Entries
  BY InHandTypes DEF Source
<1> QED BY <1>2, <1>3, <1>4, <1>7, <1>8 DEF RetrySends, RecoverSends, history

\* The monitor's XACK takes an entry of the job it has sent on, and its claim.
LEMMA AcksCounts ==
  ASSUME Local, RetryAcks \/ RecoverAcks
  PROVE  /\ \A s \in Streams, j \in Jobs :
              /\ New(s, j)' = New(s, j)
              /\ Pel(s, j)' = IF Claimed(s, j) = 1 THEN Less(Pel(s, j)) ELSE Pel(s, j)
              /\ Claimed(s, j)' = 0
         /\ SameHands /\ UNCHANGED <<todo, started, again, dropped>>
<1>1. TypeOK /\ mon.sent \in Jobs /\ Source \in Streams
  BY InHandTypes DEF Local, RetryAcks, RecoverAcks, Source
<1>2. \A s \in Streams, j \in Jobs :
        /\ New(s, j)' = New(s, j)
        /\ Pel(s, j)' = IF s = Source /\ j = mon.sent THEN Less(Pel(s, j)) ELSE Pel(s, j)
  <2>1. CASE RecoverAcks
    <3>1. streams' = [streams EXCEPT ![Source].pel[mon.sent] = IF @ > 0 THEN @ - 1 ELSE 0]
      BY <2>1 DEF RecoverAcks, Source, Recovering
    <3> QED BY ONLY <1>1, <3>1, Acked
  <2>2. CASE RetryAcks
    <3>1. /\ streams' = [streams EXCEPT ![Source].pel[mon.sent] = @ - 1]
          /\ Source = mon.s /\ Retrying
      BY <2>2 DEF RetryAcks, Source, Recovering, Retrying
    <3>2. streams[Source].pel[mon.sent] > 0
      <4>1. mon.batch[mon.sent] \in Nat \ {0} /\ mon.batch[mon.sent] <= Pel(Source, mon.sent)
        BY <1>1, <3>1, Ids, InHandTypes DEF Local, Bookkeeping
      <4>2. Pel(Source, mon.sent) \in Nat
        BY <1>1, EntryTypes
      <4> QED BY <4>1, <4>2 DEF Pel
    <3>3. \A s \in Streams, j \in Jobs :
            /\ New(s, j)' = New(s, j)
            /\ Pel(s, j)' = IF s = Source /\ j = mon.sent THEN Pel(s, j) - 1 ELSE Pel(s, j)
      BY ONLY <1>1, <3>1, <3>2, AckedOne
    <3>4. Less(Pel(Source, mon.sent)) = Pel(Source, mon.sent) - 1
      BY <3>2 DEF Pel, Less
    <3> QED BY <3>3, <3>4
  <2> QED BY <2>1, <2>2
<1>3. \A s \in Streams, j \in Jobs : Claimed(s, j) = 1 <=> s = Source /\ j = mon.sent
  BY DEF Claimed
<1>4. mon'.sent = NoJob
  BY <1>1 DEF TypeOK, RetryAcks, RecoverAcks
<1>5. SameHands
  BY HandsKept DEF RetryAcks, RecoverAcks, daemons
<1> QED BY <1>2, <1>3, <1>4, <1>5, NoClaim DEF RetryAcks, RecoverAcks, history

LEMMA DeleteCounts ==
  ASSUME Local, DeleteInbox
  PROVE  /\ \A s \in Streams, j \in Jobs :
              /\ New(s, j)' = IF s = mon.d THEN 0 ELSE New(s, j)
              /\ Pel(s, j)' = IF s = mon.d THEN 0 ELSE Pel(s, j)
              /\ Claimed(s, j) = 0 /\ Claimed(s, j)' = 0
         /\ SameHands /\ UNCHANGED <<todo, started, again>>
         /\ mon.d \in Streams
         /\ dropped' = dropped \cup {j \in Jobs : New(mon.d, j) + Pel(mon.d, j) > 0}
<1>1. TypeOK /\ mon.d \in Streams /\ mon.sent = NoJob
  BY InHandTypes DEF Local, DeleteInbox, Recovering
<1>2. mon'.sent = NoJob
  BY <1>1 DEF TypeOK, DeleteInbox
<1>3. \A s \in Streams, j \in Jobs :
        /\ New(s, j)' = IF s = mon.d THEN NoEntries[j] ELSE New(s, j)
        /\ Pel(s, j)' = IF s = mon.d THEN NoEntries[j] ELSE Pel(s, j)
  <2>1. streams' = [streams EXCEPT ![mon.d] = [new |-> NoEntries, pel |-> NoEntries]]
    BY DEF DeleteInbox
  <2> QED BY ONLY <1>1, <2>1, NoEntriesType, Replaced
<1>4. \A j \in Jobs : NoEntries[j] = 0
  BY DEF NoEntries
<1>5. SameHands
  BY HandsKept DEF DeleteInbox, daemons
<1> QED BY <1>1, <1>2, <1>3, <1>4, <1>5, NoClaim DEF DeleteInbox, New, Pel

LEMMA ReadNewCounts ==
  ASSUME Local, ReadNew
  PROVE  /\ \A s \in Streams, j \in Jobs :
              /\ New(s, j)' = IF s = mon.s THEN 0 ELSE New(s, j)
              /\ Pel(s, j)' = IF s = mon.s THEN Pel(s, j) + New(s, j) ELSE Pel(s, j)
              /\ Claimed(s, j) = 0 /\ Claimed(s, j)' = 0
              /\ s = mon.s => Handled(s, j) = 0 /\ Held(s, j) = 0
         /\ SameHands /\ UNCHANGED <<todo, started, again, dropped>>
<1> DEFINE p == [j \in Jobs |-> streams[mon.s].pel[j] + streams[mon.s].new[j]]
<1>1. TypeOK /\ mon.s \in Streams /\ mon.s \notin Daemons /\ mon.sent = NoJob
  BY InHandTypes DEF Local, ReadNew, InHand
<1>2. mon'.sent = NoJob
  BY <1>1 DEF TypeOK, ReadNew
<1>3. /\ p \in Entries
      /\ \A j \in Jobs : p[j] = Pel(mon.s, j) + New(mon.s, j)
  BY <1>1, StreamTypes DEF Entries, Pel, New
<1>4. streams' = [streams EXCEPT ![mon.s] = [new |-> NoEntries, pel |-> p]]
  BY DEF ReadNew
<1> HIDE DEF p
<1>5. \A s \in Streams, j \in Jobs :
        /\ New(s, j)' = IF s = mon.s THEN NoEntries[j] ELSE New(s, j)
        /\ Pel(s, j)' = IF s = mon.s THEN p[j] ELSE Pel(s, j)
  BY ONLY <1>1, <1>3, <1>4, NoEntriesType, Replaced, ZenonT(40)
<1>6. \A j \in Jobs : NoEntries[j] = 0
  BY DEF NoEntries
<1>7. SameHands
  BY HandsKept DEF ReadNew, daemons
<1>8. \A s \in Streams, j \in Jobs : s = mon.s => Handled(s, j) = 0 /\ Held(s, j) = 0
  BY <1>1 DEF Handled, Held
<1>9. UNCHANGED <<todo, started, again, dropped>>
  BY DEF ReadNew, history
<1>10. \A s \in Streams, j \in Jobs : Claimed(s, j) = 0 /\ Claimed(s, j)' = 0
  BY <1>1, <1>2, NoClaim
<1> QED BY <1>3, <1>5, <1>6, <1>7, <1>8, <1>9, <1>10

LEMMA InterruptCounts ==
  ASSUME Local, Interrupt
  PROVE  /\ SameStreams /\ SameHands
         /\ \A s \in Streams, j \in Jobs : Claimed(s, j)' = 0
         /\ \A j \in Jobs : /\ again[j] \in Nat /\ again'[j] \in Nat
                            /\ again'[j] = IF mon.sent = j THEN again[j] + 1 ELSE again[j]
         /\ UNCHANGED <<todo, started, dropped>>
<1>1. mon'.sent = NoJob
  BY DEF Interrupt, Idle
<1>2. \A j \in Jobs : /\ again[j] \in Nat /\ again'[j] \in Nat
                      /\ again'[j] = IF mon.sent = j THEN again[j] + 1 ELSE again[j]
  BY Ids DEF Local, TypeOK, Interrupt
<1> QED BY <1>1, <1>2, NoClaim, StreamsKept, HandsKept DEF Interrupt, redis, daemons

LEMMA ReadInboxCounts ==
  ASSUME Local, NEW d \in Daemons, NEW k \in Jobs, ReadInbox(d, k)
  PROVE  /\ \A s \in Streams, j \in Jobs :
              /\ New(s, j)' = IF s = d /\ j = k THEN New(s, j) - 1 ELSE New(s, j)
              /\ Pel(s, j)' = IF s = d /\ j = k THEN Pel(s, j) + 1 ELSE Pel(s, j)
              /\ Handled(s, j)' = Handled(s, j) /\ (s = d => Handled(s, j) = 0)
              /\ Held(s, j)' = IF s = d /\ j = k THEN 1 ELSE Held(s, j)
         /\ SameClaims /\ New(d, k) > 0
         /\ UNCHANGED <<todo, started, again, dropped>>
<1>1. TypeOK /\ d \in Streams /\ dpc[d] = "idle"
  BY Ids DEF Local, ReadInbox
<1>2. /\ streams[d].new[k] > 0
      /\ streams' = [streams EXCEPT ![d].new[k] = @ - 1, ![d].pel[k] = @ + 1]
      /\ dpc' = [dpc EXCEPT ![d] = "got"] /\ hand' = [hand EXCEPT ![d] = k]
      /\ UNCHANGED <<todo, mon, started, again, dropped>>
  BY DEF ReadInbox, orch, history
<1>3. \A s \in Streams, j \in Jobs :
        /\ New(s, j)' = IF s = d /\ j = k THEN New(s, j) - 1 ELSE New(s, j)
        /\ Pel(s, j)' = IF s = d /\ j = k THEN Pel(s, j) + 1 ELSE Pel(s, j)
  BY ONLY <1>1, k \in Jobs, <1>2, Taken
<1>4. \A s \in Streams, j \in Jobs :
        /\ Handled(s, j)' = IF s # d THEN Handled(s, j) ELSE 0
        /\ Held(s, j)' = IF s # d THEN Held(s, j) ELSE IF k = j THEN 1 ELSE 0
  BY <1>1, <1>2 DEF TypeOK, Handled, Held
<1>5. \A j \in Jobs : Handled(d, j) = 0 /\ Held(d, j) = 0
  BY <1>1 DEF Handled, Held
<1> QED BY <1>2, <1>3, <1>4, <1>5, ClaimsKept DEF New

\* A daemon has decided about its entry.
Decides(d, k) ==
  /\ k \in Jobs
  /\ \A s \in Streams, j \in Jobs :
       /\ Handled(s, j)' = IF s = d /\ j = k THEN 1 ELSE Handled(s, j)
       /\ Held(s, j)' = IF s = d /\ j = k THEN 0 ELSE Held(s, j)
  /\ Handled(d, k) = 0 /\ Held(d, k) = 1
  /\ SameClaims

LEMMA DecidesCounts ==
  ASSUME Local, NEW d \in Daemons, Accept(d) \/ Reject(d)
  PROVE  Decides(d, hand[d])
<1>1. /\ TypeOK /\ dpc[d] = "got" /\ UNCHANGED <<mon, hand>>
  BY DEF Local, Accept, Reject, orch
<1>2. PICK p \in {"spawned", "rejected"} : dpc' = [dpc EXCEPT ![d] = p]
  BY DEF Accept, Reject
<1>3. hand[d] \in Jobs /\ hand' = [hand EXCEPT ![d] = hand[d]]
  BY <1>1, InHandTypes DEF Local, Bookkeeping, TypeOK
<1>4. \A s \in Streams, j \in Jobs :
        /\ Handled(s, j)' = IF s # d THEN Handled(s, j) ELSE IF hand[d] = j THEN 1 ELSE 0
        /\ Held(s, j)' = IF s # d THEN Held(s, j) ELSE 0
  BY <1>1, <1>2, <1>3 DEF TypeOK, Handled, Held
<1>5. \A j \in Jobs : Handled(d, j) = 0 /\ Held(d, j) = IF j = hand[d] THEN 1 ELSE 0
  BY <1>1 DEF Handled, Held
<1> QED BY <1>1, <1>2, <1>3, <1>4, <1>5, ClaimsKept DEF Decides

LEMMA RejectCounts ==
  ASSUME Local, NEW d \in Daemons, Reject(d)
  PROVE  /\ \A s \in Streams, j \in Jobs :
              /\ New(s, j)' = IF s = REJECTED_STREAM /\ j = hand[d] THEN New(s, j) + 1
                              ELSE New(s, j)
              /\ Pel(s, j)' = Pel(s, j)
         /\ UNCHANGED <<todo, started, again, dropped>>
<1>1. TypeOK /\ hand[d] \in Jobs /\ REJECTED_STREAM \in Streams
  BY Ids, InHandTypes DEF Local, Bookkeeping, Reject
<1>2. streams' = [streams EXCEPT ![REJECTED_STREAM].new[hand[d]] = @ + 1]
  BY DEF Reject
<1>3. \A s \in Streams, j \in Jobs :
        /\ New(s, j)' = IF s = REJECTED_STREAM /\ j = hand[d] THEN New(s, j) + 1
                        ELSE New(s, j)
        /\ Pel(s, j)' = Pel(s, j)
  BY ONLY <1>1, <1>2, Added
<1> QED BY <1>3 DEF Reject, history

LEMMA AckInboxCounts ==
  ASSUME Local, NEW d \in Daemons, AckInbox(d)
  PROVE  /\ hand[d] \in Jobs
         /\ \A s \in Streams, j \in Jobs :
              /\ New(s, j)' = New(s, j)
              /\ Pel(s, j)' = IF s = d /\ j = hand[d] THEN Less(Pel(s, j)) ELSE Pel(s, j)
              /\ Handled(s, j)' = IF s = d /\ j = hand[d] THEN 0 ELSE Handled(s, j)
              /\ Held(s, j)' = Held(s, j)
         /\ SameClaims /\ Handled(d, hand[d]) = 1
         /\ UNCHANGED <<todo, started, again, dropped>>
<1>1. /\ TypeOK /\ d \in Streams /\ hand[d] \in Jobs /\ dpc[d] \in {"spawned", "rejected"}
  BY Ids, InHandTypes DEF Local, Bookkeeping, AckInbox
<1>2. /\ streams' = [streams EXCEPT ![d].pel[hand[d]] = IF @ > 0 THEN @ - 1 ELSE 0]
      /\ dpc' = [dpc EXCEPT ![d] = "idle"] /\ hand' = [hand EXCEPT ![d] = NoJob]
      /\ UNCHANGED <<todo, mon, started, again, dropped>>
  BY DEF AckInbox, orch, history
<1>3. \A s \in Streams, j \in Jobs :
        /\ New(s, j)' = New(s, j)
        /\ Pel(s, j)' = IF s = d /\ j = hand[d] THEN Less(Pel(s, j)) ELSE Pel(s, j)
  BY ONLY <1>1, <1>2, Acked
<1>4. \A s \in Streams, j \in Jobs :
        /\ Handled(s, j)' = IF s # d THEN Handled(s, j) ELSE 0
        /\ Held(s, j)' = IF s # d THEN Held(s, j) ELSE 0
  BY <1>1, <1>2 DEF TypeOK, Handled, Held
<1>5. \A j \in Jobs : Handled(d, j) = (IF j = hand[d] THEN 1 ELSE 0) /\ Held(d, j) = 0
  BY <1>1 DEF Handled, Held
<1> QED BY <1>1, <1>2, <1>3, <1>4, <1>5, ClaimsKept

\* A daemon's hand is emptied without an XACK; what had been decided is counted.
LEMMA FailsCounts ==
  ASSUME Local, NEW d \in Daemons, HandlingFails(d) \/ Stop(d) \/ Die(d)
  PROVE  /\ \A s \in Streams, j \in Jobs :
              /\ Handled(s, j)' = IF s = d THEN 0 ELSE Handled(s, j)
              /\ Held(s, j)' = IF s = d THEN 0 ELSE Held(s, j)
         /\ SameStreams /\ SameClaims
         /\ \A j \in Jobs : /\ again[j] \in Nat /\ again'[j] \in Nat
                            /\ again'[j] = again[j] + Handled(d, j)
         /\ UNCHANGED <<todo, started, dropped>>
<1>1. /\ TypeOK /\ d \in Streams /\ UNCHANGED <<todo, mon, streams, started, dropped>>
  BY Ids DEF Local, HandlingFails, Stop, Die, orch, redis
<1>2. PICK p \in {"deaf", "draining", "off"} :
        dpc' = [dpc EXCEPT ![d] = p] /\ hand' = [hand EXCEPT ![d] = NoJob]
  BY DEF HandlingFails, Stop, Die
<1>3. \A s \in Streams, j \in Jobs :
        /\ Handled(s, j)' = IF s # d THEN Handled(s, j) ELSE 0
        /\ Held(s, j)' = IF s # d THEN Held(s, j) ELSE 0
  BY <1>1, <1>2 DEF TypeOK, Handled, Held
<1>4. \A j \in Jobs : /\ again[j] \in Nat /\ again'[j] \in Nat
                      /\ again'[j] = again[j] + Handled(d, j)
  <2>1. again \in [Jobs -> Nat]
    BY <1>1 DEF TypeOK
  <2>2. CASE dpc[d] \in {"spawned", "rejected"}
    <3>1. again' = [again EXCEPT ![hand[d]] = @ + 1]
      BY <2>2 DEF HandlingFails, Stop, Die, LeftUnacked
    <3>2. \A j \in Jobs : Handled(d, j) = IF j = hand[d] THEN 1 ELSE 0
      BY <2>2 DEF Handled
    <3> QED BY <2>1, <3>1, <3>2
  <2>3. CASE dpc[d] \notin {"spawned", "rejected"}
    <3>1. again' = again
      BY <2>3 DEF HandlingFails, Stop, Die, LeftUnacked
    <3>2. \A j \in Jobs : Handled(d, j) = 0
      BY <2>3 DEF Handled
    <3> QED BY <2>1, <3>1, <3>2
  <2> QED BY <2>2, <2>3
<1> QED BY <1>1, <1>2, <1>3, <1>4, StreamsKept, ClaimsKept

-----------------------------------------------------------------------------
(* A job the orchestrator has not been told of *)

LEMMA DispatcherUntold ==
  ASSUME Local, NEW j \in Jobs, Absent(j), NEW k \in Jobs, k # j, Spawn(k)
  PROVE  Absent(j)'
<1>1. PICK to \in Streams : \A s \in Streams, i \in Jobs :
        /\ New(s, i)' = IF s = to /\ i = k THEN New(s, i) + 1 ELSE New(s, i)
        /\ Pel(s, i)' = Pel(s, i)
  BY SpawnCounts DEF Arrives
<1> QED BY <1>1 DEF Absent, Spawn, daemons, history

LEMMA QuietMonitorUntold ==
  ASSUME Local, NEW j \in Jobs, Absent(j),
         \/ CacheAges \/ TickStarts \/ ScanEnds \/ Forget \/ Claim \/ RetryEnds \/ Interrupt
         \/ \E d \in Daemons : FoundDead(d)
  PROVE  Absent(j)'
<1>0. TypeOK /\ Bookkeeping
  BY DEF Local
<1>1. UNCHANGED <<streams, hand, started>>
  BY DEF CacheAges, TickStarts, ScanEnds, Forget, Claim, RetryEnds, Interrupt, FoundDead,
         redis, daemons, history
<1>2. NoEntries[j] = 0 /\ j # NoJob
  BY Ids DEF NoEntries
<1>3. mon'.batch[j] = 0 /\ mon'.sent # j
  <2>0. mon.batch[j] = 0 /\ mon.sent # j
    BY DEF Absent
  <2>1. CASE CacheAges
    BY <2>0, <2>1 DEF CacheAges
  <2>2. CASE TickStarts
    BY <1>0, <2>0, <2>2 DEF TickStarts, TypeOK
  <2>3. CASE ScanEnds
    BY <1>0, <2>0, <2>3 DEF ScanEnds, TypeOK
  <2>4. CASE Forget
    BY <1>0, <2>0, <2>4 DEF Forget, TypeOK
  <2>5. CASE Claim
    <3>1. mon'.batch = streams[mon.s].pel /\ mon'.sent = mon.sent /\ mon.s \in Streams
      BY <1>0, <2>5, InHandTypes DEF Claim, TypeOK
    <3> QED BY <2>0, <3>1 DEF Absent, Pel
  <2>6. CASE RetryEnds \/ Interrupt
    <3>1. CASE mon' = Idle
      BY <1>2, <3>1 DEF Idle
    <3>2. CASE mon' = [mon EXCEPT !.at = "claim", !.s = REJECTED_STREAM]
      BY <1>0, <2>0, <3>2 DEF TypeOK
    <3> QED BY <2>6, <3>1, <3>2 DEF RetryEnds, Interrupt
  <2>7. ASSUME NEW d \in Daemons, FoundDead(d)
        PROVE  mon'.batch[j] = 0 /\ mon'.sent # j
    <3>1. mon'.batch = streams[d].pel /\ mon'.sent = mon.sent
      BY <1>0, <2>7 DEF FoundDead, TypeOK
    <3> QED BY <2>0, <3>1, Ids DEF Absent, Pel
  <2> QED BY <2>1, <2>2, <2>3, <2>4, <2>5, <2>6, <2>7
<1> QED BY <1>1, <1>3 DEF Absent, New, Pel

LEMMA BusyMonitorUntold ==
  ASSUME Local, NEW j \in Jobs, Absent(j),
         \/ RecoverAcks \/ DeleteInbox \/ ReadNew \/ RetryAcks
         \/ \E k \in Jobs : RecoverSends(k) \/ RetrySends(k)
  PROVE  Absent(j)'
<1>0. TypeOK /\ Bookkeeping /\ mon \in MonType /\ UNCHANGED <<hand, started>>
  BY DEF Local, TypeOK, MonType, Entries, RecoverAcks, DeleteInbox, ReadNew, RetryAcks, RecoverSends,
         RetrySends, daemons, history
<1>1. /\ \A s \in Streams : New(s, j) = 0 /\ Pel(s, j) = 0
      /\ mon.batch[j] = 0 /\ mon.sent # j /\ j # NoJob
  BY Ids DEF Absent
<1>2. CASE RecoverAcks \/ RetryAcks
  <2>1. mon.sent \in Jobs /\ mon.batch[mon.sent] \in Nat \ {0}
    BY <1>2, InHandTypes DEF RecoverAcks, RetryAcks
  <2>2. mon'.sent = NoJob /\ mon'.batch[j] = 0
    BY <1>0, <1>1, <1>2, <2>1, Decremented DEF RecoverAcks, RetryAcks
  <2>3. \A s \in Streams : New(s, j)' = 0 /\ Pel(s, j)' = 0
    BY <1>1, <1>2, AcksCounts DEF Less
  <2> QED BY <1>0, <1>1, <2>2, <2>3 DEF Absent
<1>3. CASE DeleteInbox
  <2>1. mon'.sent = mon.sent /\ mon'.batch = mon.batch
    BY <1>0, <1>3 DEF DeleteInbox, MonType
  <2>2. \A s \in Streams : New(s, j)' = 0 /\ Pel(s, j)' = 0
    BY <1>1, <1>3, DeleteCounts
  <2> QED BY <1>0, <1>1, <2>1, <2>2 DEF Absent
<1>4. CASE ReadNew
  <2>1. mon'.sent = mon.sent /\ mon'.batch = streams[mon.s].new /\ mon.s \in Streams
    BY <1>0, <1>4, InHandTypes DEF ReadNew, MonType
  <2>2. \A s \in Streams : New(s, j)' = 0 /\ Pel(s, j)' = 0
    BY <1>1, <1>4, ReadNewCounts
  <2>3. mon'.batch[j] = 0
    BY <1>1, <2>1 DEF New
  <2> QED BY <1>0, <1>1, <2>1, <2>2, <2>3 DEF Absent
<1>5. ASSUME NEW k \in Jobs, RecoverSends(k) \/ RetrySends(k)
      PROVE  Absent(j)'
  <2>1. mon'.sent = k /\ mon'.batch = mon.batch /\ mon.batch[k] > 0
    BY <1>0, <1>5 DEF RecoverSends, RetrySends, MonType
  <2>2. k # j
    BY <1>1, <2>1
  <2>3. \A s \in Streams : New(s, j)' = 0 /\ Pel(s, j)' = 0
    BY <1>1, <1>5, <2>2, SendsCounts DEF Arrives
  <2> QED BY <1>0, <1>1, <2>1, <2>2, <2>3 DEF Absent
<1> QED BY <1>2, <1>3, <1>4, <1>5

LEMMA DaemonUntold ==
  ASSUME Local, NEW j \in Jobs, Absent(j), NEW d \in Daemons, Daemon(d)
  PROVE  Absent(j)'
<1>0. TypeOK /\ UNCHANGED mon
  BY DEF Local, Daemon, Register, Heartbeat, Accept, Reject, AckInbox, ReadInbox, WorkerExits,
         HandlingFails, Stop, Drained, Die, Expire, orch
<1>1. /\ \A s \in Streams : New(s, j) = 0 /\ Pel(s, j) = 0
      /\ hand[d] # j /\ started[j] = 0 /\ j # NoJob
  BY Ids DEF Absent
<1>2. CASE \/ Register(d) \/ Heartbeat(d) \/ HandlingFails(d) \/ Stop(d) \/ Drained(d) \/ Die(d)
           \/ Expire(d) \/ \E k \in Jobs : WorkerExits(d, k)
  <2>1. UNCHANGED <<streams, started>>
    BY <1>2 DEF Register, Heartbeat, HandlingFails, Stop, Drained, Die, Expire, WorkerExits,
         redis, daemons, history
  <2>2. hand' = hand \/ hand' = [hand EXCEPT ![d] = NoJob]
    BY <1>2 DEF Register, Heartbeat, HandlingFails, Stop, Drained, Die, Expire, WorkerExits,
         daemons
  <2>3. \A x \in Daemons : hand'[x] # j
    BY <1>0, <1>1, <2>2 DEF Absent, TypeOK
  <2> QED BY <1>0, <2>1, <2>3 DEF Absent, New, Pel
<1>3. CASE Accept(d)
  BY <1>0, <1>1, <1>3 DEF Absent, New, Pel, Accept, TypeOK
<1>4. CASE Reject(d)
  <2>1. hand' = hand /\ started' = started
    BY <1>4 DEF Reject, history
  <2>2. \A s \in Streams : New(s, j)' = 0 /\ Pel(s, j)' = 0
    BY <1>1, <1>4, RejectCounts
  <2> QED BY <1>0, <1>1, <2>1, <2>2 DEF Absent
<1>5. CASE AckInbox(d)
  <2>1. hand' = [hand EXCEPT ![d] = NoJob]
    BY <1>5 DEF AckInbox
  <2>2. \A x \in Daemons : hand'[x] # j
    BY <1>0, <1>1, <2>1 DEF Absent, TypeOK
  <2> QED BY <1>0, <1>1, <1>5, <2>2, AckInboxCounts DEF Absent
<1>6. ASSUME NEW k \in Jobs, ReadInbox(d, k)
      PROVE  Absent(j)'
  <2>1. hand' = [hand EXCEPT ![d] = k] /\ k # j
    <3>1. New(d, k) > 0 /\ d \in Streams
      BY <1>6, ReadInboxCounts, Ids
    <3> QED BY <1>1, <1>6, <3>1 DEF ReadInbox
  <2>2. \A x \in Daemons : hand'[x] # j
    BY <1>0, <1>1, <2>1 DEF Absent, TypeOK
  <2> QED BY <1>0, <1>1, <1>6, <2>1, <2>2, ReadInboxCounts DEF Absent
<1> QED BY <1>2, <1>3, <1>4, <1>5, <1>6 DEF Daemon

LEMMA UntoldStep ==
  ASSUME Local, Untold, [Next]_vars
  PROVE  Untold'
<1>0. todo \subseteq Jobs /\ \A j \in todo : Absent(j)
  BY DEF Local, TypeOK, Untold
<1> SUFFICES ASSUME NEW j \in todo'
             PROVE  Absent(j)'
  BY DEF Untold
<1>1. CASE CacheAges \/ Monitor \/ Interrupt
  <2>1. j \in todo
    BY <1>1 DEF CacheAges, Monitor, TickStarts, ScanEnds, RecoverAcks, DeleteInbox, Forget, Claim,
           ReadNew, RetryAcks, RetryEnds, FoundDead, RecoverSends, RetrySends, Interrupt
  <2> QED BY <1>0, <1>1, <2>1, QuietMonitorUntold, BusyMonitorUntold DEF Monitor
<1>2. ASSUME NEW k \in Jobs, Spawn(k) PROVE Absent(j)'
  <2>1. j \in todo /\ j # k
    BY <1>2 DEF Spawn
  <2> QED BY <1>0, <1>2, <2>1, DispatcherUntold
<1>3. ASSUME NEW d \in Daemons, Daemon(d) PROVE Absent(j)'
  <2>1. j \in todo
    BY <1>3 DEF Daemon, Register, Heartbeat, Accept, Reject, AckInbox, ReadInbox,
           WorkerExits, HandlingFails, Stop, Drained, Die, Expire
  <2> QED BY <1>0, <1>3, <2>1, DaemonUntold
<1>4. CASE UNCHANGED vars
  BY <1>0, <1>4 DEF vars, orch, redis, daemons, history, Absent, New, Pel
<1> QED BY <1>1, <1>2, <1>3, <1>4 DEF Next, Dispatcher

-----------------------------------------------------------------------------
(* A job that is not started lies in a stream *)

\* An entry of the pending or the rejected stream the monitor is about to
\* acknowledge is there.
LEMMA ClaimIsThere ==
  ASSUME Local, NEW s \in Streams, s \notin Daemons, NEW j \in Jobs, Claimed(s, j) = 1
  PROVE  Pel(s, j) >= 1
<1>1. mon.sent = j /\ s = Source /\ j # NoJob
  BY Ids DEF Claimed
<1>2. Retrying /\ s = mon.s
  BY <1>1 DEF Local, Bookkeeping, Source, Recovering
<1>3. mon.batch[j] \in Nat \ {0} /\ mon.batch[j] <= Pel(s, j)
  BY <1>1, <1>2, InHandTypes DEF Local, Bookkeeping
<1>4. Pel(s, j) \in Nat
  BY CountTypes
<1> QED BY <1>3, <1>4

LEMMA SafeStays ==
  ASSUME Local, NEW j \in Jobs, KeptFor(j),
         UNCHANGED todo, started' = started, dropped' = dropped,
         \A s \in Streams : Safe(s, j) => Safe(s, j)'
  PROVE  KeptFor(j)'
BY DEF KeptFor

LEMMA QuietKept ==
  ASSUME Local, NEW j \in Jobs, KeptFor(j), Quiet, UNCHANGED <<todo, started, again, dropped>>
  PROVE  KeptFor(j)'
<1>1. \A s \in Streams : Safe(s, j) => Safe(s, j)'
  BY DEF Quiet, SameStreams, SameClaims, SameHands, Safe
<1> QED BY <1>1, SafeStays

LEMMA SpawnKept ==
  ASSUME Local, Untold, NEW j \in Jobs, KeptFor(j), NEW k \in Jobs, Spawn(k)
  PROVE  KeptFor(j)'
<1>1. PICK to \in Streams : \A s \in Streams, i \in Jobs :
        /\ New(s, i)' = IF s = to /\ i = k THEN New(s, i) + 1 ELSE New(s, i)
        /\ Pel(s, i)' = Pel(s, i)
  BY SpawnCounts DEF Arrives
<1>2. /\ SameClaims /\ SameHands /\ k \in todo /\ todo' = todo \ {k}
      /\ UNCHANGED <<started, dropped>>
  BY SpawnCounts
<1>3. CASE j # k
  <2>1. \A s \in Streams : Safe(s, j) => Safe(s, j)'
    BY <1>1, <1>2, <1>3 DEF Safe, SameClaims, SameHands
  <2> QED BY <1>2, <1>3, <2>1 DEF KeptFor
<1>4. CASE j = k
  <2>1. Claimed(to, k) = 0 /\ New(to, k) = 0
    BY <1>2 DEF Untold, Absent, Claimed
  <2>2. New(to, k)' = 1 /\ Claimed(to, k)' = 0
    BY <1>1, <1>2, <2>1 DEF SameClaims
  <2>3. Safe(to, k)'
    BY <2>2 DEF Safe
  <2> QED BY <1>4, <2>3 DEF KeptFor
<1> QED BY <1>3, <1>4

LEMMA SendsKept ==
  ASSUME Local, NEW j \in Jobs, KeptFor(j), NEW k \in Jobs, RetrySends(k) \/ RecoverSends(k)
  PROVE  KeptFor(j)'
<1>1. PICK to \in Streams : \A s \in Streams, i \in Jobs :
        /\ New(s, i)' = IF s = to /\ i = k THEN New(s, i) + 1 ELSE New(s, i)
        /\ Pel(s, i)' = Pel(s, i)
  BY SendsCounts DEF Arrives
<1>2. /\ SameHands /\ UNCHANGED <<todo, started, dropped>>
      /\ \A s \in Streams, i \in Jobs :
              /\ Claimed(s, i) = 0
              /\ Claimed(s, i)' = IF s = Source /\ i = k THEN 1 ELSE 0
  BY SendsCounts
<1>3. CASE j # k
  <2>1. \A s \in Streams : Safe(s, j) => Safe(s, j)'
    BY <1>1, <1>2, <1>3 DEF Safe, SameHands
  <2> QED BY <1>2, <2>1 DEF KeptFor
<1>4. CASE j = k /\ to # Source
  <2>1. New(to, k)' >= 1 /\ Claimed(to, k)' = 0
    BY <1>1, <1>2, <1>4, CountTypes
  <2>2. Safe(to, k)'
    BY <2>1 DEF Safe
  <2> QED BY <1>4, <2>2 DEF KeptFor
<1>5. CASE j = k /\ to = Source
  <2>1. ASSUME NEW s \in Streams, Safe(s, k) PROVE Safe(s, k)'
    <3>1. /\ New(s, k) \in Nat /\ Pel(s, k) \in Nat /\ Handled(s, k) \in {0, 1}
          /\ Claimed(s, k) = 0 /\ Pel(s, k)' = Pel(s, k) /\ Handled(s, k)' = Handled(s, k)
      BY <1>1, <1>2, CountTypes DEF SameHands
    <3>2. CASE s = Source
      <4>1. New(s, k)' = New(s, k) + 1 /\ Claimed(s, k)' = 1
        BY <1>1, <1>2, <1>5, <3>2
      <4> QED BY <2>1, <3>1, <4>1 DEF Safe
    <3>3. CASE s # Source
      <4>1. New(s, k)' = New(s, k) /\ Claimed(s, k)' = 0
        BY <1>1, <1>2, <1>5, <3>3
      <4> QED BY <2>1, <3>1, <4>1 DEF Safe
    <3> QED BY <3>2, <3>3
  <2> QED BY <1>2, <1>5, <2>1 DEF KeptFor
<1> QED BY <1>3, <1>4, <1>5

LEMMA AcksKept ==
  ASSUME Local, NEW j \in Jobs, KeptFor(j), RetryAcks \/ RecoverAcks
  PROVE  KeptFor(j)'
<1>1. ASSUME NEW s \in Streams, Safe(s, j) PROVE Safe(s, j)'
  <2>1. /\ New(s, j) \in Nat /\ Pel(s, j) \in Nat /\ Handled(s, j) \in {0, 1}
        /\ Claimed(s, j) \in {0, 1} /\ Handled(s, j)' = Handled(s, j)
        /\ New(s, j)' = New(s, j)
        /\ Pel(s, j)' = IF Claimed(s, j) = 1 THEN Less(Pel(s, j)) ELSE Pel(s, j)
        /\ Claimed(s, j)' = 0
    BY AcksCounts, CountTypes DEF SameHands
  <2> QED BY <1>1, <2>1 DEF Safe, Less
<1> QED BY <1>1, AcksCounts, SafeStays

LEMMA DeleteKept ==
  ASSUME Local, NEW j \in Jobs, KeptFor(j), DeleteInbox
  PROVE  KeptFor(j)'
<1>1. /\ mon.d \in Streams /\ UNCHANGED <<todo, started>> /\ SameHands
      /\ dropped' = dropped \cup {i \in Jobs : New(mon.d, i) + Pel(mon.d, i) > 0}
  BY DeleteCounts
<1>2. ASSUME NEW s \in Streams, Safe(s, j) PROVE Safe(s, j)' \/ j \in dropped'
  <2>1. CASE s = mon.d
    <3>1. /\ New(s, j) \in Nat /\ Pel(s, j) \in Nat /\ Handled(s, j) \in {0, 1}
          /\ Claimed(s, j) = 0
      BY DeleteCounts, CountTypes
    <3>2. New(s, j) + Pel(s, j) > 0
      BY <1>2, <3>1 DEF Safe
    <3> QED BY <1>1, <2>1, <3>2
  <2>2. CASE s # mon.d
    <3>1. New(s, j)' = New(s, j) /\ Pel(s, j)' = Pel(s, j) /\ Claimed(s, j)' = Claimed(s, j)
          /\ Handled(s, j)' = Handled(s, j)
      BY <1>1, <2>2, DeleteCounts DEF SameHands
    <3> QED BY <1>2, <3>1 DEF Safe
  <2> QED BY <2>1, <2>2
<1> QED BY <1>1, <1>2 DEF KeptFor

LEMMA ReadNewKept ==
  ASSUME Local, NEW j \in Jobs, KeptFor(j), ReadNew
  PROVE  KeptFor(j)'
<1>1. ASSUME NEW s \in Streams, Safe(s, j) PROVE Safe(s, j)'
  <2>1. /\ New(s, j) \in Nat /\ Pel(s, j) \in Nat /\ Handled(s, j) \in {0, 1}
        /\ Handled(s, j)' = Handled(s, j) /\ Claimed(s, j) = 0 /\ Claimed(s, j)' = 0
        /\ New(s, j)' = IF s = mon.s THEN 0 ELSE New(s, j)
        /\ Pel(s, j)' = IF s = mon.s THEN Pel(s, j) + New(s, j) ELSE Pel(s, j)
        /\ s = mon.s => Handled(s, j) = 0
    BY ReadNewCounts, CountTypes DEF SameHands
  <2> QED BY <1>1, <2>1 DEF Safe
<1> QED BY <1>1, ReadNewCounts, SafeStays

LEMMA InterruptKept ==
  ASSUME Local, NEW j \in Jobs, KeptFor(j), Interrupt
  PROVE  KeptFor(j)'
<1>1. ASSUME NEW s \in Streams, Safe(s, j) PROVE Safe(s, j)'
  <2>1. /\ New(s, j) \in Nat /\ Pel(s, j) \in Nat /\ Handled(s, j) \in {0, 1}
        /\ Claimed(s, j) \in {0, 1} /\ Handled(s, j)' = Handled(s, j)
        /\ New(s, j)' = New(s, j) /\ Pel(s, j)' = Pel(s, j) /\ Claimed(s, j)' = 0
    BY InterruptCounts, CountTypes DEF SameHands, SameStreams
  <2> QED BY <1>1, <2>1 DEF Safe
<1> QED BY <1>1, InterruptCounts, SafeStays

LEMMA DaemonKept ==
  ASSUME Local, NEW j \in Jobs, KeptFor(j), NEW d \in Daemons,
         \/ Accept(d) \/ Reject(d) \/ AckInbox(d) \/ HandlingFails(d) \/ Stop(d) \/ Die(d)
         \/ \E k \in Jobs : ReadInbox(d, k)
  PROVE  KeptFor(j)'
<1>0. TypeOK /\ d \in Streams
  BY Ids DEF Local
<1>1. CASE Accept(d)
  <2>1. /\ hand[d] \in Jobs /\ UNCHANGED <<todo, streams, dropped>>
        /\ started' = [started EXCEPT ![hand[d]] = @ + 1]
    BY <1>1, DecidesCounts DEF Accept, Decides
  <2>2. CASE j = hand[d]
    <3>1. started'[j] > 0
      BY <1>0, <2>1, <2>2 DEF TypeOK
    <3> QED BY <3>1 DEF KeptFor
  <2>3. CASE j # hand[d]
    <3>1. \A s \in Streams : Safe(s, j) => Safe(s, j)'
      BY <1>1, <2>1, <2>3, DecidesCounts DEF Decides, SameClaims, Safe, New, Pel
    <3>2. started'[j] = started[j]
      BY <1>0, <2>1, <2>3 DEF TypeOK
    <3> QED BY <2>1, <3>1, <3>2 DEF KeptFor
  <2> QED BY <2>2, <2>3
<1>2. CASE Reject(d)
  <2>1. /\ hand[d] \in Jobs /\ UNCHANGED <<todo, started, dropped>> /\ SameClaims
    BY <1>2, DecidesCounts, RejectCounts DEF Decides
  <2>2. CASE j = hand[d]
    <3>1. /\ New(REJECTED_STREAM, j)' = New(REJECTED_STREAM, j) + 1
          /\ Pel(REJECTED_STREAM, j)' = Pel(REJECTED_STREAM, j)
          /\ Claimed(REJECTED_STREAM, j)' = Claimed(REJECTED_STREAM, j)
          /\ Handled(REJECTED_STREAM, j)' = 0
      BY <1>2, <2>1, <2>2, RejectCounts, Ids DEF SameClaims, Handled
    <3>2. /\ New(REJECTED_STREAM, j) \in Nat /\ Pel(REJECTED_STREAM, j) \in Nat
          /\ Claimed(REJECTED_STREAM, j) \in {0, 1}
          /\ Claimed(REJECTED_STREAM, j) = 1 => Pel(REJECTED_STREAM, j) >= 1
      BY Ids, CountTypes, ClaimIsThere
    <3>3. Safe(REJECTED_STREAM, j)'
      BY <3>1, <3>2 DEF Safe, REJECTED_STREAM
    <3> QED BY <3>3, Ids DEF KeptFor, REJECTED_STREAM
  <2>3. CASE j # hand[d]
    <3>1. \A s \in Streams : Safe(s, j) => Safe(s, j)'
      BY <1>2, <2>1, <2>3, DecidesCounts, RejectCounts DEF Decides, SameClaims, Safe
    <3> QED BY <2>1, <3>1 DEF KeptFor
  <2> QED BY <2>2, <2>3
<1>3. CASE AckInbox(d)
  <2>1. ASSUME NEW s \in Streams, Safe(s, j) PROVE Safe(s, j)'
    <3>1. /\ New(s, j) \in Nat /\ Pel(s, j) \in Nat /\ Handled(s, j) \in {0, 1}
          /\ Claimed(s, j) \in {0, 1} /\ Claimed(s, j)' = Claimed(s, j)
          /\ New(s, j)' = New(s, j)
      BY <1>3, AckInboxCounts, CountTypes DEF SameClaims
    <3>2. CASE s = d /\ j = hand[d]
      <4>1. Pel(s, j)' = Less(Pel(s, j)) /\ Handled(s, j) = 1 /\ Handled(s, j)' = 0
        BY <1>3, <3>2, AckInboxCounts
      <4> QED BY <2>1, <3>1, <4>1 DEF Safe, Less
    <3>3. CASE ~(s = d /\ j = hand[d])
      <4>1. Pel(s, j)' = Pel(s, j) /\ Handled(s, j)' = Handled(s, j)
        BY <1>3, <3>3, AckInboxCounts
      <4> QED BY <2>1, <3>1, <4>1 DEF Safe
    <3> QED BY <3>2, <3>3
  <2> QED BY <1>3, <2>1, AckInboxCounts, SafeStays
<1>4. CASE HandlingFails(d) \/ Stop(d) \/ Die(d)
  <2>1. ASSUME NEW s \in Streams, Safe(s, j) PROVE Safe(s, j)'
    <3>1. /\ New(s, j) \in Nat /\ Pel(s, j) \in Nat /\ Handled(s, j) \in {0, 1}
          /\ Claimed(s, j) \in {0, 1} /\ Claimed(s, j)' = Claimed(s, j)
          /\ New(s, j)' = New(s, j) /\ Pel(s, j)' = Pel(s, j)
          /\ Handled(s, j)' = IF s = d THEN 0 ELSE Handled(s, j)
      BY <1>4, FailsCounts, CountTypes DEF SameClaims, SameStreams
    <3> QED BY <2>1, <3>1 DEF Safe
  <2> QED BY <1>4, <2>1, FailsCounts, SafeStays
<1>5. ASSUME NEW k \in Jobs, ReadInbox(d, k) PROVE KeptFor(j)'
  <2>1. ASSUME NEW s \in Streams, Safe(s, j) PROVE Safe(s, j)'
    <3>1. /\ New(s, j) \in Nat /\ Pel(s, j) \in Nat /\ Handled(s, j) \in {0, 1}
          /\ Claimed(s, j) \in {0, 1} /\ Claimed(s, j)' = Claimed(s, j)
          /\ Handled(s, j)' = Handled(s, j) /\ (s = d => Handled(s, j) = 0)
          /\ New(s, j)' = IF s = d /\ j = k THEN New(s, j) - 1 ELSE New(s, j)
          /\ Pel(s, j)' = IF s = d /\ j = k THEN Pel(s, j) + 1 ELSE Pel(s, j)
      BY <1>5, ReadInboxCounts, CountTypes DEF SameClaims
    <3> QED BY <2>1, <3>1 DEF Safe
  <2> QED BY <1>5, <2>1, ReadInboxCounts, SafeStays
<1> QED BY <1>1, <1>2, <1>3, <1>4, <1>5

LEMMA KeptStep ==
  ASSUME Local, Untold, Kept, [Next]_vars
  PROVE  Kept'
<1> SUFFICES ASSUME NEW j \in Jobs PROVE KeptFor(j)'
  BY DEF Kept, KeptFor
<1>0. KeptFor(j)
  BY DEF Kept, KeptFor
<1>1. CASE \/ CacheAges \/ TickStarts \/ ScanEnds \/ Forget \/ Claim \/ RetryEnds
           \/ \E d \in Daemons : FoundDead(d)
           \/ UNCHANGED vars
  BY <1>0, <1>1, QuietSteps, QuietKept
<1>2. ASSUME NEW k \in Jobs, Spawn(k) PROVE KeptFor(j)'
  BY <1>0, <1>2, SpawnKept
<1>3. CASE \/ RecoverAcks \/ DeleteInbox \/ ReadNew \/ RetryAcks \/ Interrupt
           \/ \E k \in Jobs : RecoverSends(k) \/ RetrySends(k)
  BY <1>0, <1>3, AcksKept, DeleteKept, ReadNewKept, InterruptKept, SendsKept
<1>4. ASSUME NEW d \in Daemons, Daemon(d) PROVE KeptFor(j)'
  <2>1. CASE \/ Register(d) \/ Heartbeat(d) \/ Expire(d) \/ Drained(d)
             \/ \E k \in Jobs : WorkerExits(d, k)
    BY <1>0, <2>1, QuietSteps, QuietKept
  <2> QED BY <1>0, <1>4, <2>1, DaemonKept DEF Daemon
<1> QED BY <1>1, <1>2, <1>3, <1>4 DEF Next, Dispatcher, Monitor

\* A job that is in a stream to stay is somewhere.
LEMMA KeptIsSomewhere == Local /\ Kept => LostOnlyByDelete
<1> SUFFICES ASSUME Local, Kept, NEW j \in Jobs PROVE Somewhere(j) \/ j \in dropped
  BY DEF LostOnlyByDelete
<1>1. ASSUME NEW s \in Streams, Safe(s, j) PROVE Somewhere(j)
  <2>1. New(s, j) + Pel(s, j) > 0
    BY <1>1, CountTypes DEF Safe
  <2> QED BY <2>1 DEF Somewhere, New, Pel
<1> QED BY <1>1 DEF Kept, KeptFor, Somewhere

LEMMA InitKept == Init => Untold /\ Kept
<1> SUFFICES ASSUME Init PROVE Untold /\ Kept
  OBVIOUS
<1>1. \A j \in Jobs : NoEntries[j] = 0 /\ j # NoJob
  BY Ids DEF NoEntries
<1>2. \A s \in Streams, j \in Jobs : New(s, j) = 0 /\ Pel(s, j) = 0
  BY <1>1 DEF Init, New, Pel
<1>3. \A j \in Jobs : Absent(j)
  BY <1>1, <1>2 DEF Absent, Init, Idle
<1> QED BY <1>3 DEF Untold, Kept, KeptFor, Init

\* Whatever fails and whoever is interrupted, a job of which no worker has been
\* started lies in a stream, unless daemon_monitor.py deleted the inbox it was in
\* (_recover_dead_daemon).
THEOREM PullLostOnlyByDelete == Spec => []LostOnlyByDelete
<1>1. Init => Local /\ Untold /\ Kept
  BY InitLocal, InitKept
<1>2. Local /\ Untold /\ Kept /\ [Next]_vars => (Local /\ Untold /\ Kept)'
  BY StepLocal, UntoldStep, KeptStep
<1>3. Local /\ Untold /\ Kept => LostOnlyByDelete
  BY KeptIsSomewhere
<1> QED BY <1>1, <1>2, <1>3, PTL DEF Spec

-----------------------------------------------------------------------------
(* A start is accounted for *)

LEMMA LoadTypes ==
  ASSUME Local, [Next]_vars, NEW s \in Streams, NEW j \in Jobs
  PROVE  Load(s, j) \in Nat /\ Load(s, j)' \in Nat
<1>1. Load(s, j) \in Nat
  BY CountTypes
<1>2. Local'
  BY StepLocal
<1>3. /\ New(s, j)' \in Nat /\ Pel(s, j)' \in Nat
      /\ Claimed(s, j)' \in {0, 1} /\ Handled(s, j)' \in {0, 1} /\ Held(s, j)' \in {0, 1}
  BY <1>2, EntryTypes DEF Local, TypeOK, Entries, Stream, New, Pel, Claimed, Handled, Held
<1>4. Load(s, j)' \in Nat
  BY <1>3 DEF Load
<1> QED BY <1>1, <1>4

\* The changes of the load of the streams that the steps make.
Shrinks(j) == \A s \in Streams : Load(s, j)' <= Load(s, j)

Grows(j) ==
  \E x \in Streams :
    /\ Load(x, j)' <= Load(x, j) + 1
    /\ \A s \in Streams : s # x => Load(s, j)' <= Load(s, j)

Loses(j) ==
  \E y \in Streams :
    /\ Load(y, j)' <= Load(y, j) - 1
    /\ \A s \in Streams : s # y => Load(s, j)' <= Load(s, j)

Moves(j) ==
  \E x, y \in Streams :
    /\ x # y
    /\ Load(x, j)' <= Load(x, j) + 1 /\ Load(y, j)' <= Load(y, j) - 1
    /\ \A s \in Streams : s \notin {x, y} => Load(s, j)' <= Load(s, j)

LEMMA TokenSets ==
  ASSUME Local, [Next]_vars, NEW j \in Jobs
  PROVE  /\ Shrinks(j) => Tokens(j)' \subseteq Tokens(j)
         /\ Grows(j) => \E t : Tokens(j)' \subseteq Tokens(j) \cup {t}
         /\ Loses(j) => \E t \in Tokens(j) : Tokens(j)' \subseteq Tokens(j) \ {t}
         /\ Moves(j) => \E t, u : t \in Tokens(j) /\ Tokens(j)' \subseteq (Tokens(j) \ {t}) \cup {u}
<1>0. \A s \in Streams : Load(s, j) \in Nat /\ Load(s, j)' \in Nat
  BY LoadTypes
<1>1. \A s \in Streams, n \in Nat :
        /\ <<s, n>> \in Tokens(j) <=> 1 <= n /\ n <= Load(s, j)
        /\ <<s, n>> \in Tokens(j)' <=> 1 <= n /\ n <= Load(s, j)'
  BY DEF Tokens
<1>2. /\ \A t \in Tokens(j) : \E s \in Streams, n \in Nat : t = <<s, n>>
      /\ \A t \in Tokens(j)' : \E s \in Streams, n \in Nat : t = <<s, n>>
  BY DEF Tokens
<1>3. ASSUME Shrinks(j) PROVE Tokens(j)' \subseteq Tokens(j)
  <2>1. ASSUME NEW s \in Streams, NEW n \in Nat, <<s, n>> \in Tokens(j)'
        PROVE  <<s, n>> \in Tokens(j)
    BY <1>0, <1>1, <1>3, <2>1 DEF Shrinks
  <2> QED BY <1>2, <2>1
<1>4. ASSUME Grows(j) PROVE \E t : Tokens(j)' \subseteq Tokens(j) \cup {t}
  <2>1. PICK x \in Streams :
          /\ Load(x, j)' <= Load(x, j) + 1
          /\ \A s \in Streams : s # x => Load(s, j)' <= Load(s, j)
    BY <1>4 DEF Grows
  <2> DEFINE t == <<x, Load(x, j) + 1>>
  <2>2. ASSUME NEW s \in Streams, NEW n \in Nat, <<s, n>> \in Tokens(j)'
        PROVE  <<s, n>> \in Tokens(j) \cup {t}
    <3>1. 1 <= n /\ n <= Load(s, j)' /\ Load(s, j) \in Nat /\ Load(s, j)' \in Nat
      BY <1>0, <1>1, <2>2
    <3>2. CASE n <= Load(s, j)
      BY <1>1, <3>1, <3>2
    <3>3. CASE ~(n <= Load(s, j))
      <4>1. s = x
        BY <2>1, <3>1, <3>3
      <4>2. n = Load(x, j) + 1
        BY <2>1, <3>1, <3>3, <4>1
      <4> QED BY <4>1, <4>2
    <3> QED BY <3>2, <3>3
  <2>3. Tokens(j)' \subseteq Tokens(j) \cup {t}
    BY <1>2, <2>2
  <2> QED BY <2>3
<1>5. ASSUME Loses(j) PROVE \E t \in Tokens(j) : Tokens(j)' \subseteq Tokens(j) \ {t}
  <2>1. PICK y \in Streams :
          /\ Load(y, j)' <= Load(y, j) - 1
          /\ \A s \in Streams : s # y => Load(s, j)' <= Load(s, j)
    BY <1>5 DEF Loses
  <2> DEFINE m == Load(y, j)
             t == <<y, m>>
  <2>2. t \in Tokens(j)
    BY <1>0, <1>1, <2>1
  <2>3. ASSUME NEW s \in Streams, NEW n \in Nat, <<s, n>> \in Tokens(j)'
        PROVE  <<s, n>> \in Tokens(j) \ {t}
    <3>1. 1 <= n /\ n <= Load(s, j)' /\ Load(s, j) \in Nat /\ Load(s, j)' \in Nat
      BY <1>0, <1>1, <2>3
    <3>2. <<s, n>> \in Tokens(j)
      <4>1. n <= Load(s, j)
        BY <2>1, <3>1
      <4> QED BY <1>1, <3>1, <4>1
    <3>3. <<s, n>> # t
      BY <2>1, <3>1
    <3> QED BY <3>2, <3>3
  <2>4. Tokens(j)' \subseteq Tokens(j) \ {t}
    BY <1>2, <2>3
  <2> QED BY <2>2, <2>4
<1>6. ASSUME Moves(j)
      PROVE  \E t, u : t \in Tokens(j) /\ Tokens(j)' \subseteq (Tokens(j) \ {t}) \cup {u}
  <2>1. PICK x \in Streams, y \in Streams :
          /\ x # y
          /\ Load(x, j)' <= Load(x, j) + 1 /\ Load(y, j)' <= Load(y, j) - 1
          /\ \A s \in Streams : s \notin {x, y} => Load(s, j)' <= Load(s, j)
    BY <1>6 DEF Moves
  <2> DEFINE m == Load(y, j)
             t == <<y, m>>
             u == <<x, Load(x, j) + 1>>
  <2>2. t \in Tokens(j)
    BY <1>0, <1>1, <2>1
  <2>3. ASSUME NEW s \in Streams, NEW n \in Nat, <<s, n>> \in Tokens(j)'
        PROVE  <<s, n>> \in (Tokens(j) \ {t}) \cup {u}
    <3>1. 1 <= n /\ n <= Load(s, j)' /\ Load(s, j) \in Nat /\ Load(s, j)' \in Nat
      BY <1>0, <1>1, <2>3
    <3>2. CASE n <= Load(s, j)
      <4>1. <<s, n>> \in Tokens(j)
        BY <1>1, <3>1, <3>2
      <4>2. <<s, n>> # t
        BY <2>1, <3>1
      <4> QED BY <4>1, <4>2
    <3>3. CASE ~(n <= Load(s, j))
      <4>1. s = x
        BY <2>1, <3>1, <3>3
      <4>2. n = Load(x, j) + 1
        BY <2>1, <3>1, <3>3, <4>1
      <4> QED BY <4>1, <4>2
    <3> QED BY <3>2, <3>3
  <2>4. Tokens(j)' \subseteq (Tokens(j) \ {t}) \cup {u}
    BY <1>2, <2>3
  <2> QED BY <2>2, <2>4
<1> QED BY <1>3, <1>4, <1>5, <1>6

LEMMA TokenCount ==
  ASSUME Local, [Next]_vars, NEW j \in Jobs, IsFiniteSet(Tokens(j)),
         Shrinks(j) \/ Grows(j) \/ Loses(j) \/ Moves(j)
  PROVE  /\ IsFiniteSet(Tokens(j)')
         /\ Cardinality(Tokens(j)) \in Nat /\ Cardinality(Tokens(j)') \in Nat
         /\ Shrinks(j) => Cardinality(Tokens(j)') <= Cardinality(Tokens(j))
         /\ Grows(j) => Cardinality(Tokens(j)') <= Cardinality(Tokens(j)) + 1
         /\ Loses(j) => Cardinality(Tokens(j)') + 1 <= Cardinality(Tokens(j))
         /\ Moves(j) => Cardinality(Tokens(j)') <= Cardinality(Tokens(j))
<1> DEFINE T == Tokens(j)
           U == Tokens(j)'
<1>0. Cardinality(T) \in Nat
  BY FS_CardinalityType
<1>1. ASSUME Shrinks(j) PROVE IsFiniteSet(U) /\ Cardinality(U) <= Cardinality(T)
  BY <1>1, TokenSets, FS_Subset
<1>2. ASSUME Grows(j) PROVE IsFiniteSet(U) /\ Cardinality(U) <= Cardinality(T) + 1
  <2>1. PICK t : U \subseteq T \cup {t}
    BY <1>2, TokenSets
  <2>2. IsFiniteSet(T \cup {t}) /\ Cardinality(T \cup {t}) <= Cardinality(T) + 1
    BY <1>0, FS_AddElement
  <2>3. IsFiniteSet(U) /\ Cardinality(U) <= Cardinality(T \cup {t})
    BY <2>1, <2>2, FS_Subset
  <2>4. Cardinality(U) \in Nat /\ Cardinality(T \cup {t}) \in Nat
    BY <2>2, <2>3, FS_CardinalityType
  <2> QED BY <1>0, <2>2, <2>3, <2>4
<1>3. ASSUME Loses(j) PROVE IsFiniteSet(U) /\ Cardinality(U) + 1 <= Cardinality(T)
  <2>1. PICK t \in T : U \subseteq T \ {t}
    BY <1>3, TokenSets
  <2>2. IsFiniteSet(T \ {t}) /\ Cardinality(T \ {t}) = Cardinality(T) - 1
    BY <1>0, FS_RemoveElement
  <2>3. IsFiniteSet(U) /\ Cardinality(U) <= Cardinality(T \ {t})
    BY <2>1, <2>2, FS_Subset
  <2>4. Cardinality(U) \in Nat
    BY <2>3, FS_CardinalityType
  <2> QED BY <1>0, <2>2, <2>3, <2>4
<1>4. ASSUME Moves(j) PROVE IsFiniteSet(U) /\ Cardinality(U) <= Cardinality(T)
  <2>1. PICK t, u : t \in T /\ U \subseteq (T \ {t}) \cup {u}
    BY <1>4, TokenSets
  <2> DEFINE V == T \ {t}
  <2>2. IsFiniteSet(V) /\ Cardinality(V) = Cardinality(T) - 1
    BY <1>0, <2>1, FS_RemoveElement
  <2>3. IsFiniteSet(V \cup {u}) /\ Cardinality(V \cup {u}) <= Cardinality(V) + 1
    <3> HIDE DEF V
    <3> QED BY <1>0, <2>2, FS_AddElement
  <2>4. IsFiniteSet(U) /\ Cardinality(U) <= Cardinality(V \cup {u})
    BY <2>1, <2>3, FS_Subset
  <2>5. Cardinality(U) \in Nat /\ Cardinality(V \cup {u}) \in Nat
    BY <2>3, <2>4, FS_CardinalityType
  <2> HIDE DEF V
  <2> QED BY <1>0, <2>2, <2>3, <2>4, <2>5
<1>5. IsFiniteSet(U)
  BY <1>1, <1>2, <1>3, <1>4
<1>6. Cardinality(U) \in Nat
  BY <1>5, FS_CardinalityType
<1> QED BY <1>0, <1>1, <1>2, <1>3, <1>4, <1>5, <1>6

\* What a step may do to the account of a job.
Balanced(j) ==
  \/ /\ Shrinks(j) \/ Moves(j)
     /\ started'[j] = started[j] /\ again'[j] >= again[j] /\ ToldOf(j)' = ToldOf(j)
  \/ /\ Grows(j)
     /\ started'[j] = started[j]
     /\ again'[j] + ToldOf(j) = again[j] + ToldOf(j)' + 1
  \/ /\ Loses(j)
     /\ started'[j] = started[j] + 1 /\ again'[j] = again[j] /\ ToldOf(j)' = ToldOf(j)

LEMMA BalancedSteps ==
  ASSUME Local, [Next]_vars, Counted, \A j \in Jobs : Balanced(j)
  PROVE  Counted'
<1> SUFFICES ASSUME NEW j \in Jobs
             PROVE  /\ IsFiniteSet(Tokens(j)')
                    /\ started'[j] + Cardinality(Tokens(j)') + ToldOf(j)' <= 1 + again'[j]
  BY DEF Counted
<1>1. /\ started[j] \in Nat /\ again[j] \in Nat /\ started'[j] \in Nat /\ again'[j] \in Nat
  BY StepLocal DEF Local, TypeOK
<1>2. ToldOf(j) \in {0, 1} /\ ToldOf(j)' \in {0, 1}
  BY DEF ToldOf
<1>3. /\ IsFiniteSet(Tokens(j))
      /\ started[j] + Cardinality(Tokens(j)) + ToldOf(j) <= 1 + again[j]
  BY DEF Counted
<1>4. Balanced(j)
  OBVIOUS
<1>5. /\ IsFiniteSet(Tokens(j)')
      /\ Cardinality(Tokens(j)) \in Nat /\ Cardinality(Tokens(j)') \in Nat
      /\ Shrinks(j) => Cardinality(Tokens(j)') <= Cardinality(Tokens(j))
      /\ Grows(j) => Cardinality(Tokens(j)') <= Cardinality(Tokens(j)) + 1
      /\ Loses(j) => Cardinality(Tokens(j)') + 1 <= Cardinality(Tokens(j))
      /\ Moves(j) => Cardinality(Tokens(j)') <= Cardinality(Tokens(j))
  BY <1>3, <1>4, TokenCount DEF Balanced
<1> QED BY <1>1, <1>2, <1>3, <1>4, <1>5 DEF Balanced

LEMMA QuietBalanced ==
  ASSUME Local, Quiet, UNCHANGED <<todo, started, again, dropped>>, NEW j \in Jobs
  PROVE  Balanced(j)
<1>1. ASSUME NEW s \in Streams PROVE Load(s, j)' <= Load(s, j)
  <2>1. Load(s, j)' = Load(s, j)
    BY DEF Quiet, SameStreams, SameClaims, SameHands, Load
  <2> QED BY <2>1, CountTypes
<1>2. again[j] \in Nat
  BY DEF Local, TypeOK
<1> QED BY <1>1, <1>2 DEF Balanced, Shrinks, ToldOf

LEMMA SpawnBalanced ==
  ASSUME Local, NEW k \in Jobs, Spawn(k), NEW j \in Jobs
  PROVE  Balanced(j)
<1>1. PICK to \in Streams : \A s \in Streams, i \in Jobs :
        /\ New(s, i)' = IF s = to /\ i = k THEN New(s, i) + 1 ELSE New(s, i)
        /\ Pel(s, i)' = Pel(s, i)
  BY SpawnCounts DEF Arrives
<1>2. /\ SameClaims /\ SameHands /\ k \in todo /\ todo' = todo \ {k}
      /\ UNCHANGED <<started, again>>
  BY SpawnCounts
<1>3. again[j] \in Nat
  BY DEF Local, TypeOK
<1>4. ASSUME NEW s \in Streams
      PROVE  Load(s, j)' = IF s = to /\ j = k THEN Load(s, j) + 1 ELSE Load(s, j)
  BY <1>1, <1>2, CountTypes DEF SameClaims, SameHands, Load
<1>5. CASE j = k
  <2>1. Grows(j)
    BY <1>4, <1>5, CountTypes DEF Grows
  <2> QED BY <1>2, <1>3, <1>5, <2>1 DEF Balanced, ToldOf
<1>6. CASE j # k
  <2>1. Shrinks(j)
    BY <1>4, <1>6, CountTypes DEF Shrinks
  <2> QED BY <1>2, <1>3, <1>6, <2>1 DEF Balanced, ToldOf
<1> QED BY <1>5, <1>6

\* A job that is sent on from an entry nobody else answers for moves; otherwise
\* the monitor's second dispatch is counted.
LEMMA SendsBalanced ==
  ASSUME Local, NEW k \in Jobs, RetrySends(k) \/ RecoverSends(k), NEW j \in Jobs
  PROVE  Balanced(j)
<1>0. TypeOK /\ Bookkeeping
  BY DEF Local
<1>1. PICK to \in Streams : \A s \in Streams, i \in Jobs :
        /\ New(s, i)' = IF s = to /\ i = k THEN New(s, i) + 1 ELSE New(s, i)
        /\ Pel(s, i)' = Pel(s, i)
  BY SendsCounts DEF Arrives
<1>2. /\ SameHands /\ UNCHANGED <<todo, started>> /\ Source \in Streams
      /\ mon.batch[k] > 0 /\ mon.batch \in Entries
      /\ \A s \in Streams, i \in Jobs :
              /\ Claimed(s, i) = 0
              /\ Claimed(s, i)' = IF s = Source /\ i = k THEN 1 ELSE 0
  BY SendsCounts
<1>3. again[j] \in Nat /\ ToldOf(j)' = ToldOf(j) /\ ToldOf(j) \in {0, 1}
  BY <1>0, <1>2 DEF TypeOK, ToldOf
<1>4. ASSUME NEW s \in Streams
      PROVE  /\ New(s, j) \in Nat /\ Pel(s, j) \in Nat /\ Handled(s, j) \in {0, 1}
             /\ Held(s, j) \in {0, 1} /\ Handled(s, j)' = Handled(s, j)
             /\ Held(s, j)' = Held(s, j) /\ Pel(s, j)' = Pel(s, j) /\ Claimed(s, j) = 0
             /\ Load(s, j) \in Nat
  BY <1>1, <1>2, CountTypes DEF SameHands
<1>5. CASE j # k
  <2>1. again'[j] = again[j]
    BY <1>0, <1>5 DEF TypeOK, RetrySends, RecoverSends, history
  <2>2. \A s \in Streams : Load(s, j)' = Load(s, j)
    BY <1>1, <1>2, <1>4, <1>5 DEF Load
  <2>3. Shrinks(j)
    BY <1>4, <2>2 DEF Shrinks
  <2> QED BY <1>2, <1>3, <2>1, <2>3 DEF Balanced
<1>6. CASE j = k /\ RecoverSends(k) /\ Redispatched(k)
  <2>1. again'[j] = again[j] + 1
    BY <1>0, <1>6 DEF TypeOK, RecoverSends
  <2>2. ASSUME NEW s \in Streams
        PROVE  Load(s, j)' <= IF s = to THEN Load(s, j) + 1 ELSE Load(s, j)
    <3>1. New(s, j)' = IF s = to THEN New(s, j) + 1 ELSE New(s, j)
      BY <1>1, <1>6
    <3>2. Claimed(s, j)' \in {0, 1}
      BY <1>2
    <3> QED BY <1>4, <3>1, <3>2 DEF Load
  <2>3. Grows(j)
    BY <2>2 DEF Grows
  <2> QED BY <1>2, <1>3, <2>1, <2>3 DEF Balanced
<1>7. ASSUME j = k, RetrySends(k) \/ ~Redispatched(k)
      PROVE  Balanced(j)
  <2>1. again'[j] = again[j]
    BY <1>0, <1>7 DEF TypeOK, RetrySends, RecoverSends, history
  <2>2. Pel(Source, j) >= mon.batch[j] /\ Handled(Source, j) = 0 /\ Held(Source, j) = 0
    <3>1. CASE RetrySends(k)
      <4>1. Retrying /\ Source = mon.s
        BY <3>1 DEF RetrySends, Retrying, Source, Recovering
      <4>2. Source \notin Daemons
        BY <4>1, InHandTypes
      <4>3. mon.batch[j] <= Pel(Source, j)
        BY <1>0, <4>1 DEF Bookkeeping
      <4>4. mon.batch[j] \in Nat
        BY <1>2 DEF Entries
      <4> QED BY <1>2, <1>4, <4>2, <4>3, <4>4 DEF Handled, Held
    <3>2. CASE RecoverSends(k)
      <4>1. CASE ~Redispatched(k)
        <5>1. /\ ~(streams[mon.d].pel[j] < mon.batch[j])
              /\ dpc[mon.d] = "off" \/ hand[mon.d] # j
          BY <1>7, <4>1 DEF Redispatched
        <5>2. Source = mon.d
          BY <3>2 DEF RecoverSends, Source, Recovering
        <5>3. Pel(Source, j) >= mon.batch[j]
          <6>1. mon.batch[j] \in Nat /\ Pel(Source, j) \in Nat
            BY <1>2, <1>4 DEF Entries
          <6> QED BY <5>1, <5>2, <6>1 DEF Pel
        <5> QED BY <5>1, <5>2, <5>3 DEF Handled, Held
      <4>2. CASE RetrySends(k)
        BY <3>1, <4>2
      <4> QED BY <1>7, <4>1, <4>2
    <3> QED BY <3>1, <3>2
  <2>3. Pel(Source, j) >= 1
    <3>1. mon.batch[j] \in Nat /\ mon.batch[j] > 0
      BY <1>2, <1>7 DEF Entries
    <3> QED BY <1>2, <1>4, <2>2, <3>1
  <2>4. CASE to = Source
    <3>1. ASSUME NEW s \in Streams PROVE Load(s, j)' <= Load(s, j)
      <4>1. CASE s = Source
        <5>1. New(s, j)' = New(s, j) + 1 /\ Claimed(s, j)' = 1
          BY <1>1, <1>2, <1>7, <2>4, <4>1
        <5> QED BY <1>4, <2>2, <2>3, <4>1, <5>1 DEF Load
      <4>2. CASE s # Source
        <5>1. New(s, j)' = New(s, j) /\ Claimed(s, j)' = 0
          BY <1>1, <1>2, <1>7, <2>4, <4>2
        <5> QED BY <1>4, <5>1 DEF Load
      <4> QED BY <4>1, <4>2
    <3> QED BY <1>2, <1>3, <2>1, <3>1 DEF Balanced, Shrinks
  <2>5. CASE to # Source
    <3>0. PICK y \in Streams : y = Source
      BY <1>2
    <3>1. Load(y, j)' <= Load(y, j) - 1
      <4>1. New(y, j)' = New(y, j) /\ Claimed(y, j)' = 1
        BY <1>1, <1>2, <1>7, <2>5, <3>0
      <4> QED BY <1>4, <2>2, <2>3, <3>0, <4>1 DEF Load
    <3>2. Load(to, j)' <= Load(to, j) + 1
      <4>1. New(to, j)' = New(to, j) + 1 /\ Claimed(to, j)' = 0
        BY <1>1, <1>2, <1>7, <2>5
      <4> QED BY <1>4, <4>1 DEF Load
    <3>3. ASSUME NEW s \in Streams, s \notin {to, Source} PROVE Load(s, j)' <= Load(s, j)
      <4>1. New(s, j)' = New(s, j) /\ Claimed(s, j)' = 0
        BY <1>1, <1>2, <1>7, <3>3
      <4> QED BY <1>4, <4>1 DEF Load
    <3>4. Moves(j)
      BY <2>5, <3>0, <3>1, <3>2, <3>3 DEF Moves
    <3> QED BY <1>2, <1>3, <2>1, <3>4 DEF Balanced
  <2> QED BY <2>4, <2>5
<1> QED BY <1>5, <1>6, <1>7

LEMMA MonitorBalanced ==
  ASSUME Local, RetryAcks \/ RecoverAcks \/ DeleteInbox \/ ReadNew, NEW j \in Jobs
  PROVE  Balanced(j)
<1>1. UNCHANGED <<todo, started, again>>
  BY AcksCounts, DeleteCounts, ReadNewCounts
<1>2. again[j] \in Nat
  BY DEF Local, TypeOK
<1>3. ASSUME NEW s \in Streams PROVE Load(s, j)' <= Load(s, j)
  <2>1. /\ New(s, j) \in Nat /\ Pel(s, j) \in Nat
        /\ Claimed(s, j) \in {0, 1} /\ Handled(s, j) \in {0, 1} /\ Held(s, j) \in {0, 1}
        /\ Handled(s, j)' = Handled(s, j) /\ Held(s, j)' = Held(s, j) /\ Claimed(s, j)' = 0
    BY CountTypes, AcksCounts, DeleteCounts, ReadNewCounts DEF SameHands
  <2>2. CASE RetryAcks \/ RecoverAcks
    <3>1. /\ New(s, j)' = New(s, j)
          /\ Pel(s, j)' = IF Claimed(s, j) = 1 THEN Less(Pel(s, j)) ELSE Pel(s, j)
      BY <2>2, AcksCounts
    <3> QED BY <2>1, <3>1 DEF Load, Less
  <2>3. CASE DeleteInbox
    <3>1. Claimed(s, j) = 0
      BY <2>3, DeleteCounts
    <3>2. \/ New(s, j)' = 0 /\ Pel(s, j)' = 0
          \/ New(s, j)' = New(s, j) /\ Pel(s, j)' = Pel(s, j)
      BY <2>3, DeleteCounts
    <3> QED BY <2>1, <3>1, <3>2 DEF Load
  <2>4. CASE ReadNew
    <3>1. Claimed(s, j) = 0
      BY <2>4, ReadNewCounts
    <3>2. CASE s = mon.s
      <4>1. /\ New(s, j)' = 0 /\ Pel(s, j)' = Pel(s, j) + New(s, j)
            /\ Handled(s, j) = 0 /\ Held(s, j) = 0
        BY <2>4, <3>2, ReadNewCounts
      <4> QED BY <2>1, <3>1, <4>1 DEF Load
    <3>3. CASE s # mon.s
      <4>1. New(s, j)' = New(s, j) /\ Pel(s, j)' = Pel(s, j)
        BY <2>4, <3>3, ReadNewCounts
      <4> QED BY <2>1, <3>1, <4>1 DEF Load
    <3> QED BY <3>2, <3>3
  <2> QED BY <2>2, <2>3, <2>4
<1> QED BY <1>1, <1>2, <1>3 DEF Balanced, Shrinks, ToldOf

LEMMA InterruptBalanced ==
  ASSUME Local, Interrupt, NEW j \in Jobs
  PROVE  Balanced(j)
<1>1. /\ SameStreams /\ SameHands /\ UNCHANGED <<todo, started>>
      /\ again[j] \in Nat /\ again'[j] \in Nat
      /\ again'[j] = IF mon.sent = j THEN again[j] + 1 ELSE again[j]
  BY InterruptCounts
<1>2. ToldOf(j)' = ToldOf(j) /\ ToldOf(j) \in {0, 1}
  BY <1>1 DEF ToldOf
<1>3. ASSUME NEW s \in Streams
      PROVE  Load(s, j)' <= Load(s, j) + Claimed(s, j) /\ Load(s, j) \in Nat
  <2>1. /\ New(s, j) \in Nat /\ Pel(s, j) \in Nat /\ Load(s, j) \in Nat
        /\ Claimed(s, j) \in {0, 1} /\ Handled(s, j) \in {0, 1} /\ Held(s, j) \in {0, 1}
        /\ Handled(s, j)' = Handled(s, j) /\ Held(s, j)' = Held(s, j) /\ Claimed(s, j)' = 0
        /\ New(s, j)' = New(s, j) /\ Pel(s, j)' = Pel(s, j)
    BY <1>1, CountTypes, InterruptCounts DEF SameHands, SameStreams
  <2> QED BY <2>1 DEF Load
<1>4. CASE mon.sent = j
  <2>1. PICK x \in Streams : x = Source
    BY InHandTypes DEF Source
  <2>2. \A s \in Streams : Claimed(s, j) = IF s = x THEN 1 ELSE 0
    BY <1>4, <2>1 DEF Claimed
  <2>3. Grows(j)
    BY <1>3, <2>2 DEF Grows
  <2> QED BY <1>1, <1>2, <1>4, <2>3 DEF Balanced
<1>5. CASE mon.sent # j
  <2>1. \A s \in Streams : Claimed(s, j) = 0
    BY <1>5 DEF Claimed
  <2>2. Shrinks(j)
    BY <1>3, <2>1 DEF Shrinks
  <2> QED BY <1>1, <1>2, <1>5, <2>2 DEF Balanced
<1> QED BY <1>4, <1>5

LEMMA DaemonBalanced ==
  ASSUME Local, NEW d \in Daemons,
         \/ Accept(d) \/ Reject(d) \/ AckInbox(d) \/ HandlingFails(d) \/ Stop(d) \/ Die(d)
         \/ \E k \in Jobs : ReadInbox(d, k),
         NEW j \in Jobs
  PROVE  Balanced(j)
<1>0. TypeOK /\ d \in Streams /\ started[j] \in Nat /\ again[j] \in Nat
  BY Ids DEF Local, TypeOK
<1>1. UNCHANGED todo /\ ToldOf(j)' = ToldOf(j) /\ ToldOf(j) \in {0, 1}
  BY DEF Accept, Reject, AckInbox, HandlingFails, Stop, Die, ReadInbox, ToldOf
<1>2. ASSUME NEW s \in Streams
      PROVE  /\ New(s, j) \in Nat /\ Pel(s, j) \in Nat /\ Load(s, j) \in Nat
             /\ Claimed(s, j) \in {0, 1} /\ Handled(s, j) \in {0, 1} /\ Held(s, j) \in {0, 1}
             /\ Handled(s, j) = 1 => Held(s, j) = 0
  BY CountTypes
<1>3. CASE Accept(d)
  <2>1. /\ Decides(d, hand[d]) /\ SameStreams /\ again' = again
        /\ started' = [started EXCEPT ![hand[d]] = @ + 1]
    BY <1>3, DecidesCounts, StreamsKept DEF Accept
  <2>2. CASE j = hand[d]
    <3>1. Load(d, j)' <= Load(d, j) - 1
      <4>1. /\ New(d, j)' = New(d, j) /\ Pel(d, j)' = Pel(d, j) /\ Claimed(d, j)' = Claimed(d, j)
            /\ Handled(d, j) = 0 /\ Held(d, j) = 1 /\ Handled(d, j)' = 1 /\ Held(d, j)' = 0
        BY <1>0, <2>1, <2>2 DEF Decides, SameStreams, SameClaims
      <4> QED BY <1>0, <1>2, <4>1 DEF Load
    <3>2. ASSUME NEW s \in Streams, s # d PROVE Load(s, j)' <= Load(s, j)
      <4>1. Load(s, j)' = Load(s, j)
        BY <2>1, <3>2 DEF Decides, SameStreams, SameClaims, Load
      <4> QED BY <1>2, <4>1
    <3>3. Loses(j)
      BY <1>0, <3>1, <3>2 DEF Loses
    <3>4. started'[j] = started[j] + 1
      BY <1>0, <2>1, <2>2 DEF TypeOK
    <3> QED BY <1>1, <2>1, <3>3, <3>4 DEF Balanced
  <2>3. CASE j # hand[d]
    <3>1. ASSUME NEW s \in Streams PROVE Load(s, j)' <= Load(s, j)
      <4>1. Load(s, j)' = Load(s, j)
        BY <2>1, <2>3 DEF Decides, SameStreams, SameClaims, Load
      <4> QED BY <1>2, <4>1
    <3>2. started'[j] = started[j]
      BY <1>0, <2>1, <2>3 DEF TypeOK
    <3> QED BY <1>0, <1>1, <2>1, <3>1, <3>2 DEF Balanced, Shrinks
  <2> QED BY <2>2, <2>3
<1>4. CASE Reject(d)
  <2>1. /\ Decides(d, hand[d]) /\ UNCHANGED <<started, again>>
        /\ \A s \in Streams, i \in Jobs :
             /\ New(s, i)' = IF s = REJECTED_STREAM /\ i = hand[d] THEN New(s, i) + 1
                             ELSE New(s, i)
             /\ Pel(s, i)' = Pel(s, i)
    BY <1>4, DecidesCounts, RejectCounts
  <2>2. CASE j = hand[d]
    <3>0. PICK r \in Streams : r = REJECTED_STREAM /\ r # d
      BY Ids
    <3>1. Load(d, j)' <= Load(d, j) - 1
      <4>1. /\ New(d, j)' = New(d, j) /\ Pel(d, j)' = Pel(d, j) /\ Claimed(d, j)' = Claimed(d, j)
            /\ Handled(d, j) = 0 /\ Held(d, j) = 1 /\ Handled(d, j)' = 1 /\ Held(d, j)' = 0
        BY <1>0, <2>1, <2>2, <3>0 DEF Decides, SameClaims
      <4> QED BY <1>0, <1>2, <4>1 DEF Load
    <3>2. Load(r, j)' <= Load(r, j) + 1
      <4>1. /\ New(r, j)' = New(r, j) + 1 /\ Pel(r, j)' = Pel(r, j)
            /\ Claimed(r, j)' = Claimed(r, j)
            /\ Handled(r, j)' = Handled(r, j) /\ Held(r, j)' = Held(r, j)
        BY <2>1, <2>2, <3>0 DEF Decides, SameClaims
      <4> QED BY <1>2, <4>1 DEF Load
    <3>3. ASSUME NEW s \in Streams, s \notin {d, r} PROVE Load(s, j)' <= Load(s, j)
      <4>1. Load(s, j)' = Load(s, j)
        BY <2>1, <3>0, <3>3 DEF Decides, SameClaims, Load
      <4> QED BY <1>2, <4>1
    <3>4. Moves(j)
      BY <1>0, <3>0, <3>1, <3>2, <3>3 DEF Moves
    <3> QED BY <1>0, <1>1, <2>1, <3>4 DEF Balanced
  <2>3. CASE j # hand[d]
    <3>1. ASSUME NEW s \in Streams PROVE Load(s, j)' <= Load(s, j)
      <4>1. Load(s, j)' = Load(s, j)
        BY <2>1, <2>3 DEF Decides, SameClaims, Load
      <4> QED BY <1>2, <4>1
    <3> QED BY <1>0, <1>1, <2>1, <3>1 DEF Balanced, Shrinks
  <2> QED BY <2>2, <2>3
<1>5. CASE AckInbox(d)
  <2>1. ASSUME NEW s \in Streams PROVE Load(s, j)' <= Load(s, j)
    <3>1. /\ New(s, j)' = New(s, j) /\ Held(s, j)' = Held(s, j) /\ Claimed(s, j)' = Claimed(s, j)
      BY <1>5, AckInboxCounts DEF SameClaims
    <3>2. CASE s = d /\ j = hand[d]
      <4>1. Pel(s, j)' = Less(Pel(s, j)) /\ Handled(s, j) = 1 /\ Handled(s, j)' = 0
        BY <1>5, <3>2, AckInboxCounts
      <4> QED BY <1>2, <3>1, <4>1 DEF Load, Less
    <3>3. CASE ~(s = d /\ j = hand[d])
      <4>1. Pel(s, j)' = Pel(s, j) /\ Handled(s, j)' = Handled(s, j)
        BY <1>5, <3>3, AckInboxCounts
      <4> QED BY <1>2, <3>1, <4>1 DEF Load
    <3> QED BY <3>2, <3>3
  <2>2. UNCHANGED <<started, again>>
    BY <1>5, AckInboxCounts
  <2> QED BY <1>0, <1>1, <2>1, <2>2 DEF Balanced, Shrinks
<1>6. CASE HandlingFails(d) \/ Stop(d) \/ Die(d)
  <2>1. /\ again'[j] = again[j] + Handled(d, j) /\ UNCHANGED started
    BY <1>6, FailsCounts
  <2>2. ASSUME NEW s \in Streams
        PROVE  Load(s, j)' <= IF s = d THEN Load(s, j) + Handled(s, j) ELSE Load(s, j)
    <3>1. /\ New(s, j)' = New(s, j) /\ Pel(s, j)' = Pel(s, j) /\ Claimed(s, j)' = Claimed(s, j)
          /\ Handled(s, j)' = IF s = d THEN 0 ELSE Handled(s, j)
          /\ Held(s, j)' = IF s = d THEN 0 ELSE Held(s, j)
      BY <1>6, FailsCounts DEF SameStreams, SameClaims
    <3> QED BY <1>2, <3>1 DEF Load
  <2>3. CASE Handled(d, j) = 1
    <3>1. Grows(j)
      BY <1>0, <2>2, <2>3 DEF Grows
    <3> QED BY <1>0, <1>1, <2>1, <2>3, <3>1 DEF Balanced
  <2>4. CASE Handled(d, j) = 0
    <3>1. Shrinks(j)
      BY <1>2, <2>2, <2>4 DEF Shrinks
    <3> QED BY <1>0, <1>1, <2>1, <2>4, <3>1 DEF Balanced
  <2> QED BY <1>0, <1>2, <2>3, <2>4
<1>7. ASSUME NEW k \in Jobs, ReadInbox(d, k) PROVE Balanced(j)
  <2>1. ASSUME NEW s \in Streams PROVE Load(s, j)' <= Load(s, j)
    <3>1. /\ Claimed(s, j)' = Claimed(s, j)
          /\ Handled(s, j)' = Handled(s, j) /\ (s = d => Handled(s, j) = 0)
          /\ New(s, j)' = IF s = d /\ j = k THEN New(s, j) - 1 ELSE New(s, j)
          /\ Pel(s, j)' = IF s = d /\ j = k THEN Pel(s, j) + 1 ELSE Pel(s, j)
          /\ Held(s, j)' = IF s = d /\ j = k THEN 1 ELSE Held(s, j)
      BY <1>7, ReadInboxCounts DEF SameClaims
    <3>2. s = d => Held(s, j) = 0
      BY <1>7 DEF ReadInbox, Held
    <3> QED BY <1>2, <3>1, <3>2 DEF Load
  <2>2. UNCHANGED <<started, again>>
    BY <1>7, ReadInboxCounts
  <2> QED BY <1>0, <1>1, <2>1, <2>2 DEF Balanced, Shrinks
<1> QED BY <1>3, <1>4, <1>5, <1>6, <1>7

LEMMA CountedStep ==
  ASSUME Local, Counted, [Next]_vars
  PROVE  Counted'
<1> SUFFICES ASSUME NEW j \in Jobs PROVE Balanced(j)
  BY BalancedSteps
<1>1. CASE \/ CacheAges \/ TickStarts \/ ScanEnds \/ Forget \/ Claim \/ RetryEnds
           \/ \E d \in Daemons : FoundDead(d)
           \/ UNCHANGED vars
  BY <1>1, QuietSteps, QuietBalanced
<1>2. ASSUME NEW k \in Jobs, Spawn(k) PROVE Balanced(j)
  BY <1>2, SpawnBalanced
<1>3. CASE \/ RecoverAcks \/ DeleteInbox \/ ReadNew \/ RetryAcks \/ Interrupt
           \/ \E k \in Jobs : RecoverSends(k) \/ RetrySends(k)
  BY <1>3, MonitorBalanced, InterruptBalanced, SendsBalanced
<1>4. ASSUME NEW d \in Daemons, Daemon(d) PROVE Balanced(j)
  <2>1. CASE \/ Register(d) \/ Heartbeat(d) \/ Expire(d) \/ Drained(d)
             \/ \E k \in Jobs : WorkerExits(d, k)
    BY <2>1, QuietSteps, QuietBalanced
  <2> QED BY <1>4, <2>1, DaemonBalanced DEF Daemon
<1> QED BY <1>1, <1>2, <1>3, <1>4 DEF Next, Dispatcher, Monitor

LEMMA InitCounted == Init => Counted
<1> SUFFICES ASSUME Init, NEW j \in Jobs
             PROVE  /\ IsFiniteSet(Tokens(j))
                    /\ started[j] + Cardinality(Tokens(j)) + ToldOf(j) <= 1 + again[j]
  BY DEF Counted
<1>1. NoEntries[j] = 0 /\ j # NoJob
  BY Ids DEF NoEntries
<1>2. \A s \in Streams : Load(s, j) = 0
  BY <1>1 DEF Init, Idle, Load, New, Pel, Claimed, Handled, Held
<1>3. Tokens(j) = {}
  BY <1>2 DEF Tokens
<1> QED BY <1>1, <1>3, FS_EmptySet DEF Init, ToldOf

LEMMA CountedStarts == Local /\ Counted => StartsAccounted
<1> SUFFICES ASSUME Local, Counted, NEW j \in Jobs PROVE started[j] <= 1 + again[j]
  BY DEF StartsAccounted
<1>1. started[j] \in Nat /\ again[j] \in Nat /\ ToldOf(j) \in {0, 1}
  BY DEF Local, TypeOK, ToldOf
<1>2. Cardinality(Tokens(j)) \in Nat
  BY FS_CardinalityType DEF Counted
<1> QED BY <1>1, <1>2 DEF Counted

\* A job is started once, plus at most once for every cut between sending it on
\* and acknowledging its entry: of a tick of daemon_monitor.py, of a daemon
\* (worker_daemon.py), or of a daemon wrongly taken for dead.
THEOREM PullStartsAccounted == Spec => []StartsAccounted
<1>1. Init => Local /\ Counted
  BY InitLocal, InitCounted
<1>2. Local /\ Counted /\ [Next]_vars => (Local /\ Counted)'
  BY StepLocal, CountedStep
<1>3. Local /\ Counted => StartsAccounted
  BY CountedStarts
<1> QED BY <1>1, <1>2, <1>3, PTL DEF Spec

-----------------------------------------------------------------------------
(* A running worker's owner key *)

\* The interruptions are only ever counted.
LEMMA AgainGrows ==
  ASSUME Local, [Next]_vars, NEW j \in Jobs, again'[j] = 0
  PROVE  again[j] = 0
<1>0. again \in [Jobs -> Nat]
  BY DEF Local, TypeOK
<1>1. CASE again' = again
  BY <1>1
<1>2. CASE Interrupt
  BY <1>0, <1>2, InterruptCounts
<1>3. ASSUME NEW k \in Jobs, RecoverSends(k) PROVE again[j] = 0
  BY <1>0, <1>3 DEF RecoverSends
<1>4. ASSUME NEW d \in Daemons, Stop(d) \/ Die(d) PROVE again[j] = 0
  <2>1. again'[j] = again[j] + Handled(d, j) /\ again[j] \in Nat /\ d \in Streams
    BY <1>4, FailsCounts, Ids
  <2>2. Handled(d, j) \in {0, 1}
    BY <2>1, CountTypes
  <2> QED BY <2>1, <2>2
<1>5. CASE \/ CacheAges \/ TickStarts \/ ScanEnds \/ Forget \/ Claim \/ RetryEnds \/ UNCHANGED vars
           \/ RecoverAcks \/ RetryAcks \/ DeleteInbox \/ ReadNew
           \/ \E k \in Jobs : Spawn(k) \/ RetrySends(k)
           \/ \E d \in Daemons : FoundDead(d)
  <2>1. again' = again
    BY <1>5 DEF CacheAges, TickStarts, ScanEnds, Forget, Claim, RetryEnds, vars, RecoverAcks,
                RetryAcks, DeleteInbox, ReadNew, Spawn, RetrySends, FoundDead, history
  <2> QED BY <2>1
<1>6. ASSUME NEW d \in Daemons,
             \/ Register(d) \/ Heartbeat(d) \/ Accept(d) \/ Reject(d) \/ AckInbox(d)
             \/ HandlingFails(d) \/ Drained(d) \/ Expire(d)
             \/ \E k \in Jobs : ReadInbox(d, k) \/ WorkerExits(d, k)
      PROVE  again[j] = 0
  <2>1. again' = again
    BY <1>6 DEF Register, Heartbeat, Accept, Reject, AckInbox, HandlingFails, Drained, Expire,
                ReadInbox, WorkerExits, history
  <2> QED BY <2>1
<1> QED BY <1>2, <1>3, <1>4, <1>5, <1>6 DEF Next, Dispatcher, Monitor, Daemon

\* As long as no interruption is counted, a job in a daemon's hand has not been
\* started.
LEMMA HeldNotStarted ==
  ASSUME Local, Counted, NEW d \in Daemons, NEW j \in Jobs, Held(d, j) = 1, again[j] = 0
  PROVE  started[j] = 0
<1>1. d \in Streams /\ Load(d, j) \in Nat
  BY Ids, CountTypes
<1>2. Load(d, j) >= 1
  <2>1. New(d, j) \in Nat /\ Pel(d, j) \in Nat /\ Claimed(d, j) \in {0, 1}
        /\ Handled(d, j) \in {0, 1}
    BY <1>1, CountTypes
  <2> QED BY <2>1 DEF Load
<1>3. <<d, 1>> \in Tokens(j)
  BY <1>1, <1>2 DEF Tokens
<1>4. /\ IsFiniteSet(Tokens(j))
      /\ started[j] + Cardinality(Tokens(j)) + ToldOf(j) <= 1
  BY DEF Counted
<1>5. Cardinality(Tokens(j)) \in Nat /\ Cardinality(Tokens(j)) # 0
  BY <1>3, <1>4, FS_CardinalityType, FS_EmptySet
<1>6. started[j] \in Nat /\ ToldOf(j) \in {0, 1}
  BY DEF Local, TypeOK, ToldOf
<1> QED BY <1>4, <1>5, <1>6

LEMMA WorkerTypes ==
  ASSUME Local, NEW d \in Daemons, NEW j \in Jobs
  PROVE  workers[d] \in Entries /\ workers[d][j] \in Nat /\ active[d] \subseteq Jobs
BY DEF Local, TypeOK, Entries

LEMMA OwnedFrame ==
  ASSUME Local, Owned, [Next]_vars, UNCHANGED <<active, workers, owner, started>>
  PROVE  Owned'
<1> SUFFICES ASSUME NEW d \in Daemons, NEW j \in Jobs PROVE OwnedBy(d, j)'
  BY DEF Owned, OwnedBy
<1>1. OwnedBy(d, j)
  BY DEF Owned, OwnedBy
<1>2. again'[j] = 0 => again[j] = 0
  BY AgainGrows
<1> QED BY <1>1, <1>2 DEF OwnedBy

LEMMA AcceptOwned ==
  ASSUME Local, Counted, Owned, NEW d \in Daemons, Accept(d)
  PROVE  Owned'
<1> DEFINE k == hand[d]
<1>0. TypeOK
  BY DEF Local
<1>1. k \in Jobs /\ Held(d, k) = 1
  BY DecidesCounts DEF Decides
<1>2. /\ owner' = [owner EXCEPT ![k] = d] /\ workers' = [workers EXCEPT ![d][k] = @ + 1]
      /\ active' = [active EXCEPT ![d] = @ \cup {k}]
      /\ started' = [started EXCEPT ![k] = @ + 1] /\ again' = again
  BY DEF Accept
<1> HIDE DEF k
<1> SUFFICES ASSUME NEW x \in Daemons, NEW j \in Jobs PROVE OwnedBy(x, j)'
  BY DEF Owned, OwnedBy
<1>3. OwnedBy(x, j) /\ workers[x][j] \in Nat /\ started[j] \in Nat
  BY <1>0, WorkerTypes DEF Owned, OwnedBy, TypeOK
<1>4. workers'[x][j] = IF x = d /\ j = k THEN workers[x][j] + 1 ELSE workers[x][j]
  BY <1>0, <1>1, <1>2 DEF TypeOK
<1>5. active'[x] = IF x = d THEN active[x] \cup {k} ELSE active[x]
  BY <1>0, <1>2 DEF TypeOK
<1>6. owner'[j] = (IF j = k THEN d ELSE owner[j])
      /\ started'[j] = (IF j = k THEN started[j] + 1 ELSE started[j])
  BY <1>0, <1>1, <1>2 DEF TypeOK
<1>7. CASE j = k
  <2>1. again[j] = 0 => started[j] = 0
    BY <1>1, <1>7, HeldNotStarted
  <2>2. again[j] = 0 => workers[x][j] = 0
    BY <1>3, <2>1 DEF OwnedBy
  <2>3. CASE x = d
    BY <1>2, <1>3, <1>4, <1>5, <1>6, <1>7, <2>2, <2>3 DEF OwnedBy
  <2>4. CASE x # d
    BY <1>2, <1>3, <1>4, <1>5, <1>6, <1>7, <2>2, <2>4 DEF OwnedBy
  <2> QED BY <2>3, <2>4
<1>8. CASE j # k
  <2>1. (j \in active'[x] <=> j \in active[x]) /\ workers'[x][j] = workers[x][j]
        /\ owner'[j] = owner[j] /\ started'[j] = started[j]
    BY <1>4, <1>5, <1>6, <1>8
  <2> QED BY <1>2, <1>3, <2>1 DEF OwnedBy
<1> QED BY <1>7, <1>8

\* A worker exits, or a daemon loses all of its workers.
LEMMA ExitOwned ==
  ASSUME Local, Owned, [Next]_vars, NEW d \in Daemons,
         Drained(d) \/ Die(d) \/ \E j \in Jobs : WorkerExits(d, j)
  PROVE  Owned'
<1>0. TypeOK /\ UNCHANGED started
  BY DEF Local, Drained, Die, WorkerExits, history
<1> SUFFICES ASSUME NEW x \in Daemons, NEW j \in Jobs PROVE OwnedBy(x, j)'
  BY DEF Owned, OwnedBy
<1>1. OwnedBy(x, j) /\ OwnedBy(d, j) /\ workers[x][j] \in Nat /\ workers[d][j] \in Nat
  BY WorkerTypes DEF Owned, OwnedBy
<1>2. again'[j] = 0 => again[j] = 0
  BY AgainGrows
<1>3. CASE Drained(d) \/ Die(d)
  <2>1. /\ active' = [active EXCEPT ![d] = {}] /\ workers' = [workers EXCEPT ![d] = NoEntries]
        /\ owner'[j] = owner[j] \/ j \in active[d]
    BY <1>3 DEF Drained, Die, redis
  <2>2. CASE x = d
    <3>1. active'[x] = {} /\ workers'[x][j] = 0
      BY <1>0, <2>1, <2>2 DEF TypeOK, NoEntries
    <3> QED BY <3>1 DEF OwnedBy
  <2>3. CASE x # d
    <3>1. active'[x] = active[x] /\ workers'[x][j] = workers[x][j]
      BY <1>0, <2>1, <2>3 DEF TypeOK
    <3>2. workers[x][j] > 0 /\ again[j] = 0 => owner'[j] = owner[j]
      BY <1>1, <2>1, <2>3 DEF OwnedBy
    <3> QED BY <1>0, <1>1, <1>2, <3>1, <3>2 DEF OwnedBy
  <2> QED BY <2>2, <2>3
<1>4. ASSUME NEW k \in Jobs, WorkerExits(d, k) PROVE OwnedBy(x, j)'
  <2>1. /\ workers[d][k] > 0 /\ workers' = [workers EXCEPT ![d][k] = @ - 1]
        /\ active' = [active EXCEPT ![d] = @ \ {k}]
        /\ owner' = IF k \in active[d] THEN [owner EXCEPT ![k] = 0] ELSE owner
    BY <1>4 DEF WorkerExits
  <2>2. workers'[x][j] = IF x = d /\ j = k THEN workers[x][j] - 1 ELSE workers[x][j]
    BY <1>0, <2>1 DEF TypeOK
  <2>3. active'[x] = IF x = d THEN active[x] \ {k} ELSE active[x]
    BY <1>0, <2>1 DEF TypeOK
  <2>4. CASE j # k
    <3>1. owner'[j] = owner[j] /\ (j \in active'[x] <=> j \in active[x])
          /\ workers'[x][j] = workers[x][j]
      BY <1>0, <2>1, <2>2, <2>3, <2>4 DEF TypeOK
    <3> QED BY <1>0, <1>1, <1>2, <3>1 DEF OwnedBy
  <2>5. CASE j = k /\ x = d
    <3>1. j \notin active'[x] /\ workers'[x][j] = workers[x][j] - 1
      BY <2>2, <2>3, <2>5
    <3> QED BY <1>0, <1>1, <1>2, <3>1 DEF OwnedBy
  <2>6. CASE j = k /\ x # d
    <3>1. active'[x] = active[x] /\ workers'[x][j] = workers[x][j]
      BY <2>2, <2>3, <2>6
    <3>2. again[j] = 0 => workers[x][j] = 0
      BY <1>1, <2>1, <2>6 DEF OwnedBy
    <3> QED BY <1>0, <1>1, <1>2, <3>1, <3>2 DEF OwnedBy
  <2> QED BY <2>4, <2>5, <2>6
<1> QED BY <1>3, <1>4

LEMMA OwnedStep ==
  ASSUME Local, Counted, Owned, [Next]_vars
  PROVE  Owned'
<1>1. CASE \/ CacheAges \/ TickStarts \/ ScanEnds \/ Forget \/ Claim \/ RetryEnds \/ UNCHANGED vars
           \/ RecoverAcks \/ RetryAcks \/ DeleteInbox \/ ReadNew \/ Interrupt
           \/ \E k \in Jobs : Spawn(k) \/ RetrySends(k) \/ RecoverSends(k)
           \/ \E d \in Daemons : FoundDead(d)
  <2>1. UNCHANGED <<active, workers, owner, started>>
    BY <1>1 DEF CacheAges, TickStarts, ScanEnds, Forget, Claim, RetryEnds, vars, RecoverAcks,
                RetryAcks, DeleteInbox, ReadNew, Spawn, RetrySends, RecoverSends, FoundDead,
                Interrupt, history, redis, daemons
  <2> QED BY <2>1, OwnedFrame
<1>2. ASSUME NEW d \in Daemons, Daemon(d) PROVE Owned'
  <2>1. CASE \/ Register(d) \/ Heartbeat(d) \/ Reject(d) \/ AckInbox(d)
             \/ HandlingFails(d) \/ Stop(d) \/ Expire(d)
             \/ \E k \in Jobs : ReadInbox(d, k)
    <3>1. UNCHANGED <<active, workers, owner, started>>
      BY <2>1 DEF Register, Heartbeat, Reject, AckInbox, HandlingFails, Stop, Expire,
                  ReadInbox, history, redis, daemons
    <3> QED BY <3>1, OwnedFrame
  <2> QED BY <1>2, <2>1, AcceptOwned, ExitOwned DEF Daemon
<1> QED BY <1>1, <1>2 DEF Next, Dispatcher, Monitor

LEMMA InitOwned == Init => Owned
BY DEF Init, Owned, OwnedBy, NoEntries

LEMMA OwnedKnown == Local /\ Owned => OwnerKnown
BY DEF Owned, OwnedBy, OwnerKnown

\* While a job has never been sent on twice, the owner key of its running worker
\* names the daemon that runs it, by which the router finds the worker's inbox
\* (_accept and _reap of worker_daemon.py).
THEOREM PullOwnerKnown == Spec => []OwnerKnown
<1>1. Init => Local /\ Counted /\ Owned
  BY InitLocal, InitCounted, InitOwned
<1>2. Local /\ Counted /\ Owned /\ [Next]_vars => (Local /\ Counted /\ Owned)'
  BY StepLocal, CountedStep, OwnedStep
<1>3. Local /\ Counted /\ Owned => OwnerKnown
  BY OwnedKnown
<1> QED BY <1>1, <1>2, <1>3, PTL DEF Spec
=============================================================================
