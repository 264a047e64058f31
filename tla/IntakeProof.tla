----------------------------- MODULE IntakeProof -----------------------------
(***************************************************************************)
(* Theorems about Intake, for every set of posts and what they carry, any  *)
(* stream and batch length, and any number of crashes and errors.          *)
(***************************************************************************)
EXTENDS Intake, SequenceTheorems, TLAPS

-----------------------------------------------------------------------------
(* The inductive invariant *)

\* Each post is in the stream once: the gateway is done with it then.
LogOnce ==
  /\ \A k \in 1..Len(log) : gpc[log[k]] \in {"sent", "500"}
  /\ \A j, k \in 1..Len(log) : log[j] = log[k] => j = k
  /\ first <= Len(log) + 1 /\ next <= Len(log) + 1

\* The post is in the stream and the group's cursor is past it.
Read(p) == p \in ToSet(log) /\ \A k \in 1..Len(log) : log[k] = p => k < next

\* What has happened to an entry has happened after it was read.
ReadFirst ==
  \A p \in Posts : \/ p \in pel \cup ToSet(batch) \cup dead \cup blank
                   \/ handled[p] > 0
                   => Read(p)

\* The entries in hand are pending, the first one until it is acknowledged.
InHand ==
  /\ \A i, j \in 1..Len(batch) : batch[i] = batch[j] => i = j
  /\ \A i \in 2..Len(batch) : batch[i] \in pel
  /\ step \in {"handle", "ack"} => Entry \in pel
  /\ step = "ack" => handled[Entry] > 0
  /\ step = "bury" => Entry \in pel \/ handled[Entry] > 0
  /\ step = "buried" => Entry \in dead \cup blank

\* The post may be handled or buried once more.
Open(p) == p \in pel \cup ToSet(batch) \/ ~Read(p)
Between(p, s) == step = s /\ p = Entry

\* An outcome of a post that is open again was cut off from its acknowledgement.
CutsCount ==
  \A p \in Posts :
    /\ handled[p] <= 1 + cuts[p]
    /\ Open(p) /\ ~Between(p, "ack") => handled[p] <= cuts[p]
    /\ p \in dead /\ Open(p) /\ ~Between(p, "buried") => cuts[p] > 0
    /\ p \in dead /\ handled[p] > 0 => cuts[p] > 0

\* While the orchestrator lives its registry knows the workers that run.
Tracked ==
  /\ ~Pull /\ crashes = 0 => \A p \in running : registry[p] \in {"warmup", "running"}
  /\ missed # {} => crashes > 0 /\ ~Pull

Inv == TypeOK /\ LogOnce /\ ReadFirst /\ InHand /\ CutsCount /\ Tracked

-----------------------------------------------------------------------------
(* Batches *)

LEMMA EntryInHand ==
  ASSUME TypeOK, step # "none"
  PROVE  /\ batch # <<>> /\ Len(batch) \in Nat \ {0} /\ DOMAIN batch = 1..Len(batch)
         /\ Entry = batch[1] /\ Entry \in ToSet(batch) /\ Entry \in Posts
<1>1. batch # <<>> /\ batch \in Seq(Posts)
  BY DEF TypeOK
<1>2. Len(batch) \in Nat \ {0} /\ DOMAIN batch = 1..Len(batch) /\ 1 \in 1..Len(batch)
  BY <1>1, EmptySeq, LenProperties
<1>3. Entry = batch[1] /\ batch[1] \in Posts
  BY <1>1, <1>2, ElementOfSeq DEF Entry
<1> QED BY <1>1, <1>2, <1>3 DEF ToSet

LEMMA DoneBatch ==
  ASSUME TypeOK, step # "none", Done
  PROVE  /\ batch' \in Seq(Posts) /\ Len(batch') = Len(batch) - 1 /\ Len(batch) \in Nat \ {0}
         /\ \A i \in 1..Len(batch') : batch'[i] = batch[i + 1]
         /\ DOMAIN batch' = 1..Len(batch') /\ DOMAIN batch = 1..Len(batch)
         /\ step' \in {"none", "handle"} /\ (step' = "none" <=> batch' = <<>>)
<1>1. batch # <<>> /\ batch \in Seq(Posts) /\ batch' = Tail(batch)
  BY DEF TypeOK, Done
<1>2. /\ batch' \in Seq(Posts) /\ Len(batch') = Len(batch) - 1
      /\ \A i \in 1..Len(batch') : batch'[i] = batch[i + 1]
  BY <1>1, HeadTailProperties
<1>3. Len(batch) \in Nat \ {0} /\ DOMAIN batch = 1..Len(batch) /\ DOMAIN batch' = 1..Len(batch')
  BY <1>1, <1>2, EmptySeq, LenProperties
<1>4. batch' = <<>> <=> Len(batch) = 1
  BY <1>2, <1>3, EmptySeq
<1>5. step' = IF Len(batch) = 1 THEN "none" ELSE "handle"
  BY DEF Done
<1> QED BY <1>2, <1>3, <1>4, <1>5

LEMMA DoneDrops ==
  ASSUME TypeOK, InHand, step # "none", Done
  PROVE  /\ \A p : p \in ToSet(batch') => p \in ToSet(batch) /\ p # Entry
         /\ \A i, j \in 1..Len(batch') : batch'[i] = batch'[j] => i = j
         /\ \A i \in 1..Len(batch') : batch'[i] \in pel
<1>1. \A i \in 1..Len(batch') : /\ i + 1 \in 2..Len(batch) /\ i + 1 \in 1..Len(batch)
                                 /\ batch'[i] = batch[i + 1] /\ i + 1 # 1 /\ i \in Nat
  BY DoneBatch
<1>2. 1 \in 1..Len(batch) /\ Entry = batch[1]
  BY EntryInHand
<1>3. \A i \in 1..Len(batch') : batch'[i] # Entry /\ batch'[i] \in ToSet(batch)
  BY <1>1, <1>2, DoneBatch DEF InHand, ToSet
<1>4. \A p : p \in ToSet(batch') => \E i \in 1..Len(batch') : p = batch'[i]
  BY DoneBatch DEF ToSet
<1>5. ASSUME NEW i \in 1..Len(batch'), NEW j \in 1..Len(batch'), batch'[i] = batch'[j]
      PROVE  i = j
  <2>1. i + 1 = j + 1
    BY <1>1, <1>5 DEF InHand
  <2> QED BY <1>1, <2>1
<1> QED BY <1>1, <1>3, <1>4, <1>5 DEF InHand

LEMMA BeginBatch ==
  ASSUME NEW s \in Seq(Posts), Begin(s)
  PROVE  batch' = s /\ step' \in {"none", "handle"} /\ (step' = "none" <=> batch' = <<>>)
BY DEF Begin

LEMMA TakeProperties ==
  ASSUME NEW s \in Seq(Posts)
  PROVE  /\ Take(s) \in Seq(Posts) /\ Len(Take(s)) \in Nat /\ Len(Take(s)) <= Len(s)
         /\ \A i \in 1..Len(Take(s)) : Take(s)[i] = s[i]
         /\ DOMAIN Take(s) = 1..Len(Take(s))
<1> DEFINE n == IF Len(s) < Count THEN Len(s) ELSE Count
<1>1. n \in 0..Len(s) /\ Len(s) \in Nat
  BY IntakeAssumption, LenProperties
<1>2. \A i \in 1..n : s[i] \in Posts
  BY <1>1, ElementOfSeq
<1>3. /\ SubSeq(s, 1, n) \in Seq(Posts)
      /\ Len(SubSeq(s, 1, n)) = IF 1 <= n THEN n - 1 + 1 ELSE 0
      /\ \A i \in 1..(n - 1 + 1) : SubSeq(s, 1, n)[i] = s[1 + i - 1]
  BY <1>1, <1>2, SubSeqProperties
<1>4. Take(s) = SubSeq(s, 1, n)
  BY DEF Take
<1>5. Len(Take(s)) = n
  BY <1>1, <1>3, <1>4
<1>6. \A i \in 1..n : Take(s)[i] = s[i]
  BY <1>1, <1>3, <1>4
<1> QED BY <1>1, <1>3, <1>4, <1>5, <1>6, LenProperties

-----------------------------------------------------------------------------
(* Types *)

Stages == {"new", "lookup", "throttle", "fetch", "unknown_key",
           "admitted", "sent", "401", "403", "500"}

LEMMA PassTyped ==
  ASSUME gpc \in [Posts -> Stages], NEW p \in Posts, NEW to \in Stages, Pass(p, to)
  PROVE  gpc' \in [Posts -> Stages] /\ \A q \in Posts : q # p => gpc'[q] = gpc[q]
BY DEF Pass

LEMMA ErrorTyped ==
  ASSUME errors \in 0..MaxErrors, crashes \in 0..MaxCrashes, UNCHANGED faults \/ Error
  PROVE  errors' \in 0..MaxErrors /\ crashes' = crashes
BY IntakeAssumption DEF Error, faults

\* The steps of the gateway that do not write to the stream.
Asks(p) ==
  Arrive(p) \/ Lookup(p) \/ Throttle(p) \/ FetchKey(p) \/ Repost(p)

LEMMA AsksTyped ==
  ASSUME TypeOK, NEW p \in Posts, Asks(p)
  PROVE  /\ TypeOK' /\ gpc[p] \notin {"sent", "500"}
         /\ \A q \in Posts : q # p => gpc'[q] = gpc[q]
         /\ UNCHANGED <<stream, consumer, work, history, crashes>>
<1>1. UNCHANGED <<stream, consumer, work, history>> /\ gpc[p] \notin {"sent", "500"}
  BY DEF Asks, Arrive, Lookup, Throttle, FetchKey, Repost
<1>2. UNCHANGED faults \/ Error
  BY DEF Asks, Arrive, Lookup, Throttle, FetchKey, Repost
<1>3. errors' \in 0..MaxErrors /\ crashes' = crashes
  BY <1>2, ErrorTyped DEF TypeOK
<1>4. Verdict(p) \in Stages
  BY DEF Verdict, Stages
<1>5. \E to \in Stages : Pass(p, to)
  <2>1. CASE Arrive(p)
    BY <2>1 DEF Arrive, Stages
  <2>2. CASE Lookup(p)
    BY <1>4, <2>2 DEF Lookup, Stages
  <2>3. CASE Throttle(p)
    BY <2>3 DEF Throttle, Stages
  <2>4. CASE FetchKey(p)
    BY <1>4, <2>4 DEF FetchKey, Stages
  <2>5. CASE Repost(p)
    BY <2>5 DEF Repost, Stages
  <2> QED BY <2>1, <2>2, <2>3, <2>4, <2>5 DEF Asks
<1>6. gpc' \in [Posts -> Stages] /\ \A q \in Posts : q # p => gpc'[q] = gpc[q]
  BY <1>5, PassTyped DEF TypeOK, Stages
<1>7. published' = published /\ cached' \in {{}, OldKeys, NewKeys} /\ recent' \in BOOLEAN
  BY DEF Asks, Arrive, Lookup, Throttle, FetchKey, Repost, TypeOK
<1>8. TypeOK'
  BY <1>1, <1>3, <1>6, <1>7 DEF TypeOK, Stages, stream, consumer, work, history
<1> QED BY <1>1, <1>3, <1>6, <1>8

LEMMA KeysTyped ==
  ASSUME TypeOK, Rotate \/ CacheExpires \/ ThrottleEnds
  PROVE  TypeOK' /\ UNCHANGED <<gpc, stream, consumer, work, history, faults>>
<1>1. UNCHANGED <<gpc, stream, consumer, work, history, faults>>
  BY DEF Rotate, CacheExpires, ThrottleEnds
<1>2. /\ published' \in {OldKeys, NewKeys} /\ cached' \in {{}, OldKeys, NewKeys}
      /\ recent' \in BOOLEAN
  BY DEF Rotate, CacheExpires, ThrottleEnds, TypeOK
<1> QED BY <1>1, <1>2 DEF TypeOK, stream, consumer, work, history, faults

\* The entry that a step of the gateway writes to the stream.
Adds(p) == Forward(p) \/ (ForwardFails(p) /\ AddEntry(p))

LEMMA AddEntryLog ==
  ASSUME TypeOK, LogOnce, NEW p \in Posts, AddEntry(p)
  PROVE  /\ log' \in Seq(Posts) /\ Len(log') = Len(log) + 1 /\ Len(log) \in Nat
         /\ \A k \in 1..Len(log) : log'[k] = log[k]
         /\ log'[Len(log) + 1] = p
         /\ first' \in Nat \ {0} /\ first' >= first /\ first' <= Len(log) + 1
<1>1. log \in Seq(Posts) /\ <<p>> \in Seq(Posts) /\ Len(<<p>>) = 1 /\ <<p>>[1] = p
      /\ log' = log \o <<p>> /\ Len(log) \in Nat
  BY LenProperties DEF TypeOK, AddEntry
<1>2. log' = Append(log, p)
  BY <1>1, AppendIsConcat
<1>3. first \in Nat \ {0} /\ first' \in first..(Len(log) + 1)
  BY DEF AddEntry, TypeOK
<1> QED BY <1>1, <1>2, <1>3, AppendProperties

LEMMA AddsTyped ==
  ASSUME TypeOK, LogOnce, NEW p \in Posts, Forward(p) \/ ForwardFails(p)
  PROVE  /\ TypeOK' /\ gpc[p] = "admitted" /\ gpc'[p] \in {"sent", "500"}
         /\ \A q \in Posts : q # p => gpc'[q] = gpc[q]
         /\ UNCHANGED <<next, pel, dead, blank, consumer, work, history, crashes>>
         /\ AddEntry(p) \/ UNCHANGED <<log, first>>
<1>1. /\ UNCHANGED <<published, cached, recent, next, pel, dead, blank, consumer, work, history>>
      /\ gpc[p] = "admitted" /\ (Pass(p, "sent") \/ Pass(p, "500"))
      /\ AddEntry(p) \/ UNCHANGED <<log, first>>
  BY DEF Forward, ForwardFails
<1>2. UNCHANGED faults \/ Error
  BY DEF Forward, ForwardFails
<1>3. errors' \in 0..MaxErrors /\ crashes' = crashes
  BY <1>2, ErrorTyped DEF TypeOK
<1>4. /\ gpc' \in [Posts -> Stages] /\ \A q \in Posts : q # p => gpc'[q] = gpc[q]
  BY <1>1, PassTyped DEF TypeOK, Stages
<1>5. gpc'[p] \in {"sent", "500"}
  BY <1>1 DEF Pass, TypeOK
<1>6. log' \in Seq(Posts) /\ first' \in Nat \ {0}
  BY <1>1, AddEntryLog DEF TypeOK
<1>7. TypeOK'
  BY <1>1, <1>3, <1>4, <1>6 DEF TypeOK, Stages, consumer, work, history
<1> QED BY <1>1, <1>3, <1>4, <1>5, <1>7

-----------------------------------------------------------------------------
(* Steps that leave the entries alone *)

LEMMA QuietInv ==
  ASSUME Inv, TypeOK', Tracked',
         UNCHANGED <<stream, batch, step, handled, cuts>>,
         \A p \in Posts : gpc[p] \in {"sent", "500"} => gpc'[p] = gpc[p]
  PROVE  Inv'
<1>1. UNCHANGED <<log, first, next, pel, dead, blank>>
  BY DEF stream
<1>2. \A k \in 1..Len(log) : log[k] \in Posts
  BY ElementOfSeq DEF Inv, TypeOK
<1>3. LogOnce'
  BY <1>1, <1>2 DEF Inv, LogOnce
<1>4. ReadFirst' /\ InHand'
  BY <1>1 DEF Inv, ReadFirst, Read, InHand, Entry, ToSet
<1>5. CutsCount'
  BY <1>1 DEF Inv, CutsCount, Open, Read, Between, Entry, ToSet
<1> QED BY <1>3, <1>4, <1>5 DEF Inv

LEMMA AsksInv ==
  ASSUME Inv, NEW p \in Posts, Asks(p)
  PROVE  Inv'
<1>1. /\ TypeOK' /\ gpc[p] \notin {"sent", "500"}
      /\ \A q \in Posts : q # p => gpc'[q] = gpc[q]
      /\ UNCHANGED <<stream, consumer, work, history, crashes>>
  BY AsksTyped DEF Inv
<1>2. Tracked'
  BY <1>1 DEF Inv, Tracked, work, history
<1> QED BY <1>1, <1>2, QuietInv DEF consumer, history

LEMMA KeysInv ==
  ASSUME Inv, Rotate \/ CacheExpires \/ ThrottleEnds
  PROVE  Inv'
<1>1. TypeOK' /\ UNCHANGED <<gpc, stream, consumer, work, history, faults>>
  BY KeysTyped DEF Inv
<1>2. Tracked'
  BY <1>1 DEF Inv, Tracked, work, history, faults
<1> QED BY <1>1, <1>2, QuietInv DEF consumer, history

LEMMA TaskInv ==
  ASSUME Inv, Start \/ EnsureGroup \/ DrainFails
  PROVE  Inv'
<1>1. UNCHANGED <<gateway, stream, batch, step, work, history>>
  BY DEF Start, EnsureGroup, DrainFails
<1>2. UNCHANGED faults \/ Error
  BY DEF Start, EnsureGroup, DrainFails
<1>3. errors' \in 0..MaxErrors /\ crashes' = crashes
  BY <1>2, ErrorTyped DEF Inv, TypeOK
<1>4. cpc' \in {"down", "group", "drain", "loop"} /\ passes' \in 0..MaxPasses
  BY IntakeAssumption DEF Start, EnsureGroup, DrainFails, Inv, TypeOK
<1>5. TypeOK'
  BY <1>1, <1>3, <1>4 DEF Inv, TypeOK, gateway, stream, work, history
<1>6. Tracked'
  BY <1>1, <1>3 DEF Inv, Tracked, work, history
<1> QED BY <1>1, <1>5, <1>6, QuietInv DEF gateway, history

LEMMA WorkersInv ==
  ASSUME Inv, NEW p \in Posts, FirstHeartbeat(p) \/ WorkerEnds(p)
  PROVE  Inv'
<1>1. UNCHANGED <<gateway, stream, consumer, history, faults>>
  BY DEF FirstHeartbeat, WorkerEnds
<1>2. /\ registry' \in [Posts -> {"none", "warmup", "running"}]
      /\ running' \subseteq running
      /\ \A q \in running' : registry'[q] = registry[q] \/ registry'[q] = "running"
  BY DEF FirstHeartbeat, WorkerEnds, Inv, TypeOK
<1>3. TypeOK'
  BY <1>1, <1>2 DEF Inv, TypeOK, gateway, stream, consumer, history, faults
<1>4. Tracked'
  BY <1>1, <1>2 DEF Inv, Tracked, history, faults
<1> QED BY <1>1, <1>3, <1>4, QuietInv DEF gateway, consumer, history

-----------------------------------------------------------------------------
(* Entries come in and are read *)

LEMMA AddsInv ==
  ASSUME Inv, NEW p \in Posts, Forward(p) \/ ForwardFails(p)
  PROVE  Inv'
<1>1. /\ TypeOK' /\ gpc[p] = "admitted" /\ gpc'[p] \in {"sent", "500"}
      /\ \A q \in Posts : q # p => gpc'[q] = gpc[q]
      /\ UNCHANGED <<next, pel, dead, blank, consumer, work, history, crashes>>
      /\ AddEntry(p) \/ UNCHANGED <<log, first>>
  BY AddsTyped DEF Inv
<1>2. Tracked'
  BY <1>1 DEF Inv, Tracked, work, history
<1>3. CASE UNCHANGED <<log, first>>
  BY <1>1, <1>2, <1>3, QuietInv DEF stream, consumer, history
<1>4. CASE AddEntry(p)
  <2>1. /\ log' \in Seq(Posts) /\ Len(log') = Len(log) + 1 /\ Len(log) \in Nat
        /\ \A k \in 1..Len(log) : log'[k] = log[k]
        /\ log'[Len(log) + 1] = p
        /\ first' \in Nat \ {0} /\ first' >= first /\ first' <= Len(log) + 1
    BY <1>4, AddEntryLog DEF Inv
  <2>2. \A k \in 1..Len(log) : log[k] \in Posts /\ log[k] # p
    BY <1>1, ElementOfSeq DEF Inv, LogOnce, TypeOK
  <2>3. \A k \in 1..Len(log') : k \in 1..Len(log) \/ k = Len(log) + 1
    BY <2>1
  <2>4. next \in Nat /\ next <= Len(log) + 1
    BY DEF Inv, LogOnce, TypeOK
  <2>5. LogOnce'
    <3>1. \A k \in 1..Len(log') : gpc'[log'[k]] \in {"sent", "500"}
      BY <1>1, <2>1, <2>2, <2>3 DEF Inv, LogOnce
    <3>2. \A j, k \in 1..Len(log') : log'[j] = log'[k] => j = k
      BY <2>1, <2>2, <2>3 DEF Inv, LogOnce
    <3> QED BY <1>1, <2>1, <2>4, <3>1, <3>2 DEF LogOnce
  <2>6. ToSet(log') = ToSet(log) \cup {p} /\ p \notin ToSet(log)
    <3>1. DOMAIN log = 1..Len(log) /\ DOMAIN log' = 1..Len(log')
      BY <2>1, LenProperties DEF Inv, TypeOK
    <3>2. \A q : q \in ToSet(log) <=> \E k \in 1..Len(log) : q = log[k]
      BY <3>1 DEF ToSet
    <3>3. \A q : q \in ToSet(log') <=> \E k \in 1..Len(log') : q = log'[k]
      BY <3>1 DEF ToSet
    <3>4. \A k \in 1..Len(log) : k \in 1..Len(log')
      BY <2>1
    <3>5. Len(log) + 1 \in 1..Len(log')
      BY <2>1
    <3> QED BY <2>1, <2>2, <2>3, <3>2, <3>3, <3>4, <3>5
  <2>7. \A q \in Posts : Read(q)' <=> Read(q)
    <3> SUFFICES ASSUME NEW q \in Posts
                 PROVE  Read(q)' <=> Read(q)
      OBVIOUS
    <3>1. CASE q = p
      <4>1. ~Read(p)
        BY <2>6 DEF Read
      <4>2. Len(log) + 1 \in 1..Len(log') /\ ~(Len(log) + 1 < next)
        BY <2>1, <2>4
      <4>3. ~Read(p)'
        BY <1>1, <2>1, <4>2 DEF Read
      <4> QED BY <3>1, <4>1, <4>3
    <3>2. CASE q # p
      <4>1. \A k \in 1..Len(log) : k \in 1..Len(log')
        BY <2>1
      <4> QED BY <1>1, <2>1, <2>3, <2>6, <3>2, <4>1 DEF Read
    <3> QED BY <3>1, <3>2
  <2>8. ReadFirst'
    BY <1>1, <2>7 DEF Inv, ReadFirst, consumer, history
  <2>9. InHand'
    BY <1>1 DEF Inv, InHand, Entry, consumer, history
  <2>10. CutsCount'
    BY <1>1, <2>7 DEF Inv, CutsCount, Open, Between, Entry, consumer, history
  <2> QED BY <1>1, <1>2, <2>5, <2>8, <2>9, <2>10 DEF Inv
<1> QED BY <1>1, <1>3, <1>4

LEMMA DrainBatch ==
  ASSUME Inv, NEW s \in SeqOf(pel, Count), Oldest(s)
  PROVE  /\ s \in Seq(Posts) /\ DOMAIN s = 1..Len(s) /\ Len(s) \in Nat
         /\ \A i \in 1..Len(s) : s[i] \in pel
         /\ \A i, j \in 1..Len(s) : s[i] = s[j] => i = j
<1>1. PICK n \in 0..Count : s \in [1..n -> pel]
  BY DEF SeqOf
<1>2. n \in Nat /\ pel \subseteq Posts
  BY IntakeAssumption DEF Inv, TypeOK
<1>3. s \in Seq(pel) /\ Len(s) = n
  BY <1>1, <1>2
<1>4. s \in Seq(Posts) /\ DOMAIN s = 1..n
  BY <1>1, <1>2, <1>3, SeqMonotonic
<1>5. \A i \in 1..n : s[i] \in pel /\ Position(s[i]) \in Nat
  <2> SUFFICES ASSUME NEW i \in 1..n
               PROVE  s[i] \in pel /\ Position(s[i]) \in Nat
    OBVIOUS
  <2>1. s[i] \in pel
    BY <1>1
  <2>2. Read(s[i])
    BY <1>2, <2>1 DEF Inv, ReadFirst
  <2>3. DOMAIN log = 1..Len(log)
    BY LenProperties DEF Inv, TypeOK
  <2>4. \E k \in 1..Len(log) : log[k] = s[i]
    BY <2>2, <2>3 DEF Read, ToSet
  <2>5. Position(s[i]) \in 1..Len(log)
    BY <2>4 DEF Position
  <2> QED BY <2>1, <2>5
<1>6. \A i, j \in 1..n : s[i] = s[j] => i = j
  BY <1>2, <1>4, <1>5 DEF Oldest
<1> QED BY <1>2, <1>3, <1>4, <1>5, <1>6

LEMMA DrainReadInv ==
  ASSUME Inv, DrainRead
  PROVE  Inv'
<1>1. UNCHANGED <<gateway, stream, work, history, faults>> /\ batch = <<>> /\ step = "none"
      /\ Tracked'
  BY DEF DrainRead, Inv, TypeOK, Tracked, work, history, faults
<1>2. CASE pel = {} \/ passes = MaxPasses
  <2>1. cpc' = "loop" /\ passes' = 0 /\ UNCHANGED <<batch, step>>
    BY <1>2 DEF DrainRead
  <2>2. TypeOK'
    BY <1>1, <2>1, IntakeAssumption DEF Inv, TypeOK, gateway, stream, work, history, faults
  <2> QED BY <1>1, <2>1, <2>2, QuietInv DEF gateway, history
<1>3. CASE ~(pel = {} \/ passes = MaxPasses)
  <2>1. PICK s \in SeqOf(pel, Count) : Oldest(s) /\ Begin(s)
    BY <1>3 DEF DrainRead
  <2>2. /\ s \in Seq(Posts) /\ DOMAIN s = 1..Len(s) /\ Len(s) \in Nat
        /\ \A i \in 1..Len(s) : s[i] \in pel
        /\ \A i, j \in 1..Len(s) : s[i] = s[j] => i = j
    BY <2>1, DrainBatch
  <2>3. batch' = s /\ step' \in {"none", "handle"} /\ (step' = "none" <=> batch' = <<>>)
    BY <2>1, <2>2, BeginBatch
  <2>4. passes' = passes + 1 /\ cpc' = cpc
    BY <1>3 DEF DrainRead
  <2>5. passes' \in 0..MaxPasses
    BY <1>3, <2>4, IntakeAssumption DEF Inv, TypeOK
  <2>6. TypeOK'
    BY <1>1, <2>2, <2>3, <2>4, <2>5 DEF Inv, TypeOK, gateway, stream, work, history, faults
  <2>7. ToSet(batch') \subseteq pel /\ ToSet(batch) = {}
    BY <1>1, <2>2, <2>3 DEF ToSet
  <2>8. UNCHANGED <<gpc, log, first, next, pel, dead, blank, handled, cuts>>
    BY <1>1 DEF gateway, stream, history
  <2>9. LogOnce' /\ ReadFirst'
    BY <2>7, <2>8 DEF Inv, LogOnce, ReadFirst, Read
  <2>10. InHand'
    <3>1. step' = "handle" => Entry' \in pel
      BY <2>6, <2>2, <2>3, EmptySeq DEF Entry
    <3> QED BY <2>2, <2>3, <2>8, <3>1 DEF InHand
  <2>11. CutsCount'
    BY <1>1, <2>3, <2>7, <2>8 DEF Inv, CutsCount, Open, Read, Between
  <2> QED BY <1>1, <2>6, <2>9, <2>10, <2>11 DEF Inv
<1> QED BY <1>2, <1>3

\* What XREADGROUP hands out: entries the cursor has not passed, in order.
LEMMA NewBatch ==
  ASSUME Inv, ReadNew
  PROVE  \E from \in Nat, new \in Seq(Posts) :
           /\ from >= next /\ from >= first /\ (from = first \/ from = next)
           /\ from + Len(new) <= Len(log) + 1 /\ Len(new) \in Nat
           /\ DOMAIN new = 1..Len(new)
           /\ \A i \in 1..Len(new) : new[i] = log[from + i - 1]
           /\ new # <<>> /\ Begin(new) /\ next' = from + Len(new) /\ pel' = pel \cup ToSet(new)
<1> DEFINE from == IF next < first THEN first ELSE next
           rest == SubSeq(log, from, Len(log))
           new  == Take(rest)
<1>1. new # <<>> /\ Begin(new) /\ next' = from + Len(new) /\ pel' = pel \cup ToSet(new)
  BY DEF ReadNew
<1>2. /\ from \in Nat \ {0} /\ from >= next /\ from >= first /\ (from = first \/ from = next)
      /\ from <= Len(log) + 1 /\ Len(log) \in Nat
  BY LenProperties DEF Inv, TypeOK, LogOnce
<1> HIDE DEF from
<1>3. \A i \in from..Len(log) : log[i] \in Posts
  BY <1>2, ElementOfSeq DEF Inv, TypeOK
<1>4. /\ rest \in Seq(Posts)
      /\ Len(rest) = IF from <= Len(log) THEN Len(log) - from + 1 ELSE 0
      /\ \A i \in 1..(Len(log) - from + 1) : rest[i] = log[from + i - 1]
  BY <1>2, <1>3, SubSeqProperties
<1>5. Len(rest) = Len(log) - from + 1
  BY <1>2, <1>4
<1> HIDE DEF rest
<1>6. /\ new \in Seq(Posts) /\ Len(new) \in Nat /\ Len(new) <= Len(rest)
      /\ \A i \in 1..Len(new) : new[i] = rest[i]
      /\ DOMAIN new = 1..Len(new)
  BY <1>4, TakeProperties
<1> HIDE DEF new
<1>7. \A i \in 1..Len(new) : new[i] = log[from + i - 1]
  <2>1. \A i \in 1..Len(new) : i \in 1..(Len(log) - from + 1)
    BY <1>2, <1>5, <1>6
  <2> QED BY <1>4, <1>6, <2>1
<1>8. from + Len(new) <= Len(log) + 1
  BY <1>2, <1>5, <1>6
<1> QED BY <1>1, <1>2, <1>6, <1>7, <1>8

LEMMA ReadNewInv ==
  ASSUME Inv, ReadNew
  PROVE  Inv'
<1>1. PICK from \in Nat, new \in Seq(Posts) :
         /\ from >= next /\ from >= first /\ (from = first \/ from = next)
         /\ from + Len(new) <= Len(log) + 1 /\ Len(new) \in Nat
         /\ DOMAIN new = 1..Len(new)
         /\ \A i \in 1..Len(new) : new[i] = log[from + i - 1]
         /\ new # <<>> /\ Begin(new) /\ next' = from + Len(new) /\ pel' = pel \cup ToSet(new)
  BY NewBatch
<1>2. /\ UNCHANGED <<gateway, log, first, dead, blank, cpc, passes, work, history, faults>>
      /\ UNCHANGED <<gpc, handled, cuts>>
      /\ batch = <<>> /\ step = "none" /\ Tracked'
  BY DEF ReadNew, Inv, TypeOK, Tracked, work, history, faults, gateway
<1>3. batch' = new /\ step' = "handle"
  BY <1>1, BeginBatch
<1>4. /\ next \in Nat \ {0} /\ first \in Nat \ {0} /\ Len(log) \in Nat /\ DOMAIN log = 1..Len(log)
      /\ next' \in Nat \ {0} /\ next' >= next /\ next' <= Len(log) + 1
  <2>1. next \in Nat \ {0} /\ first \in Nat \ {0} /\ Len(log) \in Nat /\ DOMAIN log = 1..Len(log)
    BY LenProperties DEF Inv, TypeOK
  <2> QED BY <1>1, <2>1
<1>5. \A i \in 1..Len(new) :
         /\ from + i - 1 \in 1..Len(log) /\ from + i - 1 < next' /\ ~(from + i - 1 < next)
         /\ new[i] = log[from + i - 1] /\ new[i] \in Posts
  BY <1>1, <1>4, ElementOfSeq
<1>6. ToSet(new) \subseteq Posts /\ \A p \in ToSet(new) : \E i \in 1..Len(new) : p = new[i]
  BY <1>1, <1>5 DEF ToSet
<1>7. TypeOK'
  BY <1>1, <1>2, <1>3, <1>4, <1>6 DEF Inv, TypeOK, gateway, work, history, faults
<1>8. LogOnce'
  BY <1>2, <1>4 DEF Inv, LogOnce
<1>9. \A p \in Posts : Read(p) => Read(p)'
  BY <1>2, <1>4 DEF Read
<1>10. \A p \in ToSet(new) : Read(p)' /\ ~Read(p)
  <2> SUFFICES ASSUME NEW p \in ToSet(new)
               PROVE  Read(p)' /\ ~Read(p)
    OBVIOUS
  <2>1. PICK i \in 1..Len(new) : p = new[i]
    BY <1>6
  <2>2. PICK k \in 1..Len(log) : k < next' /\ ~(k < next) /\ p = log[k]
    BY <1>5, <2>1
  <2>3. \A j \in 1..Len(log) : log[j] = p => j = k
    BY <2>2 DEF Inv, LogOnce
  <2>4. p \in ToSet(log)
    BY <1>4, <2>2 DEF ToSet
  <2>5. Read(p)'
    BY <1>2, <2>2, <2>3, <2>4 DEF Read
  <2> QED BY <2>2, <2>5 DEF Read
<1>11. ReadFirst'
  BY <1>1, <1>2, <1>3, <1>9, <1>10 DEF Inv, ReadFirst
<1>12. InHand'
  <2>1. \A i, j \in 1..Len(new) : new[i] = new[j] => i = j
    <3> SUFFICES ASSUME NEW i \in 1..Len(new), NEW j \in 1..Len(new), new[i] = new[j]
                 PROVE  i = j
      OBVIOUS
    <3>1. from + i - 1 = from + j - 1
      BY <1>5 DEF Inv, LogOnce
    <3> QED BY <1>1, <3>1
  <2>2. \A i \in 1..Len(new) : new[i] \in pel'
    BY <1>1 DEF ToSet
  <2>3. Entry' \in pel'
    BY <1>1, <1>3, <2>2, EmptySeq DEF Entry
  <2> QED BY <1>3, <2>1, <2>2, <2>3 DEF InHand
<1>13. CutsCount'
  <2> SUFFICES ASSUME NEW p \in Posts
               PROVE  /\ handled[p] <= 1 + cuts[p]
                      /\ Open(p)' => handled[p] <= cuts[p]
                      /\ p \in dead /\ Open(p)' => cuts[p] > 0
                      /\ p \in dead /\ handled[p] > 0 => cuts[p] > 0
    BY <1>2 DEF CutsCount
  <2>1. Open(p)' => Open(p)
    BY <1>1, <1>3, <1>9, <1>10 DEF Open
  <2>2. ~Between(p, "ack") /\ ~Between(p, "buried")
    BY <1>2 DEF Between
  <2> QED BY <2>1, <2>2 DEF Inv, CutsCount
<1> QED BY <1>2, <1>7, <1>8, <1>11, <1>12, <1>13 DEF Inv

-----------------------------------------------------------------------------
(* An entry is handled, acknowledged or buried *)

\* The stream and the gateway are left alone but for what is pending.
Kept == UNCHANGED <<gateway, log, first, next>>

LEMMA KeptFacts ==
  ASSUME Inv, Kept
  PROVE  LogOnce' /\ \A p : Read(p)' <=> Read(p)
BY DEF Inv, Kept, LogOnce, Read, gateway

LEMMA HandleInv ==
  ASSUME Inv, Handle
  PROVE  Inv'
<1>1. /\ UNCHANGED <<gateway, stream, cpc, passes, batch, cuts, faults>> /\ step = "handle"
      /\ step' = "ack" /\ handled' = [handled EXCEPT ![Entry] = @ + 1] /\ Effect(Entry)
      /\ UNCHANGED <<log, first, next, pel, dead, blank, crashes>>
  BY DEF Handle, stream, faults
<1>2. /\ batch # <<>> /\ Len(batch) \in Nat \ {0} /\ Entry \in ToSet(batch) /\ Entry \in Posts
      /\ Entry' = Entry
  BY <1>1, EntryInHand DEF Inv, Entry
<1>3. /\ handled' \in [Posts -> Nat] /\ handled'[Entry] = handled[Entry] + 1
      /\ \A q \in Posts : q # Entry => handled'[q] = handled[q]
      /\ handled \in [Posts -> Nat] /\ cuts \in [Posts -> Nat]
  <2>1. handled \in [Posts -> Nat] /\ cuts \in [Posts -> Nat]
    BY DEF Inv, TypeOK
  <2>2. handled' = [handled EXCEPT ![Entry] = handled[Entry] + 1] /\ Entry \in Posts
    BY <1>1, <1>2
  <2> QED BY <2>1, <2>2
<1>4. Kept
  BY <1>1 DEF Kept
<1>5. /\ registry' \in [Posts -> {"none", "warmup", "running"}] /\ running' \subseteq Posts
      /\ missed' \subseteq Posts /\ Tracked'
  <2>1. CASE Kind(Entry) = "bug"
    <3>1. /\ registry' = [registry EXCEPT ![Entry] = IF Pull THEN "none" ELSE "warmup"]
          /\ running' = running \cup {Entry} /\ missed' = missed
      BY <1>1, <2>1 DEF Effect
    <3>2. /\ registry' \in [Posts -> {"none", "warmup", "running"}]
          /\ ~Pull => registry'[Entry] = "warmup"
          /\ \A q \in Posts : q # Entry => registry'[q] = registry[q]
      BY <1>2, <3>1 DEF Inv, TypeOK
    <3>3. running' \subseteq Posts /\ missed' \subseteq Posts
      BY <1>2, <3>1 DEF Inv, TypeOK
    <3>4. Tracked'
      BY <1>1, <3>1, <3>2, <3>3 DEF Inv, Tracked
    <3> QED BY <3>2, <3>3, <3>4
  <2>2. CASE Kind(Entry) = "validation"
    <3>1. UNCHANGED <<registry, running>>
      BY <1>1, <2>2 DEF Effect, work
    <3>2. \/ missed' = missed
          \/ missed' = missed \cup {Entry} /\ \E b \in running : ~Reachable(b)
      BY <1>1, <2>2 DEF Effect
    <3>3. (\E b \in running : ~Reachable(b)) => crashes > 0 /\ ~Pull
      BY DEF Reachable, Inv, Tracked, TypeOK
    <3> QED BY <1>1, <1>2, <3>1, <3>2, <3>3 DEF Inv, TypeOK, Tracked
  <2>3. CASE Kind(Entry) \notin {"bug", "validation"}
    BY <1>1, <2>3 DEF Effect, Inv, TypeOK, Tracked, work
  <2> QED BY <2>1, <2>2, <2>3
<1>6. TypeOK'
  BY <1>1, <1>2, <1>3, <1>5 DEF Inv, TypeOK, gateway, stream, faults
<1>7. ReadFirst'
  BY <1>1, <1>2, <1>3, <1>4, KeptFacts DEF Inv, ReadFirst
<1>8. InHand'
  <2>1. Entry \in pel /\ handled'[Entry] > 0
    BY <1>1, <1>2, <1>3 DEF Inv, InHand
  <2> QED BY <1>1, <1>2, <2>1 DEF Inv, InHand
<1>9. CutsCount'
  <2> SUFFICES ASSUME NEW p \in Posts
               PROVE  /\ handled'[p] <= 1 + cuts[p]
                      /\ Open(p) /\ p # Entry => handled'[p] <= cuts[p]
                      /\ p \in dead /\ Open(p) => cuts[p] > 0
                      /\ p \in dead /\ handled'[p] > 0 => cuts[p] > 0
    BY <1>1, <1>2, <1>4, KeptFacts DEF CutsCount, Open, Between
  <2>1. ~Between(p, "ack") /\ ~Between(p, "buried")
    BY <1>1 DEF Between
  <2>2. Open(Entry)
    BY <1>2 DEF Open
  <2>3. handled[p] \in Nat /\ cuts[p] \in Nat
    BY <1>3
  <2> QED BY <1>3, <2>1, <2>2, <2>3 DEF Inv, CutsCount
<1> QED BY <1>4, <1>5, <1>6, <1>7, <1>8, <1>9, KeptFacts DEF Inv

LEMMA HandleRaisesInv ==
  ASSUME Inv, HandleRaises
  PROVE  Inv'
<1>1. /\ UNCHANGED <<gateway, stream, cpc, passes, batch, work, history>>
      /\ UNCHANGED <<log, first, next, pel, dead, blank, handled, cuts, missed>>
      /\ step = "handle" /\ step' = "bury"
      /\ UNCHANGED faults \/ Error
  BY DEF HandleRaises, stream, history
<1>2. errors' \in 0..MaxErrors /\ crashes' = crashes
  BY <1>1, ErrorTyped DEF Inv, TypeOK
<1>3. Kept /\ Entry' = Entry /\ Tracked'
  BY <1>1, <1>2 DEF Kept, Entry, Inv, Tracked, work
<1>4. TypeOK'
  BY <1>1, <1>2 DEF Inv, TypeOK, gateway, stream, work, history
<1>5. ReadFirst'
  BY <1>1, <1>3, KeptFacts DEF Inv, ReadFirst
<1>6. InHand'
  BY <1>1, <1>3 DEF Inv, InHand
<1>7. CutsCount'
  BY <1>1, <1>3, KeptFacts DEF Inv, CutsCount, Open, Between
<1> QED BY <1>3, <1>4, <1>5, <1>6, <1>7, KeptFacts DEF Inv

LEMMA BuryInv ==
  ASSUME Inv, Bury
  PROVE  Inv'
<1>1. /\ UNCHANGED <<gateway, log, first, next, pel, cpc, passes, batch, work, history, faults>>
      /\ UNCHANGED <<handled, cuts>> /\ step = "bury" /\ step' = "buried"
      /\ dead' \cup blank' = dead \cup blank \cup {Entry}
      /\ dead' \subseteq dead \cup {Entry} /\ blank' \subseteq blank \cup {Entry}
  BY DEF Bury, history
<1>2. /\ Entry \in ToSet(batch) /\ Entry \in Posts /\ Entry' = Entry
  BY <1>1, EntryInHand DEF Inv, Entry
<1>3. Kept /\ Tracked'
  BY <1>1 DEF Kept, Inv, Tracked, work, history, faults
<1>4. TypeOK'
  BY <1>1, <1>2 DEF Inv, TypeOK, gateway, work, history, faults
<1>5. ReadFirst'
  BY <1>1, <1>2, <1>3, KeptFacts DEF Inv, ReadFirst
<1>6. InHand'
  BY <1>1, <1>2 DEF Inv, InHand
<1>7. CutsCount'
  <2> SUFFICES ASSUME NEW p \in Posts
               PROVE  /\ handled[p] <= 1 + cuts[p]
                      /\ Open(p) => handled[p] <= cuts[p]
                      /\ p \in dead' /\ Open(p) /\ p # Entry => cuts[p] > 0
                      /\ p \in dead' /\ handled[p] > 0 => cuts[p] > 0
    BY <1>1, <1>2, <1>3, KeptFacts DEF CutsCount, Open, Between
  <2>1. ~Between(p, "ack") /\ ~Between(p, "buried")
    BY <1>1 DEF Between
  <2>2. Open(Entry)
    BY <1>2 DEF Open
  <2>3. handled[p] \in Nat /\ cuts[p] \in Nat
    BY DEF Inv, TypeOK
  <2> QED BY <1>1, <2>1, <2>2, <2>3 DEF Inv, CutsCount
<1> QED BY <1>3, <1>4, <1>5, <1>6, <1>7, KeptFacts DEF Inv

LEMMA CutTyped ==
  ASSUME TypeOK, NEW p \in Posts, Cut(p)
  PROVE  /\ cuts' \in [Posts -> Nat] /\ cuts'[p] = cuts[p] + 1
         /\ \A q \in Posts : q # p => cuts'[q] = cuts[q]
BY DEF TypeOK, Cut

LEMMA AckFailsInv ==
  ASSUME Inv, AckFails
  PROVE  Inv'
<1>1. /\ UNCHANGED <<gateway, log, first, next, dead, blank, cpc, passes, batch, work>>
      /\ UNCHANGED <<handled, missed>> /\ step = "ack" /\ step' = "bury" /\ Cut(Entry)
      /\ pel' \in {pel, pel \ {Entry}} /\ Error
  BY DEF AckFails
<1>2. /\ Entry \in ToSet(batch) /\ Entry \in Posts /\ Entry' = Entry /\ Entry = batch[1]
      /\ Len(batch) \in Nat \ {0}
  BY <1>1, EntryInHand DEF Inv, Entry
<1>3. errors' \in 0..MaxErrors /\ crashes' = crashes
  BY <1>1, ErrorTyped DEF Inv, TypeOK
<1>4. Kept /\ Tracked'
  BY <1>1, <1>3 DEF Kept, Inv, Tracked, work
<1>5. /\ cuts' \in [Posts -> Nat] /\ cuts'[Entry] = cuts[Entry] + 1
      /\ \A q \in Posts : q # Entry => cuts'[q] = cuts[q]
  BY <1>1, <1>2, CutTyped DEF Inv
<1>6. TypeOK'
  BY <1>1, <1>3, <1>5 DEF Inv, TypeOK, gateway, work
<1>7. ReadFirst'
  BY <1>1, <1>4, KeptFacts DEF Inv, ReadFirst
<1>8. InHand'
  <2>1. \A i \in 2..Len(batch) : i \in 1..Len(batch) /\ i # 1
    BY <1>2
  <2>2. \A i \in 2..Len(batch) : batch[i] \in pel'
    BY <1>1, <1>2, <2>1 DEF Inv, InHand
  <2> QED BY <1>1, <1>2, <2>2 DEF Inv, InHand
<1>9. CutsCount'
  <2> SUFFICES ASSUME NEW p \in Posts
               PROVE  /\ handled[p] <= 1 + cuts'[p]
                      /\ Open(p)' => handled[p] <= cuts'[p]
                      /\ p \in dead /\ Open(p)' => cuts'[p] > 0
                      /\ p \in dead /\ handled[p] > 0 => cuts'[p] > 0
    BY <1>1 DEF CutsCount, Between
  <2>1. handled[p] \in Nat /\ cuts[p] \in Nat
    BY DEF Inv, TypeOK
  <2>2. Open(p)' => Open(p)
    BY <1>1, <1>4, KeptFacts DEF Open
  <2>3. CASE p = Entry
    BY <1>5, <2>1, <2>3 DEF Inv, CutsCount
  <2>4. CASE p # Entry
    BY <1>5, <2>1, <2>2, <2>4 DEF Inv, CutsCount, Between
  <2> QED BY <2>3, <2>4
<1> QED BY <1>4, <1>6, <1>7, <1>8, <1>9, KeptFacts DEF Inv

\* The consumer is done with the entry, acknowledged or not.  One that is still
\* pending and came to an outcome was cut off.
LEMMA DoneInv ==
  ASSUME Inv, step # "none", Done, Kept, UNCHANGED <<dead, blank, cpc, passes, work, handled, missed>>,
         errors' \in 0..MaxErrors, crashes' = crashes,
         \/ pel' = pel \ {Entry} /\ UNCHANGED cuts
         \/ pel' = pel /\ step = "bury" /\ UNCHANGED cuts
         \/ pel' = pel /\ step = "buried" /\ Cut(Entry)
  PROVE  Inv'
<1>1. /\ Entry \in ToSet(batch) /\ Entry \in Posts /\ Entry = batch[1]
      /\ Len(batch) \in Nat \ {0}
  BY EntryInHand DEF Inv
<1>2. /\ batch' \in Seq(Posts) /\ Len(batch') = Len(batch) - 1
      /\ DOMAIN batch' = 1..Len(batch')
      /\ step' \in {"none", "handle"} /\ (step' = "none" <=> batch' = <<>>)
  BY DoneBatch DEF Inv
<1>3. /\ \A p : p \in ToSet(batch') => p \in ToSet(batch) /\ p # Entry
      /\ \A i, j \in 1..Len(batch') : batch'[i] = batch'[j] => i = j
      /\ \A i \in 1..Len(batch') : batch'[i] \in pel
  BY DoneDrops DEF Inv
<1>4. cuts' \in [Posts -> Nat] /\ \A q \in Posts : q # Entry => cuts'[q] = cuts[q]
  BY <1>1, CutTyped DEF Inv, TypeOK
<1>5. TypeOK'
  BY <1>2, <1>4 DEF Inv, TypeOK, Kept, gateway, work
<1>6. Tracked'
  BY DEF Inv, Tracked, work
<1>7. ReadFirst'
  BY <1>3, KeptFacts DEF Inv, ReadFirst
<1>8. InHand'
  <2>1. \A i \in 1..Len(batch') : batch'[i] \in pel'
    BY <1>2, <1>3 DEF ToSet
  <2>2. step' = "handle" => Entry' \in pel'
    BY <1>2, <2>1, EmptySeq DEF Entry
  <2> QED BY <1>2, <1>3, <2>1, <2>2 DEF InHand
<1>9. CutsCount'
  <2> SUFFICES ASSUME NEW p \in Posts
               PROVE  /\ handled[p] <= 1 + cuts'[p]
                      /\ Open(p)' => handled[p] <= cuts'[p]
                      /\ p \in dead /\ Open(p)' => cuts'[p] > 0
                      /\ p \in dead /\ handled[p] > 0 => cuts'[p] > 0
    BY <1>2 DEF CutsCount, Between
  <2>1. handled[p] \in Nat /\ cuts[p] \in Nat
    BY DEF Inv, TypeOK
  <2>2. Open(p)' => Open(p)
    BY <1>3, KeptFacts DEF Open
  <2>3. CASE p # Entry
    BY <1>4, <2>1, <2>2, <2>3 DEF Inv, CutsCount, Between
  <2>4. CASE p = Entry /\ pel' = pel \ {Entry} /\ UNCHANGED cuts
    <3>1. Read(p)
      BY <1>1, <2>4 DEF Inv, ReadFirst
    <3>2. ~Open(p)'
      BY <1>3, <2>4, <3>1, KeptFacts DEF Open
    <3> QED BY <2>4, <3>2 DEF Inv, CutsCount
  <2>5. CASE p = Entry /\ step = "bury" /\ UNCHANGED cuts
    BY <2>2, <2>5 DEF Inv, CutsCount, Between
  <2>6. CASE p = Entry /\ step = "buried" /\ Cut(Entry)
    <3>1. cuts'[p] = cuts[p] + 1
      BY <1>1, <2>6, CutTyped DEF Inv
    <3> QED BY <2>1, <3>1 DEF Inv, CutsCount
  <2> QED BY <2>3, <2>4, <2>5, <2>6
<1> QED BY <1>5, <1>6, <1>7, <1>8, <1>9, KeptFacts DEF Inv

LEMMA SettleInv ==
  ASSUME Inv, Ack \/ BuryAck \/ BuryFails
  PROVE  Inv'
<1>1. /\ step # "none" /\ Done /\ Kept
      /\ UNCHANGED <<dead, blank, cpc, passes, work, handled, missed>>
      /\ UNCHANGED faults \/ Error
  BY DEF Ack, BuryAck, BuryFails, Kept, stream, history
<1>2. errors' \in 0..MaxErrors /\ crashes' = crashes
  BY <1>1, ErrorTyped DEF Inv, TypeOK
<1>3. \/ pel' = pel \ {Entry} /\ UNCHANGED cuts
      \/ pel' = pel /\ step = "bury" /\ UNCHANGED cuts
      \/ pel' = pel /\ step = "buried" /\ Cut(Entry)
  BY DEF Ack, BuryAck, BuryFails, stream, history
<1> QED BY <1>1, <1>2, <1>3, DoneInv

LEMMA CrashInv ==
  ASSUME Inv, Crash
  PROVE  Inv'
<1>1. /\ UNCHANGED <<gateway, stream, running, handled, missed, errors>>
      /\ UNCHANGED <<log, first, next, pel, dead, blank>>
      /\ crashes' = crashes + 1 /\ crashes < MaxCrashes /\ cpc' = "down"
      /\ batch' = <<>> /\ step' = "none" /\ passes' = 0
      /\ registry' = [p \in Posts |-> "none"]
      /\ IF step \in {"ack", "buried"} THEN Cut(Entry) ELSE UNCHANGED cuts
  BY DEF Crash, stream
<1>2. crashes' \in 0..MaxCrashes /\ crashes' > 0 /\ passes' \in 0..MaxPasses
  BY <1>1, IntakeAssumption DEF Inv, TypeOK
<1>3. step # "none" => Entry \in Posts /\ Entry \in ToSet(batch)
  BY EntryInHand DEF Inv
<1>4. /\ cuts' \in [Posts -> Nat]
      /\ \A q \in Posts : ~Between(q, "ack") /\ ~Between(q, "buried") => cuts'[q] = cuts[q]
      /\ \A q \in Posts : Between(q, "ack") \/ Between(q, "buried") => cuts'[q] = cuts[q] + 1
  <2>1. CASE step \in {"ack", "buried"}
    BY <1>1, <1>3, <2>1, CutTyped DEF Inv, Between
  <2>2. CASE step \notin {"ack", "buried"}
    BY <1>1, <2>2 DEF Inv, TypeOK, Between
  <2> QED BY <2>1, <2>2
<1>5. TypeOK'
  <2>1. registry' \in [Posts -> {"none", "warmup", "running"}]
    BY <1>1
  <2>2. UNCHANGED <<gpc, published, cached, recent>>
    BY <1>1 DEF gateway
  <2>3. batch' \in Seq(Posts) /\ step' \in {"none", "handle", "ack", "bury", "buried"}
        /\ (step' = "none" <=> batch' = <<>>) /\ cpc' \in {"down", "group", "drain", "loop"}
    BY <1>1
  <2> QED BY <1>1, <1>2, <1>4, <2>1, <2>2, <2>3, SMTT(30) DEF Inv, TypeOK
<1>6. Tracked' /\ Kept
  BY <1>1, <1>2 DEF Inv, Tracked, Kept
<1>7. ToSet(batch') = {}
  BY <1>1 DEF ToSet
<1>8. ReadFirst'
  BY <1>1, <1>6, <1>7, KeptFacts DEF Inv, ReadFirst
<1>9. InHand'
  BY <1>1 DEF InHand
<1>10. CutsCount'
  <2> SUFFICES ASSUME NEW p \in Posts
               PROVE  /\ handled[p] <= 1 + cuts'[p]
                      /\ Open(p)' => handled[p] <= cuts'[p]
                      /\ p \in dead /\ Open(p)' => cuts'[p] > 0
                      /\ p \in dead /\ handled[p] > 0 => cuts'[p] > 0
    BY <1>1 DEF CutsCount, Between
  <2>1. handled[p] \in Nat /\ cuts[p] \in Nat
    BY DEF Inv, TypeOK
  <2>2. Open(p)' => Open(p)
    BY <1>1, <1>6, <1>7, KeptFacts DEF Open
  <2>3. CASE Between(p, "ack") \/ Between(p, "buried")
    BY <1>4, <2>1, <2>3 DEF Inv, CutsCount
  <2>4. CASE ~Between(p, "ack") /\ ~Between(p, "buried")
    BY <1>4, <2>1, <2>2, <2>4 DEF Inv, CutsCount
  <2> QED BY <2>3, <2>4
<1> QED BY <1>5, <1>6, <1>8, <1>9, <1>10, KeptFacts DEF Inv

LEMMA NextInv ==
  ASSUME Inv, [Next]_vars
  PROVE  Inv'
<1>1. CASE UNCHANGED vars
  <2>1. UNCHANGED <<gateway, stream, consumer, work, history, faults>>
    BY <1>1 DEF vars
  <2>2. TypeOK' /\ Tracked'
    BY <2>1 DEF Inv, TypeOK, Tracked, gateway, stream, consumer, work, history, faults
  <2> QED BY <2>1, <2>2, QuietInv DEF gateway, consumer, history
<1>2. CASE Gateway
  BY <1>2, KeysInv, AsksInv, AddsInv DEF Gateway, Request, Asks
<1>3. CASE Consume
  BY <1>3, TaskInv, DrainReadInv, ReadNewInv, HandleInv, HandleRaisesInv, BuryInv, SettleInv
     DEF Consume
<1>4. CASE DrainFails \/ AckFails \/ BuryFails \/ Crash
  BY <1>4, TaskInv, AckFailsInv, SettleInv, CrashInv
<1>5. CASE \E p \in Posts : FirstHeartbeat(p) \/ WorkerEnds(p)
  BY <1>5, WorkersInv
<1> QED BY <1>1, <1>2, <1>3, <1>4, <1>5 DEF Next

LEMMA InitInv ==
  ASSUME Init
  PROVE  Inv
<1>1. TypeOK
  <2>1. /\ gpc \in [Posts -> Stages] /\ registry \in [Posts -> {"none", "warmup", "running"}]
        /\ handled \in [Posts -> Nat] /\ cuts \in [Posts -> Nat]
    BY DEF Init, Stages
  <2>2. /\ passes \in 0..MaxPasses /\ crashes \in 0..MaxCrashes /\ errors \in 0..MaxErrors
    BY IntakeAssumption DEF Init
  <2>3. log \in Seq(Posts) /\ batch \in Seq(Posts)
    BY DEF Init
  <2>4. /\ published \in {OldKeys, NewKeys} /\ cached \in {{}, OldKeys, NewKeys}
        /\ recent \in BOOLEAN
    BY Zenon DEF Init
  <2>5. /\ first \in Nat \ {0} /\ next \in Nat \ {0}
        /\ pel \subseteq Posts /\ dead \subseteq Posts /\ blank \subseteq Posts
    BY DEF Init
  <2>6. /\ cpc \in {"down", "group", "drain", "loop"}
        /\ step \in {"none", "handle", "ack", "bury", "buried"} /\ (step = "none" <=> batch = <<>>)
        /\ running \subseteq Posts /\ missed \subseteq Posts
    BY DEF Init
  <2> QED BY <2>1, <2>2, <2>3, <2>4, <2>5, <2>6 DEF TypeOK, Stages
<1>2. Len(log) = 0 /\ Len(batch) = 0 /\ ToSet(batch) = {} /\ ToSet(log) = {}
  BY DEF Init, ToSet
<1>3. LogOnce /\ ReadFirst /\ InHand
  BY <1>2 DEF Init, LogOnce, ReadFirst, InHand
<1>4. CutsCount /\ Tracked
  BY DEF Init, CutsCount, Tracked
<1> QED BY <1>1, <1>3, <1>4 DEF Inv

\* The types, and what the stream, the pending entries, the batch in hand and the
\* history say of each other, through any number of crashes and Redis errors.
THEOREM IntakeInvariant == Spec => []Inv
<1>1. Init => Inv
  BY InitInv
<1>2. Inv /\ [Next]_vars => Inv'
  BY NextInv
<1> QED BY <1>1, <1>2, PTL DEF Spec

\* A bug gets a second worker, or an event that was handled is a dead letter too,
\* only if the process died or a Redis call failed between an outcome of the entry
\* and its acknowledgement; once per such cut.
THEOREM IntakeSpawnsAccounted == Spec => []SpawnsAccounted
<1>1. Inv => SpawnsAccounted
  BY DEF Inv, CutsCount, SpawnsAccounted
<1> QED BY <1>1, IntakeInvariant, PTL

\* The CI result of a running worker's branch reaches its inbox, from the spawn on,
\* as long as the orchestrator has not died since.
THEOREM IntakeResultsRouted == Spec => []ResultsRouted
<1>1. Inv => ResultsRouted
  BY DEF Inv, Tracked, ResultsRouted
<1> QED BY <1>1, IntakeInvariant, PTL

-----------------------------------------------------------------------------
(* The path implements Delivery *)

Abstract == [p \in Posts |-> Status(p)]

LEMMA StatusCases ==
  ASSUME NEW p
  PROVE  /\ p \notin ToSet(log) => Status(p) = "absent"
         /\ p \in ToSet(log) /\ (p \in pel \/ Undelivered(p)) => Status(p) = "held"
         /\ p \in ToSet(log) /\ p \notin pel /\ ~Undelivered(p) /\ handled[p] > 0
              => Status(p) = "done"
         /\ p \in ToSet(log) /\ p \notin pel /\ ~Undelivered(p) /\ ~(handled[p] > 0)
              /\ p \in dead \cup blank => Status(p) = "buried"
         /\ p \in ToSet(log) /\ p \notin pel /\ ~Undelivered(p) /\ ~(handled[p] > 0)
              /\ p \notin dead \cup blank => Status(p) = "evicted"
BY DEF Status

\* The cursor is past an entry that has been read.
LEMMA ReadDelivered ==
  ASSUME Inv, NEW p, Read(p)
  PROVE  p \in ToSet(log) /\ ~Undelivered(p)
<1>1. Len(log) \in Nat /\ next \in Nat /\ first \in Nat \ {0}
  BY LenProperties DEF Inv, TypeOK
<1>2. \A k \in first..Len(log) : k \in 1..Len(log)
  BY <1>1
<1> QED BY <1>1, <1>2 DEF Read, Undelivered

LEMMA SameStatus ==
  ASSUME UNCHANGED <<stream, handled>>
  PROVE  UNCHANGED <<Abstract, handled>>
<1>1. UNCHANGED <<log, first, next, pel, dead, blank>>
  BY DEF stream
<1> QED BY <1>1 DEF Abstract, Status, Undelivered, ToSet

LEMMA AddsAccepts ==
  ASSUME Inv, NEW p \in Posts, Forward(p) \/ ForwardFails(p)
  PROVE  [D!Next]_<<Abstract, handled>>
<1>1. /\ gpc[p] = "admitted"
      /\ UNCHANGED <<next, pel, dead, blank, handled>>
      /\ AddEntry(p) \/ UNCHANGED <<log, first>>
  BY AddsTyped DEF Inv, history
<1>2. CASE UNCHANGED <<log, first>>
  BY <1>1, <1>2, SameStatus DEF stream
<1>3. CASE AddEntry(p)
  <2>1. /\ log' \in Seq(Posts) /\ Len(log') = Len(log) + 1 /\ Len(log) \in Nat
        /\ \A k \in 1..Len(log) : log'[k] = log[k]
        /\ log'[Len(log) + 1] = p
        /\ first' \in Nat \ {0} /\ first' >= first /\ first' <= Len(log) + 1
    BY <1>3, AddEntryLog DEF Inv
  <2>2. DOMAIN log = 1..Len(log) /\ DOMAIN log' = 1..Len(log') /\ next \in Nat
        /\ next <= Len(log) + 1 /\ first \in Nat \ {0}
    BY <2>1, LenProperties DEF Inv, TypeOK, LogOnce
  <2>3. \A k \in 1..Len(log) : log[k] # p
    BY <1>1 DEF Inv, LogOnce
  <2>4. p \notin ToSet(log) /\ p \in ToSet(log')
    <3>1. Len(log) + 1 \in DOMAIN log'
      BY <2>1, <2>2
    <3> QED BY <2>1, <2>2, <2>3, <3>1 DEF ToSet
  <2>5. \A q : q # p => (q \in ToSet(log') <=> q \in ToSet(log))
    <3>1. \A k \in DOMAIN log' : k \in DOMAIN log \/ k = Len(log) + 1
      BY <2>1, <2>2
    <3>2. \A k \in DOMAIN log : k \in DOMAIN log'
      BY <2>1, <2>2
    <3> QED BY <2>1, <2>2, <3>1, <3>2 DEF ToSet
  <2>6. Status(p) = "absent" /\ Status(p)' = "held"
    <3>1. Len(log) + 1 \in first'..Len(log') /\ Len(log) + 1 >= next
      BY <2>1, <2>2
    <3>2. Undelivered(p)'
      BY <1>1, <2>1, <3>1 DEF Undelivered
    <3> QED BY <2>4, <3>2, StatusCases DEF Status
  <2>7. \A q : q # p /\ Undelivered(q)' => Undelivered(q)
    <3> SUFFICES ASSUME NEW q, q # p, Undelivered(q)'
                 PROVE  Undelivered(q)
      OBVIOUS
    <3>1. PICK k \in first'..Len(log') : k >= next /\ log'[k] = q
      BY <1>1 DEF Undelivered
    <3>2. k \in first..Len(log) /\ k \in 1..Len(log)
      BY <2>1, <2>2, <3>1
    <3> QED BY <2>1, <3>1, <3>2 DEF Undelivered
  <2>8. ASSUME NEW q \in Posts, q # p
        PROVE  \/ Status(q)' = Status(q)
               \/ Status(q) = "held" /\ handled[q] = 0 /\ Status(q)' = "evicted"
    <3>1. CASE q \in ToSet(log) /\ q \notin pel /\ Undelivered(q) /\ ~Undelivered(q)'
      <4>1. ~Read(q)
        BY <3>1, ReadDelivered
      <4>2. handled[q] = 0 /\ q \notin dead \cup blank
        BY <4>1 DEF Inv, ReadFirst, TypeOK
      <4>3. Status(q) = "held"
        BY <3>1, StatusCases
      <4>4. Status(q)' = "evicted"
        BY <1>1, <2>5, <2>8, <3>1, <4>2 DEF Status
      <4> QED BY <4>2, <4>3, <4>4
    <3>2. CASE ~(q \in ToSet(log) /\ q \notin pel /\ Undelivered(q) /\ ~Undelivered(q)')
      BY <1>1, <2>5, <2>7, <2>8, <3>2 DEF Status
    <3> QED BY <3>1, <3>2
  <2> DEFINE E == {q \in Posts : Status(q) # Status(q)' /\ q # p}
  <2>9. /\ Abstract[p] = "absent" /\ p \notin E
        /\ \A q \in E : Abstract[q] = "held" /\ handled[q] = 0
    BY <2>6, <2>8 DEF Abstract
  <2>10. Abstract' = [q \in Posts |-> IF q \in E THEN "evicted"
                                      ELSE IF q = p THEN "held" ELSE Abstract[q]]
    BY <2>6, <2>8 DEF Abstract
  <2>11. D!Accept(p, E)
    BY <1>1, <2>9, <2>10 DEF D!Accept, Abstract
  <2>12. E \in SUBSET Posts
    OBVIOUS
  <2> QED BY <2>11, <2>12 DEF D!Next
<1> QED BY <1>1, <1>2, <1>3

LEMMA ReadNewHolds ==
  ASSUME Inv, ReadNew
  PROVE  UNCHANGED <<Abstract, handled>>
<1>1. PICK from \in Nat, new \in Seq(Posts) :
         /\ from >= next /\ from >= first /\ (from = first \/ from = next)
         /\ from + Len(new) <= Len(log) + 1 /\ Len(new) \in Nat
         /\ DOMAIN new = 1..Len(new)
         /\ \A i \in 1..Len(new) : new[i] = log[from + i - 1]
         /\ new # <<>> /\ Begin(new) /\ next' = from + Len(new) /\ pel' = pel \cup ToSet(new)
  BY NewBatch
<1>2. UNCHANGED <<log, first, dead, blank, handled>>
  BY DEF ReadNew, history
<1>3. Len(log) \in Nat /\ next \in Nat \ {0} /\ first \in Nat \ {0} /\ DOMAIN log = 1..Len(log)
  BY LenProperties DEF Inv, TypeOK
<1>4. ASSUME NEW q \in ToSet(new)
      PROVE  q \in ToSet(log) /\ Undelivered(q)
  <2>1. PICK i \in 1..Len(new) : q = new[i]
    BY <1>1 DEF ToSet
  <2>2. /\ from + i - 1 \in first..Len(log) /\ from + i - 1 >= next /\ from + i - 1 \in 1..Len(log)
        /\ log[from + i - 1] = q
    BY <1>1, <1>3, <2>1
  <2> QED BY <1>3, <2>2 DEF ToSet, Undelivered
<1>5. ASSUME NEW q, Undelivered(q), q \notin ToSet(new)
      PROVE  Undelivered(q)'
  <2>1. PICK k \in first..Len(log) : k >= next /\ log[k] = q
    BY <1>5 DEF Undelivered
  <2>2. k >= from
    BY <1>1, <1>3, <2>1
  <2>3. ~(k < from + Len(new))
    <3> SUFFICES ASSUME k < from + Len(new)
                 PROVE  FALSE
      BY <1>1, <1>3, <2>1
    <3>1. k - from + 1 \in 1..Len(new) /\ from + (k - from + 1) - 1 = k
      BY <1>1, <1>3, <2>1, <2>2
    <3>2. new[k - from + 1] = q
      BY <1>1, <2>1, <3>1
    <3> QED BY <1>1, <1>5, <3>1, <3>2 DEF ToSet
  <2>4. k >= next'
    BY <1>1, <1>3, <2>1, <2>3
  <2> QED BY <1>2, <2>1, <2>4 DEF Undelivered
<1>6. ASSUME NEW q, Undelivered(q)'
      PROVE  Undelivered(q)
  <2>1. PICK k \in first..Len(log) : k >= next' /\ log[k] = q
    BY <1>2, <1>6 DEF Undelivered
  <2>2. k >= next
    BY <1>1, <1>3, <2>1
  <2> QED BY <2>1, <2>2 DEF Undelivered
<1>7. ASSUME NEW q
      PROVE  Status(q)' = Status(q)
  <2>1. (q \in pel' \/ Undelivered(q)') <=> (q \in pel \/ Undelivered(q))
    BY <1>1, <1>4, <1>5, <1>6
  <2> QED BY <1>2, <2>1 DEF Status
<1> QED BY <1>2, <1>7 DEF Abstract

LEMMA HandleHandles ==
  ASSUME Inv, Handle
  PROVE  D!Next
<1>1. /\ handled' = [handled EXCEPT ![Entry] = @ + 1] /\ step = "handle"
      /\ UNCHANGED <<log, first, next, pel, dead, blank>>
  BY DEF Handle, stream
<1>2. Entry \in Posts /\ Entry \in pel
  BY <1>1, EntryInHand DEF Inv, InHand
<1>3. Entry \in ToSet(log)
  BY <1>2, ReadDelivered DEF Inv, ReadFirst
<1>4. \A q \in Posts : q # Entry => handled'[q] = handled[q]
  BY <1>1 DEF Inv, TypeOK
<1>5. \A q \in Posts : Status(q)' = Status(q)
  BY <1>1, <1>2, <1>3, <1>4 DEF Status, Undelivered
<1>6. Status(Entry) = "held"
  BY <1>2, <1>3, StatusCases
<1>7. D!Handle(Entry)
  BY <1>1, <1>2, <1>5, <1>6 DEF D!Handle
<1> QED BY <1>2, <1>7 DEF D!Next

\* An entry that has an outcome is acknowledged, now or before.
LEMMA AckSettles ==
  ASSUME Inv, step # "none", UNCHANGED <<log, first, next, dead, blank, handled>>,
         pel' = pel \/ pel' = pel \ {Entry},
         handled[Entry] > 0 \/ Entry \in dead \cup blank
  PROVE  [D!Next]_<<Abstract, handled>>
<1>1. CASE pel' = pel
  BY <1>1, SameStatus DEF stream
<1>2. CASE Entry \in pel /\ pel' = pel \ {Entry}
  <2>1. Entry \in Posts /\ Entry \in ToSet(log) /\ ~Undelivered(Entry)
    BY <1>2, EntryInHand, ReadDelivered DEF Inv, ReadFirst
  <2>2. \A q \in Posts : q # Entry => Status(q)' = Status(q)
    BY <1>2 DEF Status, Undelivered
  <2>3. Status(Entry) = "held"
    BY <1>2, <2>1, StatusCases
  <2>4. CASE handled[Entry] > 0
    <3>1. \A q \in Posts : Status(q)' = IF q = Entry THEN "done" ELSE Status(q)
      BY <1>2, <2>1, <2>2, <2>4 DEF Status, Undelivered
    <3>2. Abstract' = [Abstract EXCEPT ![Entry] = "done"] /\ Abstract[Entry] = "held"
      BY <2>1, <2>3, <3>1 DEF Abstract
    <3>3. D!Finish(Entry)
      BY <2>4, <3>2 DEF D!Finish, D!To, Abstract
    <3> QED BY <2>1, <3>3 DEF D!Next
  <2>5. CASE ~(handled[Entry] > 0)
    <3>1. \A q \in Posts : Status(q)' = IF q = Entry THEN "buried" ELSE Status(q)
      BY <1>2, <2>1, <2>2, <2>5 DEF Status, Undelivered
    <3>2. Abstract' = [Abstract EXCEPT ![Entry] = "buried"] /\ Abstract[Entry] = "held"
      BY <2>1, <2>3, <3>1 DEF Abstract
    <3>3. D!Bury(Entry)
      BY <3>2 DEF D!Bury, D!To, Abstract
    <3> QED BY <2>1, <3>3 DEF D!Next
  <2> QED BY <2>4, <2>5
<1> QED BY <1>1, <1>2

LEMMA BuryHolds ==
  ASSUME Inv, Bury
  PROVE  UNCHANGED <<Abstract, handled>>
<1>1. /\ UNCHANGED <<log, first, next, pel, handled>> /\ step = "bury"
      /\ dead' \cup blank' = dead \cup blank \cup {Entry}
  BY DEF Bury, history
<1>2. Entry \in pel \/ handled[Entry] > 0
  BY <1>1 DEF Inv, InHand
<1>3. \A q \in Posts : Status(q)' = Status(q)
  BY <1>1, <1>2 DEF Status, Undelivered
<1> QED BY <1>1, <1>3 DEF Abstract

LEMMA StepDelivers ==
  ASSUME Inv, [Next]_vars
  PROVE  [D!Next]_<<Abstract, handled>>
<1>1. CASE UNCHANGED <<stream, handled>>
  BY <1>1, SameStatus
<1>2. CASE \E p \in Posts : Forward(p) \/ ForwardFails(p)
  BY <1>2, AddsAccepts
<1>3. CASE ReadNew
  BY <1>3, ReadNewHolds
<1>4. CASE Handle
  BY <1>4, HandleHandles
<1>5. CASE Bury
  BY <1>5, BuryHolds
<1>6. CASE Ack \/ AckFails
  <2>1. /\ step = "ack" /\ UNCHANGED <<log, first, next, dead, blank, handled>>
        /\ pel' = pel \/ pel' = pel \ {Entry}
    BY <1>6 DEF Ack, AckFails, history
  <2>2. handled[Entry] > 0
    BY <2>1 DEF Inv, InHand
  <2> QED BY <2>1, <2>2, AckSettles
<1>7. CASE BuryAck
  <2>1. /\ step = "buried" /\ UNCHANGED <<log, first, next, dead, blank, handled>>
        /\ pel' = pel \ {Entry}
    BY <1>7 DEF BuryAck, history
  <2>2. Entry \in dead \cup blank
    BY <2>1 DEF Inv, InHand
  <2> QED BY <2>1, <2>2, AckSettles
<1>8. \/ UNCHANGED <<stream, handled>>
      \/ \E p \in Posts : Forward(p) \/ ForwardFails(p)
      \/ ReadNew \/ Handle \/ Bury \/ Ack \/ AckFails \/ BuryAck
  <2>1. CASE UNCHANGED vars
    BY <2>1 DEF vars, history
  <2>2. CASE Gateway
    BY <2>2 DEF Gateway, Request, Rotate, CacheExpires, ThrottleEnds, Arrive, Lookup, Throttle,
       FetchKey, Repost, history
  <2>3. CASE Consume
    BY <2>3 DEF Consume, Start, EnsureGroup, DrainRead, HandleRaises, history
  <2>4. CASE DrainFails \/ AckFails \/ BuryFails \/ Crash
    BY <2>4 DEF DrainFails, BuryFails, Crash, history
  <2>5. CASE \E p \in Posts : FirstHeartbeat(p) \/ WorkerEnds(p)
    BY <2>5 DEF FirstHeartbeat, WorkerEnds, history
  <2> QED BY <2>1, <2>2, <2>3, <2>4, <2>5 DEF Next
<1> QED BY <1>1, <1>2, <1>3, <1>4, <1>5, <1>6, <1>7, <1>8

\* The path from the webhook to the handler implements Delivery: an entry that has
\* been acknowledged was handled or is a dead letter, and the stream drops only
\* what nobody has read, through any number of crashes and Redis errors.
THEOREM IntakeDelivers == Spec => Delivered
<1>1. Init => D!Init
  <2> SUFFICES ASSUME Init
               PROVE  D!Init
    OBVIOUS
  <2>1. ToSet(log) = {}
    BY DEF Init, ToSet
  <2>2. \A p \in Posts : Status(p) = "absent"
    BY <2>1, StatusCases
  <2> QED BY <2>2 DEF Init, D!Init
<1>2. Inv /\ [Next]_vars => [D!Next]_<<Abstract, handled>>
  BY StepDelivers
<1>3. Inv /\ [Next]_vars => [D!Next]_<<[p \in Posts |-> Status(p)], handled>>
  BY <1>2 DEF Abstract
<1> QED BY <1>1, <1>3, IntakeInvariant, PTL DEF Spec, Delivered, D!Spec

=============================================================================
