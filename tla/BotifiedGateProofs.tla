-------------------------- MODULE BotifiedGateProofs --------------------------
(***************************************************************************)
(* Safety of BotifiedGate for every catalogue of events and every limit.   *)
(***************************************************************************)
EXTENDS BotifiedGate, SequenceTheorems, FiniteSetTheorems, TLAPS

(* What the gate remembers of a key is as late as the last frame about it. *)
KeysRemember ==
    \A i \in DOMAIN log : \A k \in log[i].marks :
        k \in DOMAIN lastEmitted /\ log[i].at <= lastEmitted[k]

(* The timestamps are those of the last frames, the other frames are more  *)
(* than a minute old.                                                      *)
Remembers(times) ==
    /\ Len(times) <= Len(log)
    /\ \A i \in DOMAIN times : times[i] = log[Len(log) - Len(times) + i].at
    /\ \A i \in 1..(Len(log) - Len(times)) : now - log[i].at >= Minute

InTime ==
    /\ \A i \in DOMAIN log : log[i].at <= now
    /\ \A i, j \in DOMAIN log : i < j => log[i].at <= log[j].at

(* Of an event that is not forgotten there is one trace: it waits, or it   *)
(* was written.                                                            *)
Accounted(id) == id \in ToSet(seen) \/ id \in forgotten
OneTrace ==
    /\ \A i \in DOMAIN log : Accounted(log[i].event.id)
    /\ \A i \in DOMAIN pending : Accounted(pending[i].event.id)
    /\ \A i \in DOMAIN log, j \in DOMAIN pending :
         log[i].event.id = pending[j].event.id => log[i].event.id \in forgotten
    /\ \A i, j \in DOMAIN pending :
         i # j /\ pending[i].event.id = pending[j].event.id => pending[i].event.id \in forgotten

(* A departure is marked until something else is said of the person.       *)
Departed(k, i) == \E m \in DOMAIN log : i < m /\ log[m].event.kind # "left" /\ k \in log[m].marks
DeparturesMarked ==
    \A i \in DOMAIN log : log[i].event.kind = "left" =>
        \A k \in log[i].marks \cup {log[i].event.key} : k \in leftMark \/ Departed(k, i)

(* Nobody who left is waiting, and nobody waits twice.                     *)
WaitingApart ==
    /\ \A i \in DOMAIN pending : pending[i].event.kind \in DeferredKinds
    /\ \A i, j \in DOMAIN pending : i # j => pending[i].event.key # pending[j].event.key

IInv ==
    /\ TypeOK
    /\ KeysRemember /\ Remembers(recent) /\ InTime
    /\ OneTrace /\ DeparturesMarked /\ WaitingApart
    /\ GapKept /\ RateLimits /\ EmittedOnce /\ LeftOnce

-----------------------------------------------------------------------------
(* Lemmas on sequences                                                     *)

(* CHOOSE in First finds the least index: a set of intervals 1..i has a    *)
(* smallest one.                                                           *)
LEMMA FirstIsLeast ==
  ASSUME NEW S \in SUBSET Nat, S # {}
  PROVE  First(S) \in S /\ \A j \in S : First(S) <= j
<1> DEFINE T == {1..i : i \in S}
<1>1. T \subseteq FiniteSubsetsOf(Nat) /\ T # {}
  <2>1. \A i \in S : IsFiniteSet(1..i) /\ 1..i \subseteq Nat
    BY FS_Interval
  <2> QED
    BY <2>1 DEF FiniteSubsetsOf
<1>2. IsWellFoundedOn(StrictSubsetOrdering(Nat), FiniteSubsetsOf(Nat))
  BY FS_StrictSubsetOrderingWellFounded
<1>3. PICK x \in T : \A y \in T : ~ (<<y, x>> \in StrictSubsetOrdering(Nat))
  <2> HIDE DEF T
  <2> QED
    BY <1>1, <1>2, WFMin
<1>4. PICK i \in S : x = 1..i
  BY <1>3
<1>5. ASSUME NEW j \in S, j < i PROVE FALSE
  <2>1. 1..j \subseteq 1..i /\ 1..i \subseteq Nat /\ i \in 1..i /\ i \notin 1..j
    BY <1>5
  <2>2. <<1..j, 1..i>> \in StrictSubsetOrdering(Nat)
    BY <2>1 DEF StrictSubsetOrdering
  <2> QED
    BY <1>3, <1>4, <2>2
<1>6. \A j \in S : i <= j
  BY <1>5
<1> QED
  BY <1>6 DEF First

LEMMA Appended ==
  ASSUME NEW S, NEW q \in Seq(S), NEW e \in S
  PROVE  /\ Append(q, e) \in Seq(S) /\ Len(Append(q, e)) = Len(q) + 1
         /\ DOMAIN Append(q, e) = DOMAIN q \cup {Len(q) + 1} /\ Len(q) + 1 \notin DOMAIN q
         /\ DOMAIN q = 1..Len(q) /\ Len(q) \in Nat
         /\ \A i \in DOMAIN q : Append(q, e)[i] = q[i]
         /\ Append(q, e)[Len(q) + 1] = e
  BY AppendProperties, LenProperties

LEMMA Removed ==
  ASSUME NEW S, NEW q \in Seq(S), NEW k \in DOMAIN q
  PROVE  /\ RemoveAt(q, k) \in Seq(S)
         /\ Len(RemoveAt(q, k)) = Len(q) - 1
         /\ \A i \in DOMAIN RemoveAt(q, k) :
              LET j == IF i < k THEN i ELSE i + 1
              IN  j \in DOMAIN q /\ j # k /\ RemoveAt(q, k)[i] = q[j]
<1> DEFINE a == SubSeq(q, 1, k - 1)
           b == SubSeq(q, k + 1, Len(q))
<1>0. k \in 1..Len(q) /\ Len(q) \in Nat /\ \A i \in 1..Len(q) : q[i] \in S
  BY LenProperties
<1>1. a \in Seq(S) /\ Len(a) = k - 1 /\ \A i \in 1..(k - 1) : a[i] = q[i]
  <2>1. \A i \in 1..(k - 1) : q[i] \in S
    BY <1>0
  <2> QED
    BY <1>0, <2>1, SubSeqProperties
<1>2. b \in Seq(S) /\ Len(b) = Len(q) - k /\ \A i \in 1..(Len(q) - k) : b[i] = q[k + i]
  <2>1. \A i \in (k + 1)..Len(q) : q[i] \in S
    BY <1>0
  <2> QED
    BY <1>0, <2>1, SubSeqProperties
<1> HIDE DEF a, b
<1>3. /\ a \o b \in Seq(S) /\ Len(a \o b) = Len(q) - 1
      /\ \A i \in 1..(Len(q) - 1) : (a \o b)[i] = IF i <= k - 1 THEN a[i] ELSE b[i - (k - 1)]
  <2>1. Len(a) + Len(b) = Len(q) - 1 /\ \A i \in Int : i <= Len(a) <=> i <= k - 1
    BY <1>0, <1>1, <1>2
  <2>2. /\ a \o b \in Seq(S) /\ Len(a \o b) = Len(a) + Len(b)
        /\ \A i \in 1..(Len(a) + Len(b)) :
             (a \o b)[i] = IF i <= Len(a) THEN a[i] ELSE b[i - Len(a)]
    BY <1>1, <1>2, ConcatProperties
  <2>3. Len(a) = k - 1 /\ Len(a) + Len(b) = Len(q) - 1
    BY <1>1, <2>1
  <2> QED
    BY <2>2, <2>3
<1>4. ASSUME NEW i \in 1..(Len(q) - 1)
      PROVE  LET j == IF i < k THEN i ELSE i + 1
             IN  j \in DOMAIN q /\ j # k /\ (a \o b)[i] = q[j]
  <2>1. CASE i < k
    BY <1>0, <1>1, <1>3, <2>1, LenProperties
  <2>2. CASE i >= k
    <3>1. i - (k - 1) \in 1..(Len(q) - k) /\ k + (i - (k - 1)) = i + 1 /\ i + 1 \in 1..Len(q)
          /\ ~ (i <= k - 1) /\ ~ (i < k) /\ i + 1 # k
      BY <1>0, <2>2
    <3>2. (a \o b)[i] = b[i - (k - 1)]
      BY <1>3, <3>1
    <3>3. b[i - (k - 1)] = q[i + 1]
      BY <1>2, <3>1
    <3>4. DOMAIN q = 1..Len(q)
      BY LenProperties
    <3> QED
      BY <3>1, <3>2, <3>3, <3>4
  <2>3. i < k \/ i >= k
    BY <1>0
  <2> QED
    BY <2>1, <2>2, <2>3
<1>5. DOMAIN (a \o b) = 1..(Len(q) - 1)
  BY <1>3, LenProperties
<1> QED
  BY <1>3, <1>4, <1>5 DEF RemoveAt, a, b

-----------------------------------------------------------------------------
(* Limits                                                                  *)

LEMMA LogTypes ==
  ASSUME TypeOK
  PROVE  /\ log \in Seq(Emission) /\ Len(log) \in Nat /\ DOMAIN log = 1..Len(log)
         /\ \A i \in DOMAIN log : log[i] \in Emission /\ log[i].at \in Nat
         /\ now \in Nat /\ {Minute, Second, MinuteLimit, SecondLimit, SameKeyGap, MaxTime} \subseteq Nat
<1>1. now \in Nat /\ {Minute, Second, MinuteLimit, SecondLimit, SameKeyGap, MaxTime} \subseteq Nat
  BY BoundsAssumption DEF TypeOK
<1>2. log \in Seq(Emission) /\ Len(log) \in Nat /\ DOMAIN log = 1..Len(log)
  BY LenProperties DEF TypeOK
<1>3. \A i \in DOMAIN log : log[i] \in Emission
  BY <1>2, ElementOfSeq
<1> QED
  BY <1>1, <1>2, <1>3 DEF Emission

(* The timestamps that _rate_limit_allows keeps still tell of all frames.  *)
LEMMA PoppedRemembers ==
  ASSUME TypeOK, Remembers(recent), NEW n \in 0..Len(recent), Popped(n)
  PROVE  LET kept == SubSeq(recent, n + 1, Len(recent))
         IN  kept \in Seq(0..MaxTime) /\ Len(kept) <= MinuteLimit /\ Remembers(kept)
<1> DEFINE kept == SubSeq(recent, n + 1, Len(recent))
           size == Len(recent)
<1>0. /\ recent \in Seq(0..MaxTime) /\ size \in Nat /\ DOMAIN recent = 1..size
      /\ size <= MinuteLimit /\ MinuteLimit \in Nat
      /\ \A i \in 1..size : recent[i] \in 0..MaxTime
  BY BoundsAssumption, LenProperties DEF TypeOK
<1>1. /\ kept \in Seq(0..MaxTime) /\ Len(kept) = size - n
      /\ \A i \in 1..(size - n) : kept[i] = recent[n + i]
  <2> DEFINE m == n + 1
  <2>1. \A i \in m..size : recent[i] \in 0..MaxTime
    BY <1>0
  <2>2. /\ kept \in Seq(0..MaxTime) /\ Len(kept) = (IF m <= size THEN size - m + 1 ELSE 0)
        /\ \A i \in 1..(size - m + 1) : kept[i] = recent[m + i - 1]
    <3>1. m \in Int /\ size \in Int
      BY <1>0
    <3> HIDE DEF m
    <3>2. /\ SubSeq(recent, m, size) \in Seq(0..MaxTime)
          /\ Len(SubSeq(recent, m, size)) = (IF m <= size THEN size - m + 1 ELSE 0)
          /\ \A i \in 1..(size - m + 1) : SubSeq(recent, m, size)[i] = recent[m + i - 1]
      BY <2>1, <3>1, SubSeqProperties
    <3> QED
      BY <3>2 DEF m
  <2>3. /\ size - m + 1 = size - n /\ (IF m <= size THEN size - m + 1 ELSE 0) = size - n
        /\ \A i \in 1..(size - n) : m + i - 1 = n + i
    <3>1. size \in Nat /\ n \in Nat /\ n <= size
      BY <1>0
    <3> HIDE DEF size
    <3>2. CASE n = size
      BY <3>1, <3>2
    <3>3. CASE n < size
      BY <3>1, <3>3
    <3> QED
      BY <3>1, <3>2, <3>3
  <2> HIDE DEF m, kept, size
  <2>4. \A i \in 1..(size - n) : kept[i] = recent[n + i]
    BY <2>2, <2>3
  <2> QED
    BY <2>2, <2>3, <2>4
<1> HIDE DEF kept, size
<1>2. DOMAIN kept = 1..(size - n)
  BY <1>1, LenProperties
<1>3. Len(log) \in Nat /\ now \in Nat /\ Minute \in Nat
  BY LogTypes
<1>4. size <= Len(log) /\ size - n <= size
  BY <1>0 DEF Remembers, size
<1>5. ASSUME NEW i \in DOMAIN kept PROVE kept[i] = log[Len(log) - Len(kept) + i].at
  <2>1. n + i \in DOMAIN recent /\ Len(log) - size + (n + i) = Len(log) - (size - n) + i
    BY <1>0, <1>2, <1>3
  <2>2. recent[n + i] = log[Len(log) - size + (n + i)].at
    BY <2>1 DEF Remembers, size
  <2> QED
    BY <1>1, <1>2, <2>1, <2>2
<1>6. ASSUME NEW i \in 1..(Len(log) - Len(kept)) PROVE now - log[i].at >= Minute
  <2>1. CASE i <= Len(log) - size
    BY <1>0, <1>3, <2>1 DEF Remembers, size
  <2>2. CASE i > Len(log) - size
    <3>1. i - (Len(log) - size) \in 1..n /\ Len(log) - size + (i - (Len(log) - size)) = i
      BY <1>0, <1>1, <1>3, <2>2
    <3>2. i - (Len(log) - size) \in DOMAIN recent
      BY <1>0, <3>1 DEF size
    <3>3. recent[i - (Len(log) - size)] = log[i].at
      BY <3>1, <3>2 DEF Remembers, size
    <3> QED
      BY <3>1, <3>3 DEF Popped, MinuteOver
  <2> QED
    BY <1>0, <1>3, <2>1, <2>2
<1>7. Len(kept) <= Len(log) /\ Len(kept) <= MinuteLimit
  BY <1>0, <1>1, <1>3, <1>4
<1>8. Remembers(kept)
  BY <1>5, <1>6, <1>7 DEF Remembers
<1> QED
  BY <1>1, <1>7, <1>8 DEF kept, size

(* With what it remembers the gate keeps both limits.                      *)
LEMMA AllowedIsWithinLimits ==
  ASSUME TypeOK, InTime, NEW times \in Seq(0..MaxTime), Remembers(times), RateAllows(times),
         NEW i \in DOMAIN log
  PROVE  /\ Len(log) + 1 - i >= MinuteLimit => now - log[i].at >= Minute
         /\ Len(log) + 1 - i >= SecondLimit => now - log[i].at >= Second
<1> DEFINE size == Len(times)
           gone == Len(log) - size
<1>0. /\ Len(log) \in Nat /\ DOMAIN log = 1..Len(log) /\ now \in Nat /\ log[i].at \in Nat
      /\ Minute \in Nat /\ Second \in Nat /\ MinuteLimit \in Nat /\ SecondLimit \in Nat
      /\ size \in Nat /\ DOMAIN times = 1..size
  BY LogTypes, LenProperties
<1>1. size < MinuteLimit /\ size <= Len(log) /\ gone \in Nat
  BY <1>0 DEF RateAllows, Remembers
<1>2. ASSUME i <= gone PROVE now - log[i].at >= Minute
  BY <1>0, <1>1, <1>2 DEF Remembers
<1>3. ASSUME Len(log) + 1 - i >= MinuteLimit PROVE now - log[i].at >= Minute
  <2>1. i <= gone
    BY <1>0, <1>1, <1>3
  <2> QED
    BY <1>2, <2>1
<1>4. ASSUME Len(log) + 1 - i >= SecondLimit, now - log[i].at < Second PROVE FALSE
  <2> DEFINE young == {a \in DOMAIN times : now - times[a] < Second}
             last == (i - gone)..size
  <2>1. i > gone
    BY <1>0, <1>1, <1>2, <1>4, BoundsAssumption
  <2>2. ASSUME NEW a \in last PROVE a \in young
    <3>1. a \in DOMAIN times /\ gone + a \in DOMAIN log /\ i <= gone + a
      BY <1>0, <1>1, <2>1
    <3>2. times[a] = log[gone + a].at
      BY <3>1 DEF Remembers
    <3>3. log[gone + a].at \in Nat /\ log[i].at <= log[gone + a].at
      <4>1. log[gone + a].at \in Nat
        BY <3>1, LogTypes
      <4>2. CASE i = gone + a
        BY <1>0, <4>1, <4>2
      <4>3. CASE i < gone + a
        BY <3>1, <4>1, <4>3 DEF InTime
      <4> QED
        BY <1>0, <1>1, <3>1, <4>1, <4>2, <4>3
    <3>4. now - times[a] < Second
      BY <1>0, <1>4, <3>2, <3>3
    <3> QED
      BY <3>1, <3>4
  <2>3. IsFiniteSet(young)
    <3>1. IsFiniteSet(1..size)
      BY <1>0, FS_Interval
    <3> QED
      BY <1>0, <3>1, FS_Subset
  <2>4. Cardinality(last) = size - (i - gone) + 1 /\ size - (i - gone) + 1 = Len(log) + 1 - i
    <3>1. i - gone \in Int /\ size \in Int /\ i - gone <= size
      BY <1>0, <1>1, <2>1
    <3> HIDE DEF gone, size
    <3>2. Cardinality(last) = size - (i - gone) + 1
      BY <3>1, FS_Interval
    <3> USE DEF gone
    <3> QED
      BY <1>0, <1>1, <3>2
  <2>5. Cardinality(last) <= Cardinality(young) /\ Cardinality(young) \in Nat
    <3>1. last \in SUBSET young
      BY <2>2
    <3> HIDE DEF last, young
    <3> QED
      BY <2>3, <3>1, FS_Subset, FS_CardinalityType
  <2>6. Cardinality(young) < SecondLimit
    BY DEF RateAllows, BurstCount
  <2> HIDE DEF last, young
  <2> QED
    BY <1>0, <1>4, <2>4, <2>5, <2>6
<1> QED
  BY <1>0, <1>3, <1>4

-----------------------------------------------------------------------------
(* What a step writes                                                      *)

SaysNothing ==
    /\ UNCHANGED <<lastEmitted, leftMark, log>>
    /\ recent' \in Seq(0..MaxTime) /\ Len(recent') <= MinuteLimit /\ Remembers(recent')

Says(e, key, marks, leftAfter) ==
    /\ marks \subseteq AllKeys /\ leftAfter \subseteq AllKeys
    /\ Write(e, key, marks, leftAfter)
    /\ \E times \in Seq(0..MaxTime) :
         Remembers(times) /\ RateAllows(times) /\ recent' = Append(times, now)
    /\ e.kind = "left" => key \notin leftMark /\ marks \cup {e.key} \subseteq leftAfter
    /\ e.kind # "left" => leftAfter = {} /\ ~ GapActive(marks)

LEMMA KeysOfEvents ==
  ASSUME TypeOK, NEW e \in Catalogue
  PROVE  e.key \in AllKeys /\ Aliases(e) \subseteq AllKeys /\ KeysOf(e) \subseteq AllKeys
<1>1. e.key \in AllKeys /\ e.own \subseteq AllKeys
  BY DEF AllKeys
<1>2. context.reacquired \subseteq AllKeys
  <2>1. CASE context \in Contexts
    BY <2>1 DEF AllKeys
  <2>2. CASE context = NoContext
    BY <2>2 DEF NoContext
  <2> QED
    BY <2>1, <2>2 DEF TypeOK
<1> QED
  BY <1>1, <1>2 DEF Aliases, KeysOf

LEMMA TryEmitSays ==
  ASSUME TypeOK, Remembers(recent), NEW e \in Catalogue, NEW key \in AllKeys,
         NEW leftAfter \in SUBSET AllKeys, TryEmit(e, key, leftAfter),
         e.kind = "left" =>
             key \notin leftMark /\ {key} \cup Aliases(e) \cup {e.key} \subseteq leftAfter,
         e.kind # "left" => leftAfter = {} /\ ~ GapActive({key} \cup Aliases(e))
  PROVE  SaysNothing \/ Says(e, key, {key} \cup Aliases(e), leftAfter)
<1>1. PICK n \in 0..Len(recent) :
        /\ Popped(n)
        /\ LET kept == SubSeq(recent, n + 1, Len(recent)) IN
             \/ /\ RateAllows(kept)
                /\ recent' = Append(kept, now)
                /\ Write(e, key, {key} \cup Aliases(e), leftAfter)
             \/ /\ ~ RateAllows(kept)
                /\ recent' = kept
                /\ UNCHANGED <<keyVars, log>>
  BY DEF TryEmit
<1> DEFINE kept == SubSeq(recent, n + 1, Len(recent))
<1>2. kept \in Seq(0..MaxTime) /\ Len(kept) <= MinuteLimit /\ Remembers(kept)
  BY <1>1, PoppedRemembers
<1>3. {key} \cup Aliases(e) \subseteq AllKeys
  BY KeysOfEvents
<1> HIDE DEF kept
<1>4. CASE RateAllows(kept) /\ recent' = Append(kept, now) /\ Write(e, key, {key} \cup Aliases(e), leftAfter)
  BY <1>2, <1>3, <1>4 DEF Says
<1>5. CASE recent' = kept /\ UNCHANGED <<keyVars, log>>
  BY <1>2, <1>5 DEF SaysNothing, keyVars
<1> QED
  BY <1>1, <1>4, <1>5 DEF kept

(* What a frame says, by what it leaves in the log and in the keys.        *)
LEMMA WriteLogs ==
  ASSUME TypeOK, NEW e \in Catalogue, NEW key \in AllKeys, NEW marks, NEW leftAfter,
         Says(e, key, marks, leftAfter)
  PROVE  LET last == Len(log) + 1 IN
         /\ log' \in Seq(Emission) /\ Len(log') = last
         /\ DOMAIN log' = DOMAIN log \cup {last} /\ last \notin DOMAIN log
         /\ \A i \in DOMAIN log : log'[i] = log[i] /\ i < last
         /\ log'[last] = [event |-> e, key |-> key, marks |-> marks, at |-> now]
         /\ DOMAIN lastEmitted' = DOMAIN lastEmitted \cup marks
         /\ \A k \in DOMAIN lastEmitted' :
              lastEmitted'[k] = IF k \in marks THEN now ELSE lastEmitted[k]
<1> DEFINE new == [event |-> e, key |-> key, marks |-> marks, at |-> now]
<1>1. new \in Emission
  BY DEF Emission, Says, TypeOK
<1>2. log' = Append(log, new)
  BY DEF Says, Write
<1>3. log \in Seq(Emission) /\ Len(log) \in Nat /\ DOMAIN log = 1..Len(log)
  BY LogTypes
<1> HIDE DEF new
<1>4. /\ log' \in Seq(Emission) /\ Len(log') = Len(log) + 1
      /\ DOMAIN log' = DOMAIN log \cup {Len(log) + 1} /\ Len(log) + 1 \notin DOMAIN log
      /\ \A i \in DOMAIN log : log'[i] = log[i]
      /\ log'[Len(log) + 1] = new
  BY <1>1, <1>2, <1>3, Appended
<1>5. \A i \in DOMAIN log : i < Len(log) + 1
  BY <1>3
<1>6. /\ DOMAIN lastEmitted' = DOMAIN lastEmitted \cup marks
      /\ \A k \in DOMAIN lastEmitted' :
           lastEmitted'[k] = IF k \in marks THEN now ELSE lastEmitted[k]
  BY DEF Says, Write
<1> QED
  BY <1>4, <1>5, <1>6 DEF new

LEMMA SaysTypes ==
  ASSUME TypeOK, NEW e \in Catalogue, NEW key \in AllKeys, NEW marks, NEW leftAfter,
         Says(e, key, marks, leftAfter)
  PROVE  /\ log' \in Seq(Emission) /\ DOMAIN lastEmitted' \subseteq AllKeys
         /\ \A k \in DOMAIN lastEmitted' : lastEmitted'[k] \in 0..now
         /\ leftMark' \in SUBSET AllKeys
         /\ recent' \in Seq(0..MaxTime) /\ Len(recent') <= MinuteLimit
<1>1. now \in 0..MaxTime /\ now \in Nat /\ MinuteLimit \in Nat
  BY BoundsAssumption DEF TypeOK
<1>w. /\ log' \in Seq(Emission) /\ DOMAIN lastEmitted' = DOMAIN lastEmitted \cup marks
      /\ \A k \in DOMAIN lastEmitted' :
           lastEmitted'[k] = IF k \in marks THEN now ELSE lastEmitted[k]
  BY WriteLogs
<1>2. log' \in Seq(Emission) /\ DOMAIN lastEmitted' \subseteq AllKeys
  BY <1>w DEF TypeOK, Says
<1>3. \A k \in DOMAIN lastEmitted' : lastEmitted'[k] \in 0..now
  BY <1>1, <1>w DEF TypeOK
<1>4. leftMark' \in SUBSET AllKeys
  BY DEF TypeOK, Says, Write
<1>5. PICK times \in Seq(0..MaxTime) : RateAllows(times) /\ recent' = Append(times, now)
  BY DEF Says
<1>6. recent' \in Seq(0..MaxTime) /\ Len(recent') = Len(times) + 1 /\ Len(times) \in Nat
  BY <1>1, <1>5, Appended
<1>7. Len(times) < MinuteLimit
  BY <1>5 DEF RateAllows
<1> QED
  BY <1>1, <1>2, <1>3, <1>4, <1>6, <1>7

LEMMA SaysKeeps ==
  ASSUME IInv, NEW e \in Catalogue, NEW key \in AllKeys, NEW marks, NEW leftAfter,
         Says(e, key, marks, leftAfter), now' = now
  PROVE  /\ KeysRemember' /\ Remembers(recent)' /\ InTime' /\ DeparturesMarked'
         /\ GapKept' /\ RateLimits' /\ LeftOnce'
<1> DEFINE last == Len(log) + 1
           new == [event |-> e, key |-> key, marks |-> marks, at |-> now]
<1>0. /\ TypeOK /\ KeysRemember /\ InTime /\ DeparturesMarked /\ GapKept /\ RateLimits /\ LeftOnce
  BY DEF IInv
<1>1. /\ Len(log') = last /\ DOMAIN log' = DOMAIN log \cup {last} /\ last \notin DOMAIN log
      /\ \A i \in DOMAIN log : log'[i] = log[i] /\ i < last /\ i \in Nat
      /\ log'[last].event = e /\ log'[last].key = key
      /\ log'[last].marks = marks /\ log'[last].at = now
      /\ DOMAIN lastEmitted' = DOMAIN lastEmitted \cup marks
      /\ \A k \in DOMAIN lastEmitted' :
           lastEmitted'[k] = IF k \in marks THEN now ELSE lastEmitted[k]
  <2>1. /\ Len(log') = last /\ DOMAIN log' = DOMAIN log \cup {last} /\ last \notin DOMAIN log
        /\ \A i \in DOMAIN log : log'[i] = log[i] /\ i < last
        /\ log'[last] = new
        /\ DOMAIN lastEmitted' = DOMAIN lastEmitted \cup marks
        /\ \A k \in DOMAIN lastEmitted' :
             lastEmitted'[k] = IF k \in marks THEN now ELSE lastEmitted[k]
    BY <1>0, WriteLogs
  <2>2. \A i \in DOMAIN log : i \in Nat
    BY <1>0, LogTypes
  <2>3. new.event = e /\ new.key = key /\ new.marks = marks /\ new.at = now
    OBVIOUS
  <2> HIDE DEF last, new
  <2> QED
    BY <2>1, <2>2, <2>3
<1>2. /\ now \in Nat /\ Len(log) \in Nat /\ DOMAIN log = 1..Len(log)
      /\ {Minute, Second, MinuteLimit, SecondLimit, SameKeyGap} \subseteq Nat
      /\ \A i \in DOMAIN log : log[i].at \in Nat
  BY <1>0, LogTypes
<1>t. last \in Nat
  BY <1>2
<1> HIDE DEF last
<1>3. KeysRemember'
  <2> SUFFICES ASSUME NEW i \in DOMAIN log', NEW k \in log'[i].marks
               PROVE  k \in DOMAIN lastEmitted' /\ log'[i].at <= lastEmitted'[k]
    BY DEF KeysRemember
  <2>1. CASE i = last
    BY <1>1, <1>2, <2>1
  <2>2. CASE i \in DOMAIN log
    <3>1. k \in DOMAIN lastEmitted /\ log[i].at <= lastEmitted[k] /\ log[i].at <= now
      BY <1>0, <1>1, <2>2 DEF KeysRemember, InTime
    <3> QED
      BY <1>1, <2>2, <3>1
  <2> QED
    BY <1>1, <2>1, <2>2
<1>4. InTime'
  <2>1. \A i \in DOMAIN log' : log'[i].at <= now
    BY <1>0, <1>1, <1>2 DEF InTime
  <2>2. ASSUME NEW i \in DOMAIN log', NEW j \in DOMAIN log', i < j PROVE log'[i].at <= log'[j].at
    <3>1. CASE j = last
      BY <1>1, <2>1, <3>1
    <3>2. CASE j \in DOMAIN log
      <4>1. i \in DOMAIN log
        BY <1>1, <1>t, <2>2, <3>2
      <4> QED
        BY <1>0, <1>1, <2>2, <3>2, <4>1 DEF InTime
    <3> QED
      BY <1>1, <3>1, <3>2
  <2> QED
    BY <2>1, <2>2 DEF InTime
<1>5. PICK times \in Seq(0..MaxTime) :
        Remembers(times) /\ RateAllows(times) /\ recent' = Append(times, now)
  BY DEF Says
<1>6. Remembers(recent)'
  <2>0. Len(times) \in Nat /\ DOMAIN times = 1..Len(times) /\ now \in 0..MaxTime
    BY <1>0, LenProperties DEF TypeOK
  <2>1. /\ Len(recent') = Len(times) + 1 /\ DOMAIN recent' = DOMAIN times \cup {Len(times) + 1}
        /\ \A i \in DOMAIN times : recent'[i] = times[i]
        /\ recent'[Len(times) + 1] = now
    BY <1>5, <2>0, Appended
  <2>2. Len(times) <= Len(log) /\ Len(log') - Len(recent') = Len(log) - Len(times)
    BY <1>1, <1>2, <1>5, <2>0, <2>1 DEF Remembers, last
  <2>3. ASSUME NEW i \in DOMAIN recent'
        PROVE  recent'[i] = log'[Len(log') - Len(recent') + i].at
    <3>1. CASE i \in DOMAIN times
      <4>1. Len(log) - Len(times) + i \in DOMAIN log
        BY <1>2, <2>0, <2>2, <3>1
      <4>2. times[i] = log[Len(log) - Len(times) + i].at
        BY <1>5, <3>1 DEF Remembers
      <4> QED
        BY <1>1, <2>1, <2>2, <3>1, <4>1, <4>2
    <3>2. CASE i = Len(times) + 1
      <4>1. Len(log) - Len(times) + i = last
        BY <1>2, <2>0, <3>2 DEF last
      <4> QED
        BY <1>1, <2>1, <2>2, <3>2, <4>1
    <3> QED
      BY <2>1, <3>1, <3>2
  <2>4. ASSUME NEW i \in 1..(Len(log') - Len(recent')) PROVE now - log'[i].at >= Minute
    <3>1. i \in DOMAIN log /\ i \in 1..(Len(log) - Len(times))
      BY <1>2, <2>0, <2>2
    <3> QED
      BY <1>1, <1>5, <3>1 DEF Remembers
  <2>5. Len(recent') <= Len(log')
    BY <1>1, <1>2, <2>0, <2>1, <2>2 DEF last
  <2> QED
    BY <2>3, <2>4, <2>5 DEF Remembers
<1>7. RateLimits'
  <2> SUFFICES ASSUME NEW i \in DOMAIN log', NEW j \in DOMAIN log'
               PROVE  /\ j - i >= MinuteLimit => log'[j].at - log'[i].at >= Minute
                      /\ j - i >= SecondLimit => log'[j].at - log'[i].at >= Second
    BY DEF RateLimits
  <2>1. CASE i \in DOMAIN log /\ j \in DOMAIN log
    BY <1>0, <1>1, <2>1 DEF RateLimits
  <2>2. CASE i \in DOMAIN log /\ j = last
    BY <1>0, <1>1, <1>5, <2>2, AllowedIsWithinLimits DEF last
  <2>3. CASE i = last
    <3>1. SecondLimit # 0 /\ MinuteLimit # 0
      <4>1. BurstCount(times) \in Nat /\ Len(times) \in Nat
        <5>1. IsFiniteSet(1..Len(times)) /\ DOMAIN times = 1..Len(times) /\ Len(times) \in Nat
          BY LenProperties, FS_Interval
        <5>2. IsFiniteSet({a \in DOMAIN times : now - times[a] < Second})
          BY <5>1, FS_Subset
        <5> QED
          BY <5>1, <5>2, FS_CardinalityType DEF BurstCount
      <4> QED
        BY <1>2, <1>5, <4>1 DEF RateAllows
    <3>2. j \in Nat /\ j <= last
      BY <1>1, <1>t
    <3> QED
      BY <1>2, <1>t, <2>3, <3>1, <3>2
  <2> QED
    BY <1>1, <2>1, <2>2, <2>3
<1>8. GapKept'
  <2> SUFFICES ASSUME NEW i \in DOMAIN log', NEW j \in DOMAIN log', i < j,
                      log'[j].event.kind # "left", log'[i].marks \cap log'[j].marks # {}
               PROVE  log'[j].at - log'[i].at >= SameKeyGap
    BY DEF GapKept
  <2>0. i \in DOMAIN log
    BY <1>1, <1>t
  <2>1. CASE j \in DOMAIN log
    BY <1>0, <1>1, <2>0, <2>1 DEF GapKept
  <2>2. CASE j = last
    <3>1. PICK k : k \in log[i].marks /\ k \in marks
      BY <1>1, <2>0, <2>2
    <3>2. ~ GapActive(marks)
      BY <1>1, <2>2 DEF Says
    <3>3. k \in DOMAIN lastEmitted /\ log[i].at <= lastEmitted[k] /\ lastEmitted[k] \in 0..now
      BY <1>0, <2>0, <3>1 DEF KeysRemember, TypeOK
    <3>4. ~ (now - lastEmitted[k] < SameKeyGap)
      BY <3>1, <3>2, <3>3 DEF GapActive
    <3> QED
      BY <1>1, <1>2, <2>0, <2>2, <3>3, <3>4
  <2> QED
    BY <1>1, <2>1, <2>2
<1>9. DeparturesMarked'
  <2> SUFFICES ASSUME NEW i \in DOMAIN log', log'[i].event.kind = "left",
                      NEW k \in log'[i].marks \cup {log'[i].event.key}
               PROVE  k \in leftMark' \/ Departed(k, i)'
    BY DEF DeparturesMarked
  <2>0. leftMark' = (leftMark \ marks) \cup leftAfter
    BY DEF Says, Write
  <2>1. CASE i = last
    BY <1>1, <2>0, <2>1 DEF Says
  <2>2. CASE i \in DOMAIN log /\ Departed(k, i)
    BY <1>1, <2>2 DEF Departed
  <2>3. CASE i \in DOMAIN log /\ k \in leftMark
    <3>1. CASE e.kind = "left"
      BY <2>0, <2>3, <3>1 DEF Says
    <3>2. CASE e.kind # "left" /\ k \in marks
      BY <1>1, <2>3, <3>2 DEF Departed
    <3>3. CASE k \notin marks
      BY <2>0, <2>3, <3>3
    <3> QED
      BY <3>1, <3>2, <3>3
  <2> QED
    BY <1>0, <1>1, <2>1, <2>2, <2>3 DEF DeparturesMarked
<1>10. LeftOnce'
  <2> SUFFICES ASSUME NEW i \in DOMAIN log', NEW j \in DOMAIN log', i < j,
                      log'[i].event.kind = "left", log'[j].event.kind = "left",
                      log'[j].key \in log'[i].marks \cup {log'[i].event.key}
               PROVE  \E m \in i+1..j-1 :
                        log'[m].event.kind # "left" /\ log'[j].key \in log'[m].marks
    BY DEF LeftOnce
  <2>0. i \in DOMAIN log
    BY <1>1, <1>t
  <2>1. CASE j \in DOMAIN log
    <3>1. PICK m \in i+1..j-1 : log[m].event.kind # "left" /\ log[j].key \in log[m].marks
      BY <1>0, <1>1, <2>0, <2>1 DEF LeftOnce
    <3>2. m \in DOMAIN log
      BY <1>2, <2>0, <2>1
    <3> QED
      BY <1>1, <2>1, <3>1, <3>2
  <2>2. CASE j = last
    <3>1. Departed(key, i)
      BY <1>0, <1>1, <2>0, <2>2 DEF Says, DeparturesMarked
    <3>2. PICK m \in DOMAIN log : i < m /\ log[m].event.kind # "left" /\ key \in log[m].marks
      BY <3>1 DEF Departed
    <3>3. m \in i+1..j-1
      BY <1>1, <1>2, <1>t, <2>0, <2>2, <3>2
    <3> QED
      BY <1>1, <2>2, <3>2, <3>3
  <2> QED
    BY <1>1, <2>1, <2>2
<1> QED
  BY <1>3, <1>4, <1>6, <1>7, <1>8, <1>9, <1>10

(* Where nothing is said the limits stand, whatever time it is.            *)
LEMMA QuietKeeps ==
  ASSUME IInv, SaysNothing, now' \in Nat, now' >= now
  PROVE  /\ KeysRemember' /\ Remembers(recent)' /\ InTime' /\ DeparturesMarked'
         /\ GapKept' /\ RateLimits' /\ LeftOnce'
<1>0. /\ TypeOK /\ KeysRemember /\ InTime /\ DeparturesMarked /\ GapKept /\ RateLimits /\ LeftOnce
      /\ Remembers(recent')
  BY DEF IInv, SaysNothing
<1>1. UNCHANGED <<log, lastEmitted, leftMark>>
  BY DEF SaysNothing
<1>2. /\ now \in Nat /\ Minute \in Nat /\ Len(log) \in Nat /\ DOMAIN log = 1..Len(log)
      /\ \A i \in DOMAIN log : log[i].at \in Nat
  BY <1>0, LogTypes
<1>3. InTime'
  BY <1>0, <1>1, <1>2 DEF InTime
<1>4. Remembers(recent)'
  <2>1. Len(recent') \in Nat
    BY LenProperties DEF SaysNothing
  <2>2. ASSUME NEW i \in 1..(Len(log) - Len(recent')) PROVE now' - log[i].at >= Minute
    <3>1. now - log[i].at >= Minute /\ i \in DOMAIN log
      BY <1>0, <1>2, <2>1 DEF Remembers
    <3> QED
      BY <1>2, <3>1
  <2> QED
    BY <1>0, <1>1, <2>2 DEF Remembers
<1> QED
  BY <1>0, <1>1, <1>3, <1>4
     DEF KeysRemember, DeparturesMarked, Departed, GapKept, RateLimits, LeftOnce

Speaks ==
    SaysNothing \/ \E e \in Catalogue, key \in AllKeys, marks, leftAfter \in SUBSET AllKeys :
                      Says(e, key, marks, leftAfter)

LEMMA SpeaksKeeps ==
  ASSUME IInv, Speaks, now' = now
  PROVE  /\ KeysRemember' /\ Remembers(recent)' /\ InTime' /\ DeparturesMarked'
         /\ GapKept' /\ RateLimits' /\ LeftOnce'
         /\ log' \in Seq(Emission) /\ DOMAIN lastEmitted' \subseteq AllKeys
         /\ \A k \in DOMAIN lastEmitted' : lastEmitted'[k] \in 0..now
         /\ leftMark' \in SUBSET AllKeys
         /\ recent' \in Seq(0..MaxTime) /\ Len(recent') <= MinuteLimit
<1>1. CASE SaysNothing
  <2>1. now' \in Nat /\ now' >= now /\ TypeOK
    BY LogTypes DEF IInv
  <2>2. /\ KeysRemember' /\ Remembers(recent)' /\ InTime' /\ DeparturesMarked'
        /\ GapKept' /\ RateLimits' /\ LeftOnce'
    BY <1>1, <2>1, QuietKeeps
  <2> QED
    BY <1>1, <2>1, <2>2 DEF SaysNothing, TypeOK
<1>2. ASSUME NEW e \in Catalogue, NEW key \in AllKeys, NEW marks \in SUBSET AllKeys,
             NEW leftAfter \in SUBSET AllKeys, Says(e, key, marks, leftAfter)
      PROVE  /\ KeysRemember' /\ Remembers(recent)' /\ InTime' /\ DeparturesMarked'
             /\ GapKept' /\ RateLimits' /\ LeftOnce'
             /\ log' \in Seq(Emission) /\ DOMAIN lastEmitted' \subseteq AllKeys
             /\ \A k \in DOMAIN lastEmitted' : lastEmitted'[k] \in 0..now
             /\ leftMark' \in SUBSET AllKeys
             /\ recent' \in Seq(0..MaxTime) /\ Len(recent') <= MinuteLimit
  <2>1. TypeOK
    BY DEF IInv
  <2> QED
    BY <1>2, <2>1, SaysKeeps, SaysTypes
<1> QED
  BY <1>1, <1>2 DEF Speaks

-----------------------------------------------------------------------------
(* The waiting events                                                      *)

(* Only waiting events are left, and no two of one.                        *)
Thinned(q) ==
    /\ q \in Seq(Pending)
    /\ \A i \in DOMAIN q : \E j \in DOMAIN pending : q[i] = pending[j]
    /\ \A i, k \in DOMAIN q : i # k =>
         \E j, l \in DOMAIN pending : j # l /\ q[i] = pending[j] /\ q[k] = pending[l]

LEMMA RemovingThins ==
  ASSUME TypeOK, NEW k \in DOMAIN pending
  PROVE  /\ Thinned(RemoveAt(pending, k))
         /\ \A i \in DOMAIN RemoveAt(pending, k) :
              \E j \in DOMAIN pending : j # k /\ RemoveAt(pending, k)[i] = pending[j]
<1> DEFINE q == RemoveAt(pending, k)
           old(i) == IF i < k THEN i ELSE i + 1
<1>1. pending \in Seq(Pending) /\ DOMAIN pending = 1..Len(pending) /\ Len(pending) \in Nat
  BY LenProperties DEF TypeOK
<1>2. /\ q \in Seq(Pending)
      /\ \A i \in DOMAIN q : old(i) \in DOMAIN pending /\ old(i) # k /\ q[i] = pending[old(i)]
  BY <1>1, Removed
<1>3. \A i \in DOMAIN q : i \in Nat
  BY <1>2, LenProperties
<1>4. \A i, l \in DOMAIN q : i # l => old(i) # old(l)
  BY <1>1, <1>3
<1> HIDE DEF q, old
<1>5. \A i, l \in DOMAIN q : i # l =>
         \E j, m \in DOMAIN pending : j # m /\ q[i] = pending[j] /\ q[l] = pending[m]
  BY <1>2, <1>4
<1>6. \A i \in DOMAIN q : \E j \in DOMAIN pending : j # k /\ q[i] = pending[j]
  BY <1>2
<1> QED
  BY <1>2, <1>5, <1>6 DEF Thinned, q

LEMMA MatchThins ==
  ASSUME TypeOK, NEW keys
  PROVE  Thinned(WithoutMatch(keys))
<1>1. pending \in Seq(Pending) /\ DOMAIN pending = 1..Len(pending)
  BY LenProperties DEF TypeOK
<1>2. CASE Matches(keys) = {}
  BY <1>1, <1>2 DEF WithoutMatch, Thinned
<1>3. CASE Matches(keys) # {}
  <2>1. Matches(keys) \subseteq DOMAIN pending /\ Matches(keys) \in SUBSET Nat
    BY <1>1 DEF Matches
  <2>2. First(Matches(keys)) \in DOMAIN pending
    BY <1>3, <2>1, FirstIsLeast
  <2> QED
    BY <1>3, <2>2, RemovingThins DEF WithoutMatch
<1> QED
  BY <1>2, <1>3

(* A new event waits in the place of its key or at the end.                *)
LEMMA PuttingAdds ==
  ASSUME TypeOK, WaitingApart, NEW q, Thinned(q), NEW w \in Pending
  PROVE  LET r == Put(q, w) IN
         /\ r \in Seq(Pending)
         /\ \A i, k \in DOMAIN r : i # k => r[i].event.key # r[k].event.key
         /\ \A i \in DOMAIN r : r[i] = w \/ \E j \in DOMAIN pending : r[i] = pending[j]
         /\ \A i, k \in DOMAIN r : i # k /\ r[i] # w /\ r[k] # w =>
              \E j, l \in DOMAIN pending : j # l /\ r[i] = pending[j] /\ r[k] = pending[l]
<1> DEFINE r == Put(q, w)
<1>1. /\ q \in Seq(Pending) /\ DOMAIN q = 1..Len(q) /\ Len(q) \in Nat
      /\ \A i \in DOMAIN q : q[i] \in Pending
  BY LenProperties, ElementOfSeq DEF Thinned
<1>2. \A i, k \in DOMAIN q : i # k => q[i].event.key # q[k].event.key
  BY DEF Thinned, WaitingApart
<1>3. CASE \E i \in DOMAIN q : q[i].event.key = w.event.key
  <2>1. r = [i \in DOMAIN q |-> IF q[i].event.key = w.event.key THEN w ELSE q[i]]
    BY <1>3 DEF Put
  <2>2. r \in [1..Len(q) -> Pending]
    BY <1>1, <2>1
  <2>3. /\ r \in Seq(Pending) /\ DOMAIN r = DOMAIN q
        /\ \A i \in DOMAIN q : /\ r[i].event.key = q[i].event.key
                               /\ r[i] = w \/ r[i] = q[i]
    BY <1>1, <2>1, <2>2, SeqDef
  <2> HIDE DEF r
  <2>4. \A i, k \in DOMAIN r : i # k /\ r[i] # w /\ r[k] # w =>
          \E j, l \in DOMAIN pending : j # l /\ r[i] = pending[j] /\ r[k] = pending[l]
    BY <2>3 DEF Thinned
  <2> QED
    BY <1>2, <2>3, <2>4 DEF Thinned, r
<1>4. CASE \A i \in DOMAIN q : q[i].event.key # w.event.key
  <2>1. r = Append(q, w)
    BY <1>4 DEF Put
  <2>2. /\ r \in Seq(Pending) /\ DOMAIN r = DOMAIN q \cup {Len(q) + 1}
        /\ \A i \in DOMAIN q : r[i] = q[i]
        /\ r[Len(q) + 1] = w
    BY <1>1, <2>1, Appended
  <2> HIDE DEF r
  <2>3. \A i, k \in DOMAIN r : i # k => r[i].event.key # r[k].event.key
    BY <1>2, <1>4, <2>2
  <2>4. \A i \in DOMAIN r : r[i] = w \/ \E j \in DOMAIN pending : r[i] = pending[j]
    BY <2>2 DEF Thinned
  <2>5. \A i, k \in DOMAIN r : i # k /\ r[i] # w /\ r[k] # w =>
          \E j, l \in DOMAIN pending : j # l /\ r[i] = pending[j] /\ r[k] = pending[l]
    BY <2>2 DEF Thinned
  <2> QED
    BY <2>2, <2>3, <2>4, <2>5 DEF r
<1> QED
  BY <1>3, <1>4

-----------------------------------------------------------------------------
(* The traces of an event                                                  *)

NothingForgets == forgotten \subseteq forgotten' /\ \A id : Accounted(id) => Accounted(id)'

LEMMA TakeRemembers ==
  ASSUME TypeOK, NEW e \in Catalogue, Take(e)
  PROVE  /\ seen' \in Seq(Ids) /\ Len(seen') <= MaxSeen /\ forgotten' \in SUBSET Ids
         /\ NothingForgets /\ Accounted(e.id)' /\ e.id \notin ToSet(seen)
<1>0. /\ e.id \in Ids /\ e.id \notin ToSet(seen) /\ Remember(e.id)
      /\ MaxSeen \in Nat /\ seen \in Seq(Ids) /\ Len(seen) <= MaxSeen /\ Len(seen) \in Nat
      /\ forgotten \in SUBSET Ids /\ DOMAIN seen = 1..Len(seen)
  BY BoundsAssumption, LenProperties DEF Take, Known, Ids, TypeOK
<1>1. CASE MaxSeen = 0 /\ forgotten' = forgotten \cup {e.id} /\ UNCHANGED seen
  BY <1>0, <1>1 DEF NothingForgets, Accounted
<1>2. CASE MaxSeen > Len(seen) /\ seen' = Append(seen, e.id) /\ UNCHANGED forgotten
  <2>1. /\ seen' \in Seq(Ids) /\ Len(seen') = Len(seen) + 1
        /\ DOMAIN seen' = DOMAIN seen \cup {Len(seen) + 1}
        /\ \A i \in DOMAIN seen : seen'[i] = seen[i]
        /\ seen'[Len(seen) + 1] = e.id
    BY <1>0, <1>2, Appended
  <2>2. ToSet(seen) \subseteq ToSet(seen') /\ e.id \in ToSet(seen')
    BY <2>1 DEF ToSet
  <2> QED
    BY <1>0, <1>2, <2>1, <2>2 DEF NothingForgets, Accounted
<1>3. CASE /\ MaxSeen > 0 /\ MaxSeen = Len(seen)
           /\ seen' = Append(Tail(seen), e.id) /\ forgotten' = forgotten \cup {Head(seen)}
  <2>1. /\ seen # <<>> /\ Head(seen) \in Ids /\ Head(seen) = seen[1] /\ Tail(seen) \in Seq(Ids)
        /\ Len(Tail(seen)) = Len(seen) - 1
        /\ \A i \in 1..Len(Tail(seen)) : Tail(seen)[i] = seen[i + 1]
    <3>1. seen # <<>>
      BY <1>0, <1>3
    <3>2. Head(seen) = seen[1]
      BY <1>0, <3>1
    <3> QED
      BY <1>0, <3>1, <3>2, HeadTailProperties
  <2> DEFINE t == Tail(seen)
  <2>2. t \in Seq(Ids) /\ Len(t) = Len(seen) - 1 /\ \A i \in 1..Len(t) : t[i] = seen[i + 1]
    BY <2>1
  <2> HIDE DEF t
  <2>3. /\ seen' \in Seq(Ids) /\ Len(seen') = Len(t) + 1
        /\ DOMAIN seen' = DOMAIN t \cup {Len(t) + 1} /\ DOMAIN t = 1..Len(t)
        /\ \A i \in DOMAIN t : seen'[i] = t[i]
        /\ seen'[Len(t) + 1] = e.id
    BY <1>0, <1>3, <2>2, Appended DEF t
  <2>4. ASSUME NEW id \in ToSet(seen) PROVE id \in ToSet(seen') \/ id \in forgotten'
    <3>1. PICK i \in DOMAIN seen : id = seen[i]
      BY DEF ToSet
    <3>2. CASE i = 1
      BY <1>3, <2>1, <3>1, <3>2
    <3>3. CASE i # 1
      <4>1. i - 1 \in DOMAIN t /\ (i - 1) + 1 = i
        BY <1>0, <2>2, <2>3, <3>3
      <4>2. seen'[i - 1] = id /\ i - 1 \in DOMAIN seen'
        BY <2>2, <2>3, <3>1, <4>1
      <4> QED
        BY <4>2 DEF ToSet
    <3> QED
      BY <3>2, <3>3
  <2>5. e.id \in ToSet(seen')
    BY <2>3 DEF ToSet
  <2>6. Len(seen') <= MaxSeen /\ forgotten' \in SUBSET Ids
    BY <1>0, <1>3, <2>1, <2>2, <2>3
  <2> QED
    BY <1>0, <1>3, <2>3, <2>4, <2>5, <2>6 DEF NothingForgets, Accounted
<1> QED
  BY <1>0, <1>1, <1>2, <1>3 DEF Remember

LEMMA ThinnedStays ==
  ASSUME IInv, NothingForgets, Thinned(pending')
  PROVE  /\ WaitingApart'
         /\ \A i \in DOMAIN pending' : \A id : pending'[i].event.id = id => Accounted(id)'
         /\ \A i, j \in DOMAIN pending' : i # j /\ pending'[i].event.id = pending'[j].event.id
              => pending'[i].event.id \in forgotten'
<1>1. WaitingApart /\ OneTrace
  BY DEF IInv
<1>2. WaitingApart'
  BY <1>1 DEF Thinned, WaitingApart
<1>3. ASSUME NEW i \in DOMAIN pending', NEW id, pending'[i].event.id = id PROVE Accounted(id)'
  <2>1. PICK j \in DOMAIN pending : pending'[i] = pending[j]
    BY DEF Thinned
  <2>2. Accounted(id)
    BY <1>1, <1>3, <2>1 DEF OneTrace
  <2> QED
    BY <2>2 DEF NothingForgets
<1>4. ASSUME NEW i \in DOMAIN pending', NEW j \in DOMAIN pending', i # j,
             pending'[i].event.id = pending'[j].event.id
      PROVE  pending'[i].event.id \in forgotten'
  <2>1. PICK k, l \in DOMAIN pending : k # l /\ pending'[i] = pending[k] /\ pending'[j] = pending[l]
    BY <1>4 DEF Thinned
  <2> QED
    BY <1>1, <1>4, <2>1 DEF OneTrace, NothingForgets
<1> QED
  BY <1>2, <1>3, <1>4

(* Nothing is written and nothing new waits.                               *)
LEMMA QuietTraces ==
  ASSUME IInv, NothingForgets, Thinned(pending'), log' = log
  PROVE  OneTrace' /\ EmittedOnce' /\ WaitingApart'
<1>1. OneTrace /\ EmittedOnce
  BY DEF IInv
<1>2. /\ WaitingApart'
      /\ \A i \in DOMAIN pending' : \A id : pending'[i].event.id = id => Accounted(id)'
      /\ \A i, j \in DOMAIN pending' : i # j /\ pending'[i].event.id = pending'[j].event.id
           => pending'[i].event.id \in forgotten'
  BY ThinnedStays
<1>3. EmittedOnce'
  BY <1>1 DEF EmittedOnce, NothingForgets
<1>4. \A i \in DOMAIN log' : Accounted(log[i].event.id)'
  BY <1>1 DEF OneTrace, NothingForgets, Accounted
<1>5. ASSUME NEW i \in DOMAIN log', NEW j \in DOMAIN pending',
             log'[i].event.id = pending'[j].event.id
      PROVE  log'[i].event.id \in forgotten'
  <2>1. PICK k \in DOMAIN pending : pending'[j] = pending[k]
    BY DEF Thinned
  <2> QED
    BY <1>1, <1>5, <2>1 DEF OneTrace, NothingForgets
<1>6. OneTrace'
  BY <1>1, <1>2, <1>5 DEF OneTrace, NothingForgets, Accounted
<1> QED
  BY <1>2, <1>3, <1>6

(* An event is written of which nothing else is left but what is forgotten. *)
LEMMA SpokenTraces ==
  ASSUME IInv, NothingForgets, Thinned(pending'),
         NEW e \in Catalogue, NEW key \in AllKeys, NEW marks, NEW leftAfter,
         Says(e, key, marks, leftAfter), Accounted(e.id)',
         \A i \in DOMAIN log : log[i].event.id = e.id => e.id \in forgotten',
         \A i \in DOMAIN pending' : pending'[i].event.id = e.id => e.id \in forgotten'
  PROVE  OneTrace' /\ EmittedOnce' /\ WaitingApart'
<1> DEFINE last == Len(log) + 1
<1>1. OneTrace /\ EmittedOnce /\ TypeOK
  BY DEF IInv
<1>2. /\ WaitingApart'
      /\ \A i \in DOMAIN pending' : \A id : pending'[i].event.id = id => Accounted(id)'
      /\ \A i, j \in DOMAIN pending' : i # j /\ pending'[i].event.id = pending'[j].event.id
           => pending'[i].event.id \in forgotten'
  BY ThinnedStays
<1>3. /\ DOMAIN log' = DOMAIN log \cup {last}
      /\ \A i \in DOMAIN log : log'[i] = log[i] /\ i < last
      /\ log'[last].event = e
  <2>1. /\ DOMAIN log' = DOMAIN log \cup {last}
        /\ \A i \in DOMAIN log : log'[i] = log[i] /\ i < last
        /\ log'[last] = [event |-> e, key |-> key, marks |-> marks, at |-> now]
    BY <1>1, WriteLogs
  <2> QED
    BY <2>1
<1>4. last \in Nat /\ \A i \in DOMAIN log : i \in Nat
  BY <1>1, LogTypes
<1> HIDE DEF last
<1>5. EmittedOnce'
  <2> SUFFICES ASSUME NEW i \in DOMAIN log', NEW j \in DOMAIN log', i < j,
                      log'[i].event.id = log'[j].event.id
               PROVE  log'[i].event.id \in forgotten'
    BY DEF EmittedOnce
  <2>1. CASE i \in DOMAIN log /\ j \in DOMAIN log
    BY <1>1, <1>3, <2>1 DEF EmittedOnce, NothingForgets
  <2>2. CASE i \in DOMAIN log /\ j = last
    BY <1>3, <2>2
  <2>3. i \in DOMAIN log
    BY <1>3, <1>4
  <2> QED
    BY <1>3, <2>1, <2>2, <2>3
<1>6. ASSUME NEW i \in DOMAIN log', NEW id, log'[i].event.id = id PROVE Accounted(id)'
  <2>1. CASE i \in DOMAIN log
    BY <1>1, <1>3, <1>6, <2>1 DEF OneTrace, NothingForgets
  <2>2. CASE i = last
    BY <1>3, <1>6, <2>2
  <2> QED
    BY <1>3, <2>1, <2>2
<1>7. ASSUME NEW i \in DOMAIN log', NEW j \in DOMAIN pending',
             log'[i].event.id = pending'[j].event.id
      PROVE  log'[i].event.id \in forgotten'
  <2>1. CASE i \in DOMAIN log
    <3>1. PICK k \in DOMAIN pending : pending'[j] = pending[k]
      BY DEF Thinned
    <3> QED
      BY <1>1, <1>3, <1>7, <2>1, <3>1 DEF OneTrace, NothingForgets
  <2>2. CASE i = last
    BY <1>3, <1>7, <2>2
  <2> QED
    BY <1>3, <2>1, <2>2
<1>8. OneTrace'
  BY <1>2, <1>6, <1>7 DEF OneTrace, Accounted
<1> QED
  BY <1>2, <1>5, <1>8

(* A new event waits, perhaps in the place of another of its key.          *)
LEMMA DeferredTraces ==
  ASSUME IInv, NothingForgets, NEW q, Thinned(q), NEW w \in Pending, pending' = Put(q, w),
         log' = log, w.event.kind \in DeferredKinds, Accounted(w.event.id)',
         \A i \in DOMAIN log : log[i].event.id = w.event.id => w.event.id \in forgotten',
         \A i \in DOMAIN pending : pending[i].event.id = w.event.id => w.event.id \in forgotten'
  PROVE  OneTrace' /\ EmittedOnce' /\ WaitingApart' /\ pending' \in Seq(Pending)
<1>1. OneTrace /\ EmittedOnce /\ TypeOK /\ WaitingApart
  BY DEF IInv
<1>2. /\ pending' \in Seq(Pending)
      /\ \A i, k \in DOMAIN pending' : i # k => pending'[i].event.key # pending'[k].event.key
      /\ \A i \in DOMAIN pending' : pending'[i] = w \/ \E j \in DOMAIN pending : pending'[i] = pending[j]
      /\ \A i, k \in DOMAIN pending' : i # k /\ pending'[i] # w /\ pending'[k] # w =>
           \E j, l \in DOMAIN pending : j # l /\ pending'[i] = pending[j] /\ pending'[k] = pending[l]
  BY <1>1, PuttingAdds
<1>3. WaitingApart'
  BY <1>1, <1>2 DEF WaitingApart
<1>4. EmittedOnce'
  BY <1>1 DEF EmittedOnce, NothingForgets
<1>5. ASSUME NEW i \in DOMAIN pending', NEW id, pending'[i].event.id = id PROVE Accounted(id)'
  <2>1. CASE pending'[i] = w
    BY <1>5, <2>1
  <2>2. CASE \E j \in DOMAIN pending : pending'[i] = pending[j]
    BY <1>1, <1>5, <2>2 DEF OneTrace, NothingForgets
  <2> QED
    BY <1>2, <2>1, <2>2
<1>6. ASSUME NEW i \in DOMAIN log', NEW id, log'[i].event.id = id PROVE Accounted(id)'
  BY <1>1, <1>6 DEF OneTrace, NothingForgets
<1>7. ASSUME NEW i \in DOMAIN log', NEW j \in DOMAIN pending',
             log'[i].event.id = pending'[j].event.id
      PROVE  log'[i].event.id \in forgotten'
  <2>1. CASE pending'[j] = w
    BY <1>7, <2>1
  <2>2. CASE \E k \in DOMAIN pending : pending'[j] = pending[k]
    BY <1>1, <1>7, <2>2 DEF OneTrace, NothingForgets
  <2> QED
    BY <1>2, <2>1, <2>2
<1>8. ASSUME NEW i \in DOMAIN pending', NEW k \in DOMAIN pending', i # k,
             pending'[i].event.id = pending'[k].event.id
      PROVE  pending'[i].event.id \in forgotten'
  <2>1. CASE pending'[i] # w /\ pending'[k] # w
    <3>1. PICK j, l \in DOMAIN pending : j # l /\ pending'[i] = pending[j] /\ pending'[k] = pending[l]
      BY <1>2, <1>8, <2>1
    <3> QED
      BY <1>1, <1>8, <3>1 DEF OneTrace, NothingForgets
  <2>2. CASE pending'[i] = w /\ pending'[k] # w
    <3>1. PICK l \in DOMAIN pending : pending'[k] = pending[l]
      BY <1>2, <2>2
    <3> QED
      BY <1>8, <2>2, <3>1
  <2>3. CASE pending'[i] # w /\ pending'[k] = w
    <3>1. PICK l \in DOMAIN pending : pending'[i] = pending[l]
      BY <1>2, <2>3
    <3> QED
      BY <1>8, <2>3, <3>1
  <2>4. ~ (pending'[i] = w /\ pending'[k] = w)
    BY <1>2, <1>8
  <2> QED
    BY <2>1, <2>2, <2>3, <2>4
<1>9. OneTrace'
  BY <1>5, <1>6, <1>7, <1>8 DEF OneTrace, Accounted
<1> QED
  BY <1>2, <1>3, <1>4, <1>9

-----------------------------------------------------------------------------
(* The steps                                                               *)

LEMMA TakingTraces ==
  ASSUME IInv, NEW e \in Catalogue, Take(e)
  PROVE  /\ NothingForgets /\ Accounted(e.id)'
         /\ \A i \in DOMAIN log : log[i].event.id = e.id => e.id \in forgotten'
         /\ \A i \in DOMAIN pending : pending[i].event.id = e.id => e.id \in forgotten'
         /\ seen' \in Seq(Ids) /\ Len(seen') <= MaxSeen /\ forgotten' \in SUBSET Ids
         /\ now' \in 0..MaxTime /\ phase' \in {"idle", "frame"} /\ now' = now
         /\ todo' \in SUBSET Catalogue /\ inFrame' \in SUBSET Ids
         /\ context' \in Contexts \cup {NoContext}
<1>1. TypeOK /\ OneTrace
  BY DEF IInv
<1>2. /\ seen' \in Seq(Ids) /\ Len(seen') <= MaxSeen /\ forgotten' \in SUBSET Ids
      /\ NothingForgets /\ Accounted(e.id)' /\ e.id \notin ToSet(seen)
  BY <1>1, TakeRemembers
<1>3. Accounted(e.id) => e.id \in forgotten'
  BY <1>2 DEF Accounted, NothingForgets
<1>4. /\ now' \in 0..MaxTime /\ phase' \in {"idle", "frame"} /\ now' = now
      /\ todo' \in SUBSET Catalogue /\ inFrame' \in SUBSET Ids
      /\ context' \in Contexts \cup {NoContext}
  BY <1>1 DEF TypeOK, Take, Ids
<1> QED
  BY <1>1, <1>2, <1>3, <1>4 DEF OneTrace

(* An event that is taken is said, or nothing is, and nothing new waits.   *)
LEMMA TakingKeeps ==
  ASSUME IInv, NEW e \in Catalogue, Take(e), Thinned(pending'),
         \/ SaysNothing
         \/ \E key \in AllKeys, marks, leftAfter \in SUBSET AllKeys : Says(e, key, marks, leftAfter)
  PROVE  IInv'
<1>1. /\ NothingForgets /\ Accounted(e.id)'
      /\ \A i \in DOMAIN log : log[i].event.id = e.id => e.id \in forgotten'
      /\ \A i \in DOMAIN pending : pending[i].event.id = e.id => e.id \in forgotten'
      /\ seen' \in Seq(Ids) /\ Len(seen') <= MaxSeen /\ forgotten' \in SUBSET Ids
      /\ now' \in 0..MaxTime /\ phase' \in {"idle", "frame"} /\ now' = now
      /\ todo' \in SUBSET Catalogue /\ inFrame' \in SUBSET Ids
      /\ context' \in Contexts \cup {NoContext}
  BY TakingTraces
<1>2. Speaks
  BY DEF Speaks
<1>3. /\ KeysRemember' /\ Remembers(recent)' /\ InTime' /\ DeparturesMarked'
      /\ GapKept' /\ RateLimits' /\ LeftOnce'
      /\ log' \in Seq(Emission) /\ DOMAIN lastEmitted' \subseteq AllKeys
      /\ \A k \in DOMAIN lastEmitted' : lastEmitted'[k] \in 0..now
      /\ leftMark' \in SUBSET AllKeys
      /\ recent' \in Seq(0..MaxTime) /\ Len(recent') <= MinuteLimit
  BY <1>1, <1>2, SpeaksKeeps
<1>4. TypeOK'
  BY <1>1, <1>3 DEF TypeOK, Thinned
<1>5. OneTrace' /\ EmittedOnce' /\ WaitingApart'
  <2>1. CASE SaysNothing
    BY <1>1, <2>1, QuietTraces DEF SaysNothing
  <2>2. CASE \E key \in AllKeys, marks, leftAfter \in SUBSET AllKeys : Says(e, key, marks, leftAfter)
    <3>1. PICK key \in AllKeys, marks \in SUBSET AllKeys, leftAfter \in SUBSET AllKeys :
            Says(e, key, marks, leftAfter)
      BY <2>2
    <3>2. \A i \in DOMAIN pending' : pending'[i].event.id = e.id => e.id \in forgotten'
      BY <1>1 DEF Thinned
    <3> QED
      BY <1>1, <3>1, <3>2, SpokenTraces
  <2> QED
    BY <2>1, <2>2
<1> QED
  BY <1>3, <1>4, <1>5 DEF IInv

LEMMA AllThinned ==
  ASSUME TypeOK
  PROVE  Thinned(pending)
  BY DEF TypeOK, Thinned

LEMMA Unsaid ==
  ASSUME IInv, UNCHANGED <<lastEmitted, leftMark, recent, log>>
  PROVE  SaysNothing
  BY DEF IInv, TypeOK, SaysNothing

LEMMA DeferKeeps ==
  ASSUME IInv, NEW e \in Catalogue, Defer(e)
  PROVE  IInv'
<1> DEFINE w == [event |-> e, aliases |-> Aliases(e), created |-> now]
           q == WithoutMatch(KeysOf(e))
<1>0. Take(e) /\ TypeOK
  BY DEF Defer, IInv
<1>1. /\ NothingForgets /\ Accounted(e.id)'
      /\ \A i \in DOMAIN log : log[i].event.id = e.id => e.id \in forgotten'
      /\ \A i \in DOMAIN pending : pending[i].event.id = e.id => e.id \in forgotten'
      /\ seen' \in Seq(Ids) /\ Len(seen') <= MaxSeen /\ forgotten' \in SUBSET Ids
      /\ now' \in 0..MaxTime /\ phase' \in {"idle", "frame"} /\ now' = now
      /\ todo' \in SUBSET Catalogue /\ inFrame' \in SUBSET Ids
      /\ context' \in Contexts \cup {NoContext}
  BY <1>0, TakingTraces
<1>2. Thinned(q)
  BY <1>0, MatchThins
<1>3. w \in Pending /\ w.event = e
  BY <1>0, KeysOfEvents DEF Pending, TypeOK
<1>4. pending' = Put(q, w) /\ UNCHANGED <<lastEmitted, leftMark, recent, log>>
  BY DEF Defer, keyVars
<1>5. e.kind \in DeferredKinds
  BY DEF Defer
<1> HIDE DEF w, q
<1>6. OneTrace' /\ EmittedOnce' /\ WaitingApart' /\ pending' \in Seq(Pending)
  BY <1>1, <1>2, <1>3, <1>4, <1>5, DeferredTraces
<1>7. Speaks
  BY <1>4, Unsaid DEF Speaks
<1>8. /\ KeysRemember' /\ Remembers(recent)' /\ InTime' /\ DeparturesMarked'
      /\ GapKept' /\ RateLimits' /\ LeftOnce'
      /\ log' \in Seq(Emission) /\ DOMAIN lastEmitted' \subseteq AllKeys
      /\ \A k \in DOMAIN lastEmitted' : lastEmitted'[k] \in 0..now
      /\ leftMark' \in SUBSET AllKeys
      /\ recent' \in Seq(0..MaxTime) /\ Len(recent') <= MinuteLimit
  BY <1>1, <1>7, SpeaksKeeps
<1>9. TypeOK'
  BY <1>1, <1>6, <1>8 DEF TypeOK
<1> QED
  BY <1>6, <1>8, <1>9 DEF IInv

LEMMA ImmediateKeeps ==
  ASSUME IInv, NEW e \in Catalogue, Immediate(e)
  PROVE  IInv'
<1>0. Take(e) /\ TypeOK /\ Remembers(recent) /\ e.kind # "left"
  BY DEF Immediate, IInv, ImmediateKinds
<1>1. Thinned(pending')
  BY <1>0, MatchThins DEF Immediate
<1>2. CASE UNCHANGED <<lastEmitted, leftMark, recent, log>>
  BY <1>0, <1>1, <1>2, Unsaid, TakingKeeps
<1>3. CASE ~ GapActive(KeysOf(e)) /\ TryEmit(e, e.key, {})
  <2>1. /\ e.key \in AllKeys /\ {} \in SUBSET AllKeys /\ {e.key} \cup Aliases(e) \in SUBSET AllKeys
        /\ ~ GapActive({e.key} \cup Aliases(e))
    BY <1>0, <1>3, KeysOfEvents DEF KeysOf
  <2>2. SaysNothing \/ Says(e, e.key, {e.key} \cup Aliases(e), {})
    BY <1>0, <1>3, <2>1, TryEmitSays
  <2> QED
    BY <1>0, <1>1, <2>1, <2>2, TakingKeeps
<1> QED
  BY <1>2, <1>3 DEF Immediate, keyVars

LEMMA LeftKeeps ==
  ASSUME IInv, NEW e \in Catalogue, Left(e)
  PROVE  IInv'
<1>0. Take(e) /\ TypeOK /\ Remembers(recent) /\ e.kind = "left"
  BY DEF Left, IInv
<1>1. PICK k \in KnownKeys(e) :
        /\ pending' = WithoutMatch(KeysOf(e))
        /\ \/ k \in leftMark /\ UNCHANGED <<keyVars, recent, log>>
           \/ k \notin leftMark /\ TryEmit(e, k, EndsVisit(e, k))
  BY DEF Left
<1>2. Thinned(pending')
  BY <1>0, <1>1, MatchThins
<1>3. CASE UNCHANGED <<lastEmitted, leftMark, recent, log>>
  BY <1>0, <1>2, <1>3, Unsaid, TakingKeeps
<1>4. CASE k \notin leftMark /\ TryEmit(e, k, EndsVisit(e, k))
  <2>1. e.key \in AllKeys /\ KeysOf(e) \subseteq AllKeys /\ Aliases(e) \subseteq AllKeys
    BY <1>0, KeysOfEvents
  <2>2. k \in AllKeys
    <3>1. CASE Matches(KeysOf(e)) # {}
      <4>1. pending \in Seq(Pending) /\ DOMAIN pending = 1..Len(pending)
        BY <1>0, LenProperties DEF TypeOK
      <4>2. Matches(KeysOf(e)) \in SUBSET Nat /\ Matches(KeysOf(e)) \subseteq DOMAIN pending
        BY <4>1 DEF Matches
      <4>3. First(Matches(KeysOf(e))) \in DOMAIN pending
        BY <3>1, <4>2, FirstIsLeast
      <4>4. pending[First(Matches(KeysOf(e)))] \in Pending
        BY <4>1, <4>3, ElementOfSeq
      <4>5. pending[First(Matches(KeysOf(e)))].event \in Catalogue
        BY <4>4 DEF Pending
      <4> QED
        BY <3>1, <4>5 DEF KnownKeys, AllKeys
    <3>2. CASE Matches(KeysOf(e)) = {}
      BY <2>1, <3>2 DEF KnownKeys
    <3> QED
      BY <3>1, <3>2
  <2>3. EndsVisit(e, k) \in SUBSET AllKeys /\ {k} \cup Aliases(e) \cup {e.key} \subseteq EndsVisit(e, k)
    BY <2>1, <2>2 DEF EndsVisit, KeysOf
  <2>4. {k} \cup Aliases(e) \in SUBSET AllKeys
    BY <2>1, <2>2
  <2>5. SaysNothing \/ Says(e, k, {k} \cup Aliases(e), EndsVisit(e, k))
    BY <1>0, <1>4, <2>2, <2>3, TryEmitSays
  <2> QED
    BY <1>0, <1>2, <2>2, <2>3, <2>4, <2>5, TakingKeeps
<1> QED
  BY <1>1, <1>3, <1>4 DEF keyVars

LEMMA FlushKeeps ==
  ASSUME IInv, Flush
  PROVE  IInv'
<1> DEFINE f == First(Due)
<1>0. TypeOK /\ Remembers(recent) /\ OneTrace /\ WaitingApart
  BY DEF IInv
<1>1. f \in DOMAIN pending
  <2>1. Due # {} /\ Due \in SUBSET Nat /\ Due \subseteq DOMAIN pending
    <3>1. DOMAIN pending = 1..Len(pending)
      BY <1>0, LenProperties DEF TypeOK
    <3> QED
      BY <3>1 DEF Flush, Due
  <2> QED
    BY <2>1, FirstIsLeast
<1>p. PICK p \in Pending : p = pending[f]
  BY <1>0, <1>1, ElementOfSeq DEF TypeOK
<1>e. PICK e \in Catalogue : e = p.event
  BY DEF Pending
<1>2. e.kind # "left"
  BY <1>0, <1>1, <1>p, <1>e DEF WaitingApart, DeferredKinds
<1>3. /\ pending' = RemoveAt(pending, f)
      /\ UNCHANGED <<now, phase, todo, inFrame, context, seen, forgotten>>
      /\ \/ UNCHANGED <<lastEmitted, leftMark, recent, log>>
         \/ /\ ~ GapActive({e.key} \cup p.aliases \cup Aliases(e))
            /\ TryEmit(e, e.key, {})
  BY <1>p, <1>e DEF Flush, keyVars, frameVars
<1> HIDE DEF f
<1>4. /\ Thinned(pending')
      /\ \A i \in DOMAIN pending' : \E j \in DOMAIN pending : j # f /\ pending'[i] = pending[j]
  BY <1>0, <1>1, <1>3, RemovingThins
<1>5. \/ SaysNothing
      \/ Says(e, e.key, {e.key} \cup Aliases(e), {})
  <2>1. CASE UNCHANGED <<lastEmitted, leftMark, recent, log>>
    BY <2>1, Unsaid
  <2>2. CASE ~ GapActive({e.key} \cup p.aliases \cup Aliases(e)) /\ TryEmit(e, e.key, {})
    <3>1. ~ GapActive({e.key} \cup Aliases(e))
      BY <2>2 DEF GapActive
    <3>2. e.key \in AllKeys /\ {} \in SUBSET AllKeys
      BY <1>0, <1>2, KeysOfEvents
    <3> QED
      BY <1>0, <1>2, <2>2, <3>1, <3>2, TryEmitSays
  <2> QED
    BY <1>3, <2>1, <2>2
<1>6. e.key \in AllKeys /\ {e.key} \cup Aliases(e) \in SUBSET AllKeys /\ {} \in SUBSET AllKeys
  BY <1>0, <1>2, KeysOfEvents
<1>7. Speaks
  BY <1>2, <1>5, <1>6 DEF Speaks
<1>8. /\ KeysRemember' /\ Remembers(recent)' /\ InTime' /\ DeparturesMarked'
      /\ GapKept' /\ RateLimits' /\ LeftOnce'
      /\ log' \in Seq(Emission) /\ DOMAIN lastEmitted' \subseteq AllKeys
      /\ \A k \in DOMAIN lastEmitted' : lastEmitted'[k] \in 0..now
      /\ leftMark' \in SUBSET AllKeys
      /\ recent' \in Seq(0..MaxTime) /\ Len(recent') <= MinuteLimit
  BY <1>3, <1>7, SpeaksKeeps
<1>9. TypeOK'
  BY <1>0, <1>3, <1>4, <1>8 DEF TypeOK, Thinned
<1>10. OneTrace' /\ EmittedOnce' /\ WaitingApart'
  <2>1. NothingForgets
    BY <1>3 DEF NothingForgets, Accounted
  <2>2. CASE SaysNothing
    BY <1>4, <2>1, <2>2, QuietTraces DEF SaysNothing
  <2>3. CASE Says(e, e.key, {e.key} \cup Aliases(e), {})
    <3>1. Accounted(e.id)'
      BY <1>0, <1>1, <1>p, <1>e, <2>1 DEF OneTrace, NothingForgets
    <3>2. \A i \in DOMAIN log : log[i].event.id = e.id => e.id \in forgotten'
      BY <1>0, <1>1, <1>p, <1>e, <1>3 DEF OneTrace
    <3>3. \A i \in DOMAIN pending' : pending'[i].event.id = e.id => e.id \in forgotten'
      BY <1>0, <1>1, <1>p, <1>e, <1>3, <1>4 DEF OneTrace
    <3> QED
      BY <1>2, <1>4, <1>6, <2>1, <2>3, <3>1, <3>2, <3>3, SpokenTraces
  <2> QED
    BY <1>5, <2>2, <2>3
<1> QED
  BY <1>8, <1>9, <1>10 DEF IInv

(* What neither says nor remembers anything keeps the invariant.           *)
LEMMA IdlingKeeps ==
  ASSUME IInv, UNCHANGED <<seen, pending, lastEmitted, leftMark, recent, log, forgotten>>,
         now' \in 0..MaxTime, now' >= now, phase' \in {"idle", "frame"},
         todo' \in SUBSET Catalogue, inFrame' \in SUBSET Ids,
         context' \in Contexts \cup {NoContext}
  PROVE  IInv'
<1>1. TypeOK
  BY DEF IInv
<1>2. SaysNothing
  BY Unsaid
<1>3. now' \in Nat /\ now \in Nat /\ MaxTime \in Nat
  BY <1>1, LogTypes
<1>4. /\ KeysRemember' /\ Remembers(recent)' /\ InTime' /\ DeparturesMarked'
      /\ GapKept' /\ RateLimits' /\ LeftOnce'
  BY <1>2, <1>3, QuietKeeps
<1>5. \A k \in DOMAIN lastEmitted' : lastEmitted'[k] \in 0..now'
  <2> SUFFICES ASSUME NEW k \in DOMAIN lastEmitted PROVE lastEmitted[k] \in 0..now'
    OBVIOUS
  <2>1. lastEmitted[k] \in 0..now
    BY <1>1 DEF TypeOK
  <2> QED
    BY <1>3, <2>1
<1>6. TypeOK'
  BY <1>1, <1>5 DEF TypeOK
<1>7. NothingForgets /\ Thinned(pending')
  BY <1>1, AllThinned DEF NothingForgets, Accounted
<1>8. OneTrace' /\ EmittedOnce' /\ WaitingApart'
  BY <1>7, QuietTraces
<1> QED
  BY <1>4, <1>6, <1>8 DEF IInv

LEMMA InitIInv == Init => IInv
<1> SUFFICES ASSUME Init PROVE IInv
  OBVIOUS
<1>1. TypeOK
  BY BoundsAssumption DEF Init, TypeOK
<1>2. Remembers(recent)
  BY DEF Init, Remembers
<1> QED
  BY <1>1, <1>2 DEF Init, IInv, KeysRemember, InTime, OneTrace, DeparturesMarked,
                    WaitingApart, GapKept, RateLimits, EmittedOnce, LeftOnce

LEMMA StepKeeps ==
  ASSUME IInv, [Next]_vars
  PROVE  IInv'
<1>t. /\ TypeOK /\ now \in 0..MaxTime /\ now \in Nat /\ MaxTime \in Nat
      /\ phase \in {"idle", "frame"} /\ todo \in SUBSET Catalogue
      /\ inFrame \in SUBSET Ids /\ context \in Contexts \cup {NoContext}
  BY LogTypes DEF IInv, TypeOK
<1>1. CASE BeginFrame
  BY <1>t, <1>1, IdlingKeeps DEF BeginFrame, keyVars
<1>2. ASSUME NEW e \in Catalogue, SkipDuplicate(e) PROVE IInv'
  BY <1>t, <1>2, IdlingKeeps DEF SkipDuplicate, keyVars
<1>3. ASSUME NEW e \in Catalogue, Silence(e) PROVE IInv'
  <2>1. Take(e) /\ UNCHANGED <<pending, lastEmitted, leftMark, recent, log>>
    BY <1>3 DEF Silence, keyVars
  <2> QED
    BY <1>t, <2>1, Unsaid, AllThinned, TakingKeeps
<1>4. ASSUME NEW e \in Catalogue, Defer(e) PROVE IInv'
  BY <1>4, DeferKeeps
<1>5. ASSUME NEW e \in Catalogue, Immediate(e) PROVE IInv'
  BY <1>5, ImmediateKeeps
<1>6. ASSUME NEW e \in Catalogue, Left(e) PROVE IInv'
  BY <1>6, LeftKeeps
<1>7. CASE Flush
  BY <1>7, FlushKeeps
<1>8. CASE EndFrame
  BY <1>t, <1>8, IdlingKeeps DEF EndFrame, keyVars
<1>9. CASE Tick
  <2>1. now' \in 0..MaxTime /\ now' >= now
    BY <1>t, <1>9 DEF Tick
  <2> QED
    BY <1>t, <1>9, <2>1, IdlingKeeps DEF Tick, keyVars, frameVars
<1>10. CASE UNCHANGED vars
  BY <1>t, <1>10, IdlingKeeps DEF vars
<1> QED
  BY <1>1, <1>2, <1>3, <1>4, <1>5, <1>6, <1>7, <1>8, <1>9, <1>10 DEF Next, Handle

-----------------------------------------------------------------------------
(* The gate keeps its invariant, with any catalogue of events, any window, *)
(* gap and limit, and any number of remembered ids.                        *)
THEOREM GateInvariance == Spec => []IInv
<1>1. IInv /\ [Next]_vars => IInv'
  BY StepKeeps
<1> QED
  BY InitIInv, <1>1, PTL DEF Spec

(* The three limits of BotifiedEventMapper hold at once (_gap_active,      *)
(* _rate_limit_allows): frames of one key keep their distance, no minute   *)
(* and no second has too many, whatever was deferred, dropped or flushed.  *)
THEOREM LimitsHold == Spec => []Limits
<1>1. IInv => Limits
  BY DEF IInv, Limits
<1> QED
  BY GateInvariance, <1>1, PTL

(* No event is written twice while its id is remembered (_seen_event_ids), *)
(* and no departure is told again before something else is said of the     *)
(* person (_left_emitted_by_key).                                          *)
THEOREM NothingSaidTwice == Spec => []SaidOnce
<1>1. IInv => SaidOnce
  BY DEF IInv, SaidOnce
<1> QED
  BY GateInvariance, <1>1, PTL

=============================================================================
