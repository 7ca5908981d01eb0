---------------------------- MODULE SensorProofs ----------------------------
(***************************************************************************)
(* Theorems about the kernel sensor.                                       *)
(*                                                                         *)
(* First the freeze gate, for every set of PIDs, every range of request    *)
(* ids and every size of the verdict cache: its invariants, that a process *)
(* whose numbers nobody shares gets its own verdict, and that ScanGate     *)
(* implements FreezeGate.                                                  *)
(*                                                                         *)
(* Then the event path, for every set of clients, every number of events   *)
(* and every capacity of the queue: that the held call is never lost, and  *)
(* that InvertedCall implements EventChannel.                              *)
(***************************************************************************)
EXTENDS ScanGate, InvertedCall, SequenceTheorems, FiniteSetTheorems,
        WellFoundedInduction, TLAPS

Target == [pid : Pid, rid : Request]
Scan   == [pid : Pid, rid : Request, verdict : Answer]
Entry  == [rid : Request, verdict : Answer]

(* No two entries of a list are about the same request. *)
Distinct(list) == \A i, j \in DOMAIN list : list[i].rid = list[j].rid => i = j

-----------------------------------------------------------------------------
(* What the operators on the lists of the driver do to the elements. *)

(* The elements of a sequence belong to its set. *)
LEMMA SeqElements ==
  ASSUME NEW S, NEW s \in Seq(S)
  PROVE  /\ \A i \in DOMAIN s : s[i] \in S /\ s[i] \in Range(s)
         /\ Range(s) \subseteq S
  BY LenProperties, ElementOfSeq DEF Range

(* RemoveAt takes out one element and keeps the others in order: what Vec::remove
   does to the driver's lists. *)
LEMMA RemoveAtProperties ==
  ASSUME NEW S, NEW s \in Seq(S), NEW i \in DOMAIN s
  PROVE  /\ RemoveAt(s, i) \in Seq(S)
         /\ Len(RemoveAt(s, i)) = Len(s) - 1
         /\ \A j \in 1 .. Len(s) - 1 : RemoveAt(s, i)[j] = s[IF j < i THEN j ELSE j + 1]
<1>1. /\ Len(s) \in Nat
      /\ DOMAIN s = 1 .. Len(s)
      /\ \A j \in 1 .. Len(s) : s[j] \in S
  BY LenProperties, ElementOfSeq
<1> DEFINE a == SubSeq(s, 1, i - 1)
           b == SubSeq(s, i + 1, Len(s))
<1>2. /\ a \in Seq(S)
      /\ Len(a) = i - 1
      /\ \A j \in 1 .. i - 1 : a[j] = s[j]
  BY <1>1, SubSeqProperties
<1>3. /\ b \in Seq(S)
      /\ Len(b) = Len(s) - i
      /\ \A j \in 1 .. Len(s) - i : b[j] = s[j + i]
  BY <1>1, SubSeqProperties
<1>4. RemoveAt(s, i) = a \o b
  BY DEF RemoveAt
<1> HIDE DEF a, b
<1>5. /\ a \o b \in Seq(S)
      /\ Len(a \o b) = Len(a) + Len(b)
      /\ \A j \in 1 .. Len(a) + Len(b) :
           (a \o b)[j] = IF j <= Len(a) THEN a[j] ELSE b[j - Len(a)]
  BY <1>2, <1>3, ConcatProperties
<1>6. ASSUME NEW j \in 1 .. Len(s) - 1
      PROVE  (a \o b)[j] = s[IF j < i THEN j ELSE j + 1]
  <2>1. CASE j < i
    BY <1>1, <1>2, <1>3, <1>5, <2>1
  <2>2. CASE ~ (j < i)
    <3>1. j - (i - 1) \in 1 .. Len(s) - i /\ (j - (i - 1)) + i = j + 1
      BY <1>1, <2>2
    <3>2. (a \o b)[j] = b[j - (i - 1)]
      <4>1. j \in 1 .. Len(a) + Len(b) /\ ~(j <= Len(a)) /\ Len(a) = i - 1
        BY <1>1, <1>2, <1>3, <2>2
      <4>2. QED
        BY <1>5, <4>1
    <3>3. QED
      BY <1>3, <2>2, <3>1, <3>2
  <2>3. QED
    BY <2>1, <2>2
<1>7. QED
  BY <1>1, <1>2, <1>3, <1>4, <1>5, <1>6

(* RemoveAt brings no element in. *)
LEMMA RemoveAtRange ==
  ASSUME NEW S, NEW s \in Seq(S), NEW i \in DOMAIN s
  PROVE  /\ RemoveAt(s, i) \in Seq(S)
         /\ Range(RemoveAt(s, i)) \subseteq Range(s)
<1> DEFINE t == RemoveAt(s, i)
<1>1. /\ DOMAIN s = 1 .. Len(s) /\ Len(s) \in Nat
      /\ t \in Seq(S)
      /\ Len(t) = Len(s) - 1
      /\ \A j \in 1 .. Len(s) - 1 : t[j] = s[IF j < i THEN j ELSE j + 1]
  BY LenProperties, RemoveAtProperties
<1>2. DOMAIN t = 1 .. Len(t)
  BY <1>1, LenProperties
<1> HIDE DEF t
<1>3. \A j \in DOMAIN t : \E k \in DOMAIN s : t[j] = s[k]
  BY <1>1, <1>2
<1>4. QED
  BY <1>1, <1>3 DEF Range, t

(* Facts about the lists of the driver. *)

(* First finds an entry when there is one. *)
LEMMA FirstExists ==
  ASSUME NEW S, NEW list \in Seq(S), NEW key, NEW v, NEW i \in DOMAIN list, list[i][key] = v
  PROVE  First(list, key, v) # {}
<1> DEFINE T == {j \in DOMAIN list : list[j][key] = v}
<1>1. DOMAIN list = 1 .. Len(list) /\ Len(list) \in Nat
  BY LenProperties
<1>2. T \subseteq Nat /\ T # {}
  BY <1>1
<1>3. PICK m \in T : \A j \in T : ~ (<<j, m>> \in OpToRel(<, Nat))
  BY <1>2, WFMin, NatLessThanWellFounded, Zenon
<1>4. \A j \in T : ~ (j < m)
  BY <1>2, <1>3 DEF OpToRel
<1>5. QED
  BY <1>1, <1>4 DEF First

(* RemoveAt makes no duplicate, and the request taken out is gone from the list. *)
LEMMA RemoveAtDistinct ==
  ASSUME NEW S, NEW s \in Seq(S), NEW i \in DOMAIN s, Distinct(s)
  PROVE  /\ Distinct(RemoveAt(s, i))
         /\ \A e \in Range(RemoveAt(s, i)) : e.rid # s[i].rid
<1> DEFINE t == RemoveAt(s, i)
           at(j) == IF j < i THEN j ELSE j + 1
<1>1. /\ DOMAIN s = 1 .. Len(s) /\ Len(s) \in Nat
      /\ t \in Seq(S)
      /\ Len(t) = Len(s) - 1
      /\ \A j \in 1 .. Len(s) - 1 : t[j] = s[at(j)]
  BY LenProperties, RemoveAtProperties
<1>2. DOMAIN t = 1 .. Len(s) - 1
  BY <1>1, LenProperties
<1> HIDE DEF t
<1>3. \A j \in DOMAIN t : at(j) \in DOMAIN s /\ at(j) # i
  BY <1>1, <1>2
<1>4. \A j, k \in DOMAIN t : at(j) = at(k) => j = k
  BY <1>1, <1>2
<1> HIDE DEF at
<1>5. \A j, k \in DOMAIN t : t[j].rid = t[k].rid => j = k
  BY <1>1, <1>2, <1>3, <1>4 DEF Distinct
<1>6. \A j \in DOMAIN t : t[j].rid # s[i].rid
  BY <1>1, <1>2, <1>3 DEF Distinct
<1>7. QED
  BY <1>5, <1>6 DEF Distinct, Range, t

(* Append adds its element, and no duplicate when the request is new to the list. *)
LEMMA AppendRange ==
  ASSUME NEW S, NEW s \in Seq(S), NEW e \in S
  PROVE  /\ Append(s, e) \in Seq(S)
         /\ Range(Append(s, e)) = Range(s) \cup {e}
         /\ Distinct(s) /\ (\A d \in Range(s) : d.rid # e.rid) => Distinct(Append(s, e))
<1> DEFINE t == Append(s, e)
<1>1. /\ Len(s) \in Nat /\ DOMAIN s = 1 .. Len(s)
      /\ t \in Seq(S)
      /\ DOMAIN t = 1 .. Len(s) + 1
      /\ \A j \in 1 .. Len(s) : t[j] = s[j]
      /\ t[Len(s) + 1] = e
  BY LenProperties
<1> HIDE DEF t
<1>2. DOMAIN t = DOMAIN s \cup {Len(s) + 1} /\ Len(s) + 1 \notin DOMAIN s
  BY <1>1
<1>3. Range(t) = Range(s) \cup {e}
  BY <1>1, <1>2 DEF Range
<1>4. ASSUME Distinct(s), \A d \in Range(s) : d.rid # e.rid
      PROVE  Distinct(t)
  <2>1. \A j \in DOMAIN s : t[j].rid # e.rid
    BY <1>1, <1>4 DEF Range
  <2>2. \A j, k \in DOMAIN s : t[j].rid = t[k].rid => j = k
    BY <1>1, <1>4 DEF Distinct
  <2>3. QED
    BY <1>1, <1>2, <2>1, <2>2 DEF Distinct
<1>5. QED
  BY <1>1, <1>3, <1>4 DEF t

-----------------------------------------------------------------------------
(* The inductive invariant: what the entries of the lists say of their
   requests, and how APC_COUNT follows the stages. *)

(* A targeted request waits for its first thread. *)
TargetsListed ==
  /\ Distinct(target)
  /\ \A t \in Range(target) : /\ t.rid \in held
                              /\ t.pid = pid[t.rid]
                              /\ stage[t.rid] = "absent"

(* A listed scan belongs to a request whose APC was injected. *)
PendingListed ==
  /\ Distinct(pending)
  /\ \A s \in Range(pending) : /\ s.rid \in held
                               /\ s.pid = pid[s.rid]
                               /\ stage[s.rid] # "absent"

(* Only requests that exist and were not fast-passed are frozen. *)
HeldExist ==
  /\ \A r \in held : r < nextRequest
  /\ \A r \in Request : stage[r] # "absent" => r \in held
  /\ \A r \in missed : r \in held /\ verdict[r] # "none"

Counted == {r \in Request : stage[r] \in Live \cup {"reclaimed"}}

ApcsCounted == apcCount = Cardinality(Counted)

Inv == TypeOK /\ TargetsListed /\ PendingListed /\ HeldExist /\ ApcsCounted

(* The set of counted APCs is finite: requests are an interval. *)
LEMMA CountedFinite == IsFiniteSet(Counted) /\ Cardinality(Counted) \in Nat
<1>1. IsFiniteSet(Request)
  BY ConstantsAssumption, FS_Interval DEF ConstantsAssumption, Request
<1>2. Counted \subseteq Request
  BY DEF Counted
<1>3. QED
  BY <1>1, <1>2, FS_Subset, FS_CardinalityType

(* A step that moves one APC to another stage counts it on or off, or neither. *)
LEMMA CountStep ==
  ASSUME TypeOK, ApcsCounted, NEW r \in Request, NEW s \in Stage,
         stage' = [stage EXCEPT ![r] = s]
  PROVE  /\ stage[r] \notin Live \cup {"reclaimed"} /\ s \in Live \cup {"reclaimed"}
              => Cardinality(Counted') = apcCount + 1
         /\ stage[r] \in Live \cup {"reclaimed"} /\ s \notin Live \cup {"reclaimed"}
              => Cardinality(Counted') = apcCount - 1 /\ apcCount - 1 \in Nat
         /\ (stage[r] \in Live \cup {"reclaimed"} <=> s \in Live \cup {"reclaimed"})
              => Cardinality(Counted') = apcCount
<1> DEFINE C == Live \cup {"reclaimed"}
<1>1. \A q \in Request : stage'[q] = IF q = r THEN s ELSE stage[q]
  BY DEF TypeOK
<1>2. Counted' = {q \in Request : stage'[q] \in C}
  BY DEF Counted
<1>3. Counted = {q \in Request : stage[q] \in C}
  BY DEF Counted
<1> HIDE DEF C
<1>4. CASE stage[r] \notin C /\ s \in C
  <2>1. Counted' = Counted \cup {r} /\ r \notin Counted
    BY <1>1, <1>2, <1>3, <1>4
  <2>2. Cardinality(Counted') = apcCount + 1
    BY <2>1, CountedFinite, FS_AddElement DEF ApcsCounted
  <2>3. QED
    BY <1>4, <2>2 DEF C
<1>5. CASE stage[r] \in C /\ s \notin C
  <2>1. Counted' = Counted \ {r} /\ r \in Counted
    BY <1>1, <1>2, <1>3, <1>5
  <2>2. Cardinality(Counted') = apcCount - 1
    BY <2>1, CountedFinite, FS_RemoveElement DEF ApcsCounted
  <2>3. Cardinality(Counted') \in Nat
    BY <2>1, CountedFinite, FS_RemoveElement, FS_CardinalityType
  <2>4. QED
    BY <1>5, <2>2, <2>3 DEF C
<1>6. CASE stage[r] \in C <=> s \in C
  <2>1. Counted' = Counted
    BY <1>1, <1>2, <1>3, <1>6
  <2>2. QED
    BY <1>6, <2>1 DEF C, ApcsCounted
<1>7. QED
  BY <1>4, <1>5, <1>6

(* APC_COUNT can be decremented for an APC that is counted. *)
LEMMA CountedPositive ==
  ASSUME TypeOK, ApcsCounted, NEW r \in Request, stage[r] \in Live \cup {"reclaimed"}
  PROVE  apcCount - 1 \in Nat
<1>1. r \in Counted
  BY DEF Counted
<1>2. Cardinality(Counted \ {r}) = Cardinality(Counted) - 1
  BY <1>1, CountedFinite, FS_RemoveElement
<1>3. Cardinality(Counted \ {r}) \in Nat
  BY CountedFinite, FS_RemoveElement, FS_CardinalityType
<1>4. QED
  BY <1>2, <1>3 DEF ApcsCounted

-----------------------------------------------------------------------------
(* Steps that change PENDING_SCANS or VERDICT_CACHE. *)

(* Unlist keeps PENDING_SCANS a list of scans. *)
LEMMA UnlistType ==
  ASSUME TypeOK, NEW r \in Request, Unlist(r)
  PROVE  pending' \in Seq(Scan)
<1>1. pending \in Seq(Scan)
  BY DEF TypeOK, Scan
<1>2. CASE \E i \in First(pending, "pid", pid[r]) : pending' = RemoveAt(pending, i)
  BY <1>1, <1>2, RemoveAtRange DEF First
<1>3. QED
  BY <1>1, <1>2 DEF Unlist

(* Setting the verdict of a scan or of a cache entry changes nothing else of it. *)
LEMMA RevisedTypes ==
  ASSUME NEW v \in Answer
  PROVE  /\ \A s \in Scan  : /\ [s EXCEPT !.verdict = v] \in Scan
                            /\ [s EXCEPT !.verdict = v].pid = s.pid
                            /\ [s EXCEPT !.verdict = v].rid = s.rid
                            /\ [s EXCEPT !.verdict = v].verdict = v
         /\ \A s \in Entry : /\ [s EXCEPT !.verdict = v] \in Entry
                            /\ [s EXCEPT !.verdict = v].rid = s.rid
                            /\ [s EXCEPT !.verdict = v].verdict = v
  BY DEF Scan, Entry

(* What is left of the cache is its end, and leaves room for one more entry. *)
LEMMA TrimProperties ==
  ASSUME NEW S, NEW list \in Seq(S), NEW expired \in 0 .. Len(list)
  PROVE  /\ Trim(list, expired) \in Seq(S)
         /\ Len(Trim(list, expired)) < MaxCache
         /\ \E k \in Nat : \A i \in DOMAIN Trim(list, expired) :
              i + k \in DOMAIN list /\ Trim(list, expired)[i] = list[i + k]
<1> DEFINE fresh == SubSeq(list, expired + 1, Len(list))
           last  == SubSeq(fresh, Len(fresh) - MaxCache + 2, Len(fresh))
<1>1. /\ Len(list) \in Nat
      /\ DOMAIN list = 1 .. Len(list)
      /\ \A i \in 1 .. Len(list) : list[i] \in S
  BY LenProperties, ElementOfSeq
<1>2. /\ fresh \in Seq(S)
      /\ Len(fresh) = Len(list) - expired
      /\ DOMAIN fresh = 1 .. Len(fresh)
      /\ \A i \in 1 .. Len(fresh) : fresh[i] = list[i + expired] /\ fresh[i] \in S
  <2>0. \A i \in expired + 1 .. Len(list) : list[i] \in S
    BY <1>1
  <2>1. /\ fresh \in Seq(S)
        /\ Len(fresh) = IF expired + 1 <= Len(list) THEN Len(list) - (expired + 1) + 1 ELSE 0
        /\ \A i \in 1 .. Len(list) - (expired + 1) + 1 :
             fresh[i] = list[expired + 1 + i - 1]
    BY <1>1, <2>0, SubSeqProperties
  <2> HIDE DEF fresh
  <2>2. Len(fresh) = Len(list) - expired
    <3>1. Len(list) \in Nat /\ expired \in Nat /\ expired <= Len(list)
      BY <1>1
    <3>2. CASE expired = Len(list)
      BY <2>1, <3>1, <3>2
    <3>3. CASE expired < Len(list)
      BY <2>1, <3>1, <3>3
    <3>4. QED
      BY <3>1, <3>2, <3>3
  <2>3. /\ DOMAIN fresh = 1 .. Len(fresh)
        /\ \A i \in 1 .. Len(fresh) : fresh[i] \in S
    BY <2>1, LenProperties, ElementOfSeq
  <2>4. \A i \in 1 .. Len(fresh) : fresh[i] = list[i + expired]
    <3> SUFFICES ASSUME NEW i \in 1 .. Len(fresh)
                 PROVE  fresh[i] = list[i + expired]
      OBVIOUS
    <3>1. i \in 1 .. Len(list) - (expired + 1) + 1 /\ expired + 1 + i - 1 = i + expired
      BY <1>1, <2>2
    <3>2. QED
      BY <2>1, <3>1
  <2>5. QED
    BY <2>1, <2>2, <2>3, <2>4
<1> HIDE DEF fresh
<1>3. MaxCache \in Nat \ {0} /\ expired \in Nat /\ Len(fresh) \in Nat
  BY <1>1, <1>2, ConstantsAssumption DEF ConstantsAssumption
<1>4. Trim(list, expired) = IF Len(fresh) < MaxCache THEN fresh ELSE last
  BY DEF Trim, fresh
<1>5. CASE Len(fresh) < MaxCache
  <2>1. Trim(list, expired) = fresh
    BY <1>4, <1>5
  <2>2. \A i \in DOMAIN fresh : i + expired \in DOMAIN list /\ fresh[i] = list[i + expired]
    BY <1>1, <1>2
  <2>3. QED
    BY <1>2, <1>3, <1>5, <2>1, <2>2
<1>6. CASE ~ (Len(fresh) < MaxCache)
  <2>0. \A i \in Len(fresh) - MaxCache + 2 .. Len(fresh) : fresh[i] \in S
    BY <1>2, <1>3, <1>6
  <2>1. /\ last \in Seq(S)
        /\ Len(last) = IF Len(fresh) - MaxCache + 2 <= Len(fresh)
                       THEN Len(fresh) - (Len(fresh) - MaxCache + 2) + 1 ELSE 0
        /\ \A i \in 1 .. Len(fresh) - (Len(fresh) - MaxCache + 2) + 1 :
             last[i] = fresh[Len(fresh) - MaxCache + 2 + i - 1]
    BY <1>3, <2>0, SubSeqProperties
  <2> HIDE DEF last
  <2>2. Len(last) = MaxCache - 1
    <3>1. CASE MaxCache = 1
      BY <1>3, <2>1, <3>1
    <3>2. CASE MaxCache > 1
      BY <1>3, <2>1, <3>2
    <3>3. QED
      BY <1>3, <3>1, <3>2
  <2>3. DOMAIN last = 1 .. MaxCache - 1
    BY <2>1, <2>2, LenProperties
  <2> DEFINE k == Len(list) - MaxCache + 1
  <2>4. k \in Nat
    BY <1>1, <1>2, <1>3, <1>6
  <2>5. ASSUME NEW i \in DOMAIN last
        PROVE  i + k \in DOMAIN list /\ last[i] = list[i + k]
    <3>1. /\ i \in 1 .. Len(fresh) - (Len(fresh) - MaxCache + 2) + 1
          /\ Len(fresh) - MaxCache + 2 + i - 1 = Len(fresh) - MaxCache + 1 + i
          /\ Len(fresh) - MaxCache + 1 + i \in 1 .. Len(fresh)
      BY <1>3, <1>6, <2>3
    <3>2. last[i] = fresh[Len(fresh) - MaxCache + 1 + i]
      BY <2>1, <3>1
    <3>3. (Len(fresh) - MaxCache + 1 + i) + expired = i + k
      BY <1>1, <1>2, <1>3, <3>1
    <3>4. i + k \in DOMAIN list
      BY <1>1, <1>2, <1>3, <3>1, <3>3
    <3>5. QED
      BY <1>2, <3>1, <3>2, <3>3, <3>4
  <2>6. Trim(list, expired) = last
    BY <1>4, <1>6
  <2> HIDE DEF k
  <2>7. QED
    BY <1>3, <2>1, <2>2, <2>4, <2>5, <2>6
<1>7. QED
  BY <1>5, <1>6

(* Trimming brings no entry in, and no duplicate. *)
LEMMA TrimKeeps ==
  ASSUME NEW S, NEW list \in Seq(S), NEW expired \in 0 .. Len(list)
  PROVE  /\ Range(Trim(list, expired)) \subseteq Range(list)
         /\ Distinct(list) => Distinct(Trim(list, expired))
<1> DEFINE kept == Trim(list, expired)
<1>1. kept \in Seq(S) /\ DOMAIN kept \subseteq Nat
  BY TrimProperties, LenProperties
<1>2. PICK k \in Nat : \A i \in DOMAIN kept : i + k \in DOMAIN list /\ kept[i] = list[i + k]
  BY TrimProperties
<1> HIDE DEF kept
<1>3. Range(kept) \subseteq Range(list)
  BY <1>2 DEF Range
<1>4. ASSUME Distinct(list), NEW i \in DOMAIN kept, NEW j \in DOMAIN kept,
             kept[i].rid = kept[j].rid
      PROVE  i = j
  <2>1. i + k = j + k
    BY <1>2, <1>4 DEF Distinct
  <2>2. QED
    BY <1>1, <2>1
<1>5. QED
  BY <1>3, <1>4 DEF Distinct, kept

(* CacheVerdict adds or revises the entry of its request, and no other. *)
LEMMA CacheVerdictResult ==
  ASSUME TypeOK, HeldExist, NEW r \in Request, CacheVerdict(r)
  PROVE  /\ cache' \in Seq(Entry)
         /\ Len(cache') <= MaxCache
         /\ Distinct(cache) => Distinct(cache')
         /\ \A e \in Range(cache') :
              e \in Range(cache) \/ (e.rid = r /\ e.verdict = verdict[r])
<1>1. PICK expired \in 0 .. Len(cache) :
        LET kept == Trim(cache, expired)
            old  == First(kept, "rid", r)
        IN cache' = IF old = {}
                    THEN Append(kept, [rid |-> r, verdict |-> verdict[r]])
                    ELSE [i \in DOMAIN kept |->
                            IF i \in old THEN [kept[i] EXCEPT !.verdict = verdict[r]]
                                         ELSE kept[i]]
  BY DEF CacheVerdict
<1> DEFINE kept == Trim(cache, expired)
           old  == First(kept, "rid", r)
           new  == [rid |-> r, verdict |-> verdict[r]]
           mark == [i \in DOMAIN kept |->
                      IF i \in old THEN [kept[i] EXCEPT !.verdict = verdict[r]]
                                   ELSE kept[i]]
<1>2. cache \in Seq(Entry)
  BY DEF TypeOK, Entry
<1>3. /\ kept \in Seq(Entry)
      /\ Len(kept) < MaxCache
      /\ Range(kept) \subseteq Range(cache)
      /\ Distinct(cache) => Distinct(kept)
  BY <1>2, TrimProperties, TrimKeeps
<1>4. (old = {} /\ cache' = Append(kept, new)) \/ cache' = mark
  BY <1>1
<1>5. verdict[r] \in Answer
  BY DEF TypeOK, HeldExist, CacheVerdict
<1>6. \A i \in old : i \in DOMAIN kept /\ kept[i].rid = r
  BY DEF First
<1>7. old = {} => \A e \in Range(kept) : e.rid # r
  BY <1>3, FirstExists DEF Range
<1> HIDE DEF kept, old
<1>8. /\ Len(kept) \in Nat /\ MaxCache \in Nat
      /\ DOMAIN kept = 1 .. Len(kept)
      /\ \A i \in DOMAIN kept : kept[i] \in Entry /\ kept[i] \in Range(kept)
  BY <1>3, LenProperties, SeqElements, ConstantsAssumption DEF ConstantsAssumption
<1>9. CASE old = {} /\ cache' = Append(kept, new)
  <2>1. new \in Entry /\ new.rid = r /\ new.verdict = verdict[r]
    BY <1>5 DEF Entry
  <2> HIDE DEF new
  <2>2. /\ cache' \in Seq(Entry)
        /\ Range(cache') = Range(kept) \cup {new}
        /\ Distinct(kept) => Distinct(cache')
    BY <1>3, <1>7, <1>9, <2>1, AppendRange
  <2>3. Len(cache') = Len(kept) + 1
    BY <1>3, <1>9, <2>1
  <2>4. Len(cache') <= MaxCache
    BY <1>3, <1>8, <2>3
  <2>5. \A e \in Range(cache') :
          e \in Range(cache) \/ (e.rid = r /\ e.verdict = verdict[r])
    BY <1>3, <2>1, <2>2
  <2>6. QED
    BY <1>3, <2>2, <2>4, <2>5
<1>10. CASE cache' = mark
  <2>1. \A e \in Entry : /\ [e EXCEPT !.verdict = verdict[r]] \in Entry
                         /\ [e EXCEPT !.verdict = verdict[r]].rid = e.rid
                         /\ [e EXCEPT !.verdict = verdict[r]].verdict = verdict[r]
    BY <1>5, RevisedTypes
  <2>2. ASSUME NEW i \in DOMAIN kept
        PROVE  /\ mark[i] \in Entry
               /\ mark[i].rid = kept[i].rid
               /\ mark[i] \in Range(kept) \/ (mark[i].rid = r /\ mark[i].verdict = verdict[r])
    <3>1. CASE i \in old
      <4>1. mark[i] = [kept[i] EXCEPT !.verdict = verdict[r]]
        BY <3>1
      <4>2. QED
        BY <1>6, <1>8, <2>1, <3>1, <4>1
    <3>2. CASE i \notin old
      BY <1>8, <3>2
    <3>3. QED
      BY <3>1, <3>2
  <2>3. DOMAIN mark = DOMAIN kept
    OBVIOUS
  <2>4. mark \in [1 .. Len(kept) -> Entry]
    BY <1>8, <2>2
  <2> HIDE DEF mark
  <2>5. mark \in Seq(Entry) /\ Len(mark) = Len(kept)
    <3>1. mark \in Seq(Entry)
      BY <1>8, <2>4, SeqDef
    <3>2. QED
      BY <1>8, <2>3, <3>1, LenProperties
  <2>6. Distinct(kept) => Distinct(mark)
    BY <2>2, <2>3 DEF Distinct
  <2>7. \A e \in Range(mark) : e \in Range(kept) \/ (e.rid = r /\ e.verdict = verdict[r])
    <3>1. \A e \in Range(mark) : \E i \in DOMAIN kept : e = mark[i]
      BY <2>3 DEF Range
    <3>2. QED
      BY <2>2, <3>1
  <2>8. Len(mark) <= MaxCache
    BY <1>3, <1>8, <2>5
  <2>9. QED
    BY <1>3, <1>10, <2>5, <2>6, <2>7, <2>8
<1>11. QED
  BY <1>4, <1>9, <1>10

(* SendVerdict keeps PENDING_SCANS a list of scans. *)
LEMMA SendType ==
  ASSUME TypeOK, NEW r \in Request, NEW v \in Answer, SendVerdict(r, v)
  PROVE  pending' \in Seq(Scan)
<1>1. pending \in Seq(Scan)
  BY DEF TypeOK, Scan
<1>2. ASSUME NEW i \in First(pending, "rid", r),
             pending' = [pending EXCEPT ![i].verdict = v]
      PROVE  pending' \in Seq(Scan)
  <2>1. i \in 1 .. Len(pending)
    BY <1>1, <1>2, LenProperties DEF First
  <2>2. [pending[i] EXCEPT !.verdict = v] \in Scan
    BY <1>1, <2>1, ElementOfSeq, RevisedTypes
  <2>3. pending' = [pending EXCEPT ![i] = [pending[i] EXCEPT !.verdict = v]]
    BY <1>2
  <2>4. QED
    BY <1>1, <2>1, <2>2, <2>3, ExceptSeq
<1>3. QED
  BY <1>1, <1>2 DEF SendVerdict

-----------------------------------------------------------------------------
(* Preservation of the type invariant. *)

(* Every step keeps the types, given the other parts of the invariant. *)
LEMMA TypeStep == Inv /\ [Next]_vars => TypeOK'
<1> SUFFICES ASSUME Inv, [Next]_vars
             PROVE  TypeOK'
  OBVIOUS
<1> USE DEF Inv
<1>0. /\ target \in Seq(Target)
      /\ pending \in Seq(Scan)
      /\ cache \in Seq(Entry)
  BY DEF TypeOK, Target, Scan, Entry
<1>1. ASSUME NEW p \in Pid, NEW fast \in BOOLEAN, CreateProcess(p, fast)
      PROVE  TypeOK'
  <2>1. nextRequest \in Request
    BY <1>1, ConstantsAssumption DEF TypeOK, CreateProcess, Request, ConstantsAssumption
  <2>2. target' \in Seq(Target)
    <3>1. CASE fast
      BY <1>0, <1>1, <3>1 DEF CreateProcess
    <3>2. CASE ~fast
      <4>1. target' = Append(target, [pid |-> p, rid |-> nextRequest])
        BY <1>1, <3>2 DEF CreateProcess
      <4>2. [pid |-> p, rid |-> nextRequest] \in Target
        BY <2>1 DEF Target
      <4>3. QED
        BY <1>0, <4>1, <4>2, AppendRange
    <3>3. QED
      BY <3>1, <3>2
  <2>3. held' \subseteq Request
    BY <1>1, <2>1 DEF TypeOK, CreateProcess
  <2>4. /\ nextRequest' \in Nat /\ nextRequest' >= FirstRequest
        /\ pid' \in [Request -> Pid \cup {NoPid}]
        /\ life' \in [Request -> Life]
    BY <1>1, <2>1, ConstantsAssumption
    DEF TypeOK, CreateProcess, Life, ConstantsAssumption
  <2>5. UNCHANGED <<pending, cache, stage, host, cause, outcome, signaled,
                    apcCount, verdict, missed, driver>>
    BY <1>1 DEF CreateProcess, frozen, agent
  <2>6. QED
    BY <2>2, <2>3, <2>4, <2>5 DEF TypeOK, Target
<1>2. ASSUME NEW h \in Request, ThreadNotify(h)
      PROVE  TypeOK'
  <2>1. /\ target' \in Seq(Target)
        /\ pending' \in Seq(Scan)
        /\ stage' \in [Request -> Stage]
        /\ host' \in [Request -> Request]
        /\ apcCount' \in Nat
    <3>1. CASE UNCHANGED <<target, pending, stage, host, apcCount>>
      BY <1>0, <3>1 DEF TypeOK
    <3>2. ASSUME NEW i \in First(target, "pid", pid[h]), TakeTarget(i),
                 \/ UNCHANGED <<pending, stage, host, apcCount>>
                 \/ ListScan(h, target[i].rid)
          PROVE  /\ target' \in Seq(Target)
                 /\ pending' \in Seq(Scan)
                 /\ stage' \in [Request -> Stage]
                 /\ host' \in [Request -> Request]
                 /\ apcCount' \in Nat
      <4>1. target[i] \in Range(target) /\ target[i] \in Target
        BY <1>0, SeqElements DEF First
      <4>2. target[i].rid \in Request /\ pid[target[i].rid] \in Pid
        BY <4>1 DEF TargetsListed, Target
      <4>3. NewScan(target[i].rid) \in Scan
        BY <4>2 DEF NewScan, Scan, Answer
      <4>4. target' \in Seq(Target)
        BY <1>0, <3>2, RemoveAtRange DEF TakeTarget, First
      <4>5. CASE UNCHANGED <<pending, stage, host, apcCount>>
        BY <1>0, <4>4, <4>5 DEF TypeOK
      <4>6. CASE ListScan(h, target[i].rid)
        <5>1. pending' = Append(pending, NewScan(target[i].rid))
          BY <4>6 DEF ListScan
        <5>2. pending' \in Seq(Scan)
          BY <1>0, <4>3, <5>1, AppendRange
        <5>3. QED
          BY <4>2, <4>4, <4>6, <5>2 DEF TypeOK, ListScan, Advance, Stage, Live
      <4>7. QED
        BY <3>2, <4>5, <4>6
    <3>3. QED
      BY <1>2, <3>1, <3>2 DEF ThreadNotify
  <2>2. QED
    BY <1>2, <2>1 DEF TypeOK, ThreadNotify, Life, Target, Scan, agent
<1>3. ASSUME NEW r \in Request, InsertApc(r)
      PROVE  TypeOK'
  BY <1>3 DEF TypeOK, InsertApc, Advance, Stage, Live, process, agent
<1>4. ASSUME NEW r \in Request, InsertFails(r)
      PROVE  TypeOK'
  BY <1>4 DEF TypeOK, InsertFails, Advance, Stage, Live, process, agent
<1>5. ASSUME NEW r \in Request, Reclaim(r)
      PROVE  TypeOK'
  <2>1. pending' \in Seq(Scan)
    BY <1>5, UnlistType DEF Reclaim
  <2>2. apcCount' \in Nat
    BY <1>5, CountedPositive DEF Reclaim
  <2>3. QED
    BY <1>5, <2>1, <2>2 DEF TypeOK, Reclaim, Advance, Stage, Live, process, agent, Scan
<1>6. ASSUME NEW r \in Request, Die(r)
      PROVE  TypeOK'
  BY <1>6 DEF TypeOK, Die, Life, frozen, agent
<1>7. ASSUME NEW r \in Request, Exit(r)
      PROVE  TypeOK'
  BY <1>7 DEF TypeOK, Exit, Life, frozen, agent
<1>8. ASSUME NEW r \in Request, Rundown(r)
      PROVE  TypeOK'
  <2>1. apcCount' \in Nat
    BY <1>8, CountedPositive DEF Rundown, Live
  <2>2. QED
    BY <1>8, <2>1 DEF TypeOK, Rundown, Advance, Stage, Live, process, agent
<1>9. ASSUME NEW r \in Request, EarlyCheck(r)
      PROVE  TypeOK'
  <2>1. cache' \in Seq(Entry)
    BY <1>0, <1>9, RemoveAtRange DEF EarlyCheck, First
  <2>2. CASE First(cache, "rid", pid[r]) = {}
    <3>1. UNCHANGED <<cause, outcome>> /\ Advance(r, "waiting")
      BY <1>9, <2>2 DEF EarlyCheck
    <3>2. QED
      BY <1>9, <2>1, <3>1 DEF TypeOK, EarlyCheck, Advance, Stage, Live, process, agent, Entry
  <2>3. CASE First(cache, "rid", pid[r]) # {}
    <3>1. /\ Advance(r, "hit")
          /\ cause' = [cause EXCEPT ![r] = "early"]
          /\ \E i \in First(cache, "rid", pid[r]) : Decide(r, cache[i].verdict)
      BY <1>9, <2>3 DEF EarlyCheck
    <3>2. QED
      BY <1>9, <2>1, <3>1 DEF TypeOK, EarlyCheck, Advance, Decide, Stage, Live, Cause,
                              process, agent, Entry
  <2>4. QED
    BY <2>2, <2>3
<1>10. ASSUME NEW r \in Request, EarlyUnlist(r)
      PROVE  TypeOK'
  <2>1. pending' \in Seq(Scan)
    BY <1>10, UnlistType DEF EarlyUnlist
  <2>2. QED
    BY <1>10, <2>1 DEF TypeOK, EarlyUnlist, Advance, Stage, Live, process, agent, Scan
<1>11. ASSUME NEW r \in Request, Wake(r)
      PROVE  TypeOK'
  BY <1>11 DEF TypeOK, Wake, StopWaiting, Advance, Stage, Live, Cause, process, agent
<1>12. ASSUME NEW r \in Request, Interrupt(r)
      PROVE  TypeOK'
  BY <1>12 DEF TypeOK, Interrupt, StopWaiting, Advance, Stage, Live, Cause, process, agent
<1>13. ASSUME NEW r \in Request, Timeout(r)
      PROVE  TypeOK'
  BY <1>13 DEF TypeOK, Timeout, StopWaiting, Advance, Stage, Live, Cause, process, agent
<1>14. ASSUME NEW r \in Request, Collect(r)
      PROVE  TypeOK'
  <2>1. pending' \in Seq(Scan)
    BY <1>0, <1>14, RemoveAtRange DEF Collect, First
  <2>2. QED
    BY <1>14, <2>1 DEF TypeOK, Collect, Advance, Decide, Stage, Live, process, agent, Scan
<1>15. ASSUME NEW r \in Request, Release(r)
      PROVE  TypeOK'
  <2>1. apcCount' \in Nat
    BY <1>15, CountedPositive DEF Release, Live
  <2>2. QED
    BY <1>15, <2>1 DEF TypeOK, Release, Advance, Stage, Live, process, agent
<1>16. ASSUME NEW r \in Request, Terminate(r)
      PROVE  TypeOK'
  BY <1>16 DEF TypeOK, Terminate, Advance, Stage, Live, Life, agent
<1>17. ASSUME NEW r \in Request, CacheVerdict(r)
      PROVE  TypeOK'
  <2>1. cache' \in Seq(Entry)
    BY <1>17, CacheVerdictResult
  <2>2. QED
    BY <1>17, <2>1 DEF TypeOK, CacheVerdict, process, frozen, Entry
<1>18. ASSUME NEW r \in Request, NEW v \in Answer, SendVerdict(r, v)
      PROVE  TypeOK'
  <2>1. pending' \in Seq(Scan)
    BY <1>18, SendType
  <2>2. QED
    BY <1>18, <2>1 DEF TypeOK, SendVerdict, Scan, process, frozen
<1>19. CASE BeginUnload
  <2>1. \A i \in DOMAIN pending : pending[i].rid \in Request
    <3>1. \A i \in DOMAIN pending : pending[i] \in Scan
      BY <1>0, SeqElements
    <3>2. QED
      BY <3>1 DEF Scan
  <2>2. QED
    BY <1>19, <2>1 DEF TypeOK, BeginUnload, process, frozen, agent
<1>20. CASE FinishUnload
  BY <1>20 DEF TypeOK, FinishUnload, process, frozen, agent
<1>21. CASE UNCHANGED vars
  BY <1>21 DEF TypeOK, vars, process, frozen, agent
<1>22. QED
  BY <1>1, <1>2, <1>3, <1>4, <1>5, <1>6, <1>7, <1>8, <1>9, <1>10, <1>11, <1>12, <1>13, <1>14, <1>15, <1>16, <1>17, <1>18, <1>19, <1>20, <1>21
  DEF Next, InjectStep, ApcStep

-----------------------------------------------------------------------------
(* Only CreateProcess and ThreadNotify bring requests into being or freeze them;
   every other step leaves the targets alone, and the set of requests with an
   APC. *)

Quiet ==
  /\ UNCHANGED <<nextRequest, pid, held, target>>
  /\ \A r \in Request : stage'[r] = "absent" <=> stage[r] = "absent"

(* Moving an APC that exists from one stage to another is quiet. *)
LEMMA AdvanceQuiet ==
  ASSUME TypeOK, NEW r \in Request, NEW s \in Stage \ {"absent"},
         stage[r] # "absent", Advance(r, s),
         UNCHANGED <<nextRequest, pid, held, target>>
  PROVE  Quiet
  BY DEF TypeOK, Advance, Quiet

(* All steps but two are quiet. *)
LEMMA QuietSteps ==
  ASSUME TypeOK, [Next]_vars
  PROVE  \/ \E p \in Pid, fast \in BOOLEAN : CreateProcess(p, fast)
         \/ \E h \in Request : ThreadNotify(h)
         \/ Quiet
<1>1. ASSUME NEW r \in Request, InsertApc(r) \/ InsertFails(r) \/ Reclaim(r)
      PROVE  Quiet
  BY <1>1, AdvanceQuiet DEF InsertApc, InsertFails, Reclaim, process, Stage, Live
<1>2. ASSUME NEW r \in Request, Rundown(r) \/ EarlyCheck(r) \/ EarlyUnlist(r)
      PROVE  Quiet
  BY <1>2, AdvanceQuiet DEF Rundown, EarlyCheck, EarlyUnlist, process, Stage, Live
<1>3. ASSUME NEW r \in Request, Wake(r) \/ Interrupt(r) \/ Timeout(r)
      PROVE  Quiet
  BY <1>3, AdvanceQuiet
  DEF Wake, Interrupt, Timeout, StopWaiting, process, Stage, Live
<1>4. ASSUME NEW r \in Request, Collect(r) \/ Release(r) \/ Terminate(r)
      PROVE  Quiet
  BY <1>4, AdvanceQuiet DEF Collect, Release, Terminate, process, Stage, Live
<1>5. ASSUME NEW r \in Request, Die(r) \/ Exit(r) \/ CacheVerdict(r)
      PROVE  Quiet
  BY <1>5 DEF Die, Exit, CacheVerdict, frozen, process, Quiet
<1>6. ASSUME NEW r \in Request, NEW v \in Answer, SendVerdict(r, v)
      PROVE  Quiet
  BY <1>6 DEF SendVerdict, frozen, process, Quiet
<1>7. CASE BeginUnload \/ FinishUnload \/ UNCHANGED vars
  BY <1>7 DEF BeginUnload, FinishUnload, vars, frozen, process, Quiet
<1>8. QED
  BY <1>1, <1>2, <1>3, <1>4, <1>5, <1>6, <1>7 DEF Next, InjectStep, ApcStep

-----------------------------------------------------------------------------
(* Preservation of the other conjuncts. *)

(* CreateProcess takes a fresh request id, and may target the new process. *)
LEMMA CreateRequest ==
  ASSUME Inv, NEW p \in Pid, NEW fast \in BOOLEAN, CreateProcess(p, fast)
  PROVE  /\ nextRequest \in Request
         /\ nextRequest \notin held
         /\ stage[nextRequest] = "absent"
         /\ nextRequest' = nextRequest + 1
         /\ pid' = [pid EXCEPT ![nextRequest] = p]
         /\ held \subseteq held' /\ held' \subseteq held \cup {nextRequest}
         /\ target' = target \/
              /\ held' = held \cup {nextRequest}
              /\ target' = Append(target, [pid |-> p, rid |-> nextRequest])
         /\ UNCHANGED <<pending, cache, stage, host, cause, outcome, signaled,
                        apcCount, verdict, missed, driver>>
<1>1. nextRequest \in Request
  BY ConstantsAssumption
  DEF Inv, TypeOK, CreateProcess, Request, ConstantsAssumption
<1>2. nextRequest \notin held
  BY DEF Inv, TypeOK, HeldExist
<1>3. stage[nextRequest] = "absent"
  BY <1>1, <1>2 DEF Inv, HeldExist
<1>4. QED
  BY <1>1, <1>2, <1>3 DEF CreateProcess, frozen, agent

(* Every step keeps TargetsListed. *)
LEMMA TargetsStep == Inv /\ [Next]_vars => TargetsListed'
<1> SUFFICES ASSUME Inv, [Next]_vars
             PROVE  TargetsListed'
  OBVIOUS
<1>0. target \in Seq(Target) /\ Range(target) \subseteq Target
  BY SeqElements DEF Inv, TypeOK, Target
<1>1. ASSUME NEW p \in Pid, NEW fast \in BOOLEAN, CreateProcess(p, fast)
      PROVE  TargetsListed'
  <2> DEFINE t == [pid |-> p, rid |-> nextRequest]
  <2>1. t \in Target /\ t.rid = nextRequest /\ t.pid = p
    BY <1>1, CreateRequest DEF Target
  <2>2. \A u \in Range(target) : u.rid # t.rid
    BY <1>1, <2>1, CreateRequest DEF Inv, TargetsListed
  <2>3. target' = target \/ (target' = Append(target, t) /\ t.rid \in held')
    BY <1>1, <2>1, CreateRequest
  <2> HIDE DEF t
  <2>4. Distinct(target')
    <3>1. Distinct(target)
      BY DEF Inv, TargetsListed
    <3>2. \A d \in Range(target) : d.rid # t.rid
      BY <2>2
    <3>3. Distinct(Append(target, t))
      BY <1>0, <2>1, <3>1, <3>2, AppendRange
    <3>4. QED
      BY <2>3, <3>1, <3>3
  <2>5. Range(target') \subseteq Range(target) \cup {t}
    <3>1. Range(Append(target, t)) = Range(target) \cup {t}
      BY <1>0, <2>1, AppendRange
    <3>2. QED
      BY <2>3, <3>1
  <2>6. \A u \in Range(target) :
          u.rid \in held' /\ u.pid = pid'[u.rid] /\ stage'[u.rid] = "absent"
    <3> SUFFICES ASSUME NEW u \in Range(target)
                 PROVE  u.rid \in held' /\ u.pid = pid'[u.rid]
                        /\ stage'[u.rid] = "absent"
      OBVIOUS
    <3>1. u.rid \in Request /\ u.rid # nextRequest
      BY <1>0, <2>1, <2>2 DEF Target
    <3>2. u.rid \in held /\ u.pid = pid[u.rid] /\ stage[u.rid] = "absent"
      BY DEF Inv, TargetsListed
    <3>3. pid'[u.rid] = pid[u.rid] /\ stage' = stage /\ held \subseteq held'
      BY <1>1, <3>1, CreateRequest DEF Inv, TypeOK
    <3>4. QED
      BY <3>2, <3>3
  <2>7. pid'[t.rid] = t.pid /\ stage'[t.rid] = "absent"
    <3>1. /\ nextRequest \in Request /\ stage' = stage
          /\ pid' = [pid EXCEPT ![nextRequest] = p]
          /\ stage[nextRequest] = "absent"
      BY <1>1, CreateRequest
    <3>2. pid'[nextRequest] = p
      BY <3>1 DEF Inv, TypeOK
    <3>3. QED
      BY <2>1, <3>1, <3>2
  <2>8. t \in Range(target') => t.rid \in held'
    BY <2>2, <2>3, <2>6
  <2>9. QED
    BY <2>4, <2>5, <2>6, <2>7, <2>8 DEF TargetsListed, Distinct
<1>2. ASSUME NEW h \in Request, ThreadNotify(h)
      PROVE  TargetsListed'
  <2>1. CASE UNCHANGED <<target, stage>>
    BY <1>2, <2>1 DEF Inv, TargetsListed, ThreadNotify, Distinct
  <2>2. ASSUME NEW i \in First(target, "pid", pid[h]), TakeTarget(i),
               stage' = stage \/ ListScan(h, target[i].rid)
        PROVE  TargetsListed'
    <3>1. i \in DOMAIN target
      BY DEF First
    <3>2. /\ Distinct(target')
          /\ Range(target') \subseteq Range(target)
          /\ \A t \in Range(target') : t.rid # target[i].rid
      BY <1>0, <2>2, <3>1, RemoveAtRange, RemoveAtDistinct
      DEF TakeTarget, Inv, TargetsListed
    <3>3. \A q \in Request : q # target[i].rid => stage'[q] = stage[q]
      BY <2>2 DEF ListScan, Advance, Inv, TypeOK
    <3>4. \A t \in Range(target') : t.rid \in Request
      BY <1>0, <3>2 DEF Target
    <3>5. UNCHANGED <<held, pid>>
      BY <1>2 DEF ThreadNotify
    <3>6. QED
      BY <3>2, <3>3, <3>4, <3>5 DEF Inv, TargetsListed, Distinct
  <2>3. QED
    BY <1>2, <2>1, <2>2 DEF ThreadNotify
<1>3. CASE Quiet
  BY <1>0, <1>3 DEF Inv, TargetsListed, Quiet, Target, Distinct
<1>4. QED
  BY <1>1, <1>2, <1>3, QuietSteps DEF Inv

(* A step other than CreateProcess and ThreadNotify takes scans off the list, or
   marks them with the agent's verdict. *)
PendingKept ==
  /\ Distinct(pending')
  /\ \A s \in Range(pending') : \E q \in Range(pending) :
       /\ s.rid = q.rid
       /\ s.pid = q.pid
       /\ s.verdict = q.verdict \/ s.verdict = verdict'[s.rid]

(* PENDING_SCANS unchanged. *)
LEMMA KeptBySame ==
  ASSUME Distinct(pending), UNCHANGED pending
  PROVE  PendingKept
  BY DEF PendingKept, Distinct

(* A scan removed from PENDING_SCANS. *)
LEMMA KeptByRemoval ==
  ASSUME TypeOK, Distinct(pending), NEW i \in DOMAIN pending,
         pending' = RemoveAt(pending, i)
  PROVE  PendingKept
<1>1. pending \in Seq(Scan)
  BY DEF TypeOK, Scan
<1>2. Distinct(RemoveAt(pending, i)) /\ Range(RemoveAt(pending, i)) \subseteq Range(pending)
  BY <1>1, RemoveAtRange, RemoveAtDistinct
<1>3. QED
  BY <1>2 DEF PendingKept

(* A scan marked by apply_verdict. *)
LEMMA KeptBySend ==
  ASSUME Inv, NEW r \in Request, NEW v \in Answer, SendVerdict(r, v)
  PROVE  PendingKept
<1>1. pending \in Seq(Scan) /\ Distinct(pending)
  BY DEF Inv, TypeOK, PendingListed, Scan
<1>2. ASSUME NEW i \in First(pending, "rid", r),
             pending' = [pending EXCEPT ![i].verdict = v]
      PROVE  PendingKept
  <2>1. /\ DOMAIN pending = 1 .. Len(pending) /\ i \in 1 .. Len(pending)
        /\ \A j \in DOMAIN pending : pending[j] \in Scan /\ pending[j] \in Range(pending)
        /\ pending[i].rid = r
    BY <1>1, <1>2, LenProperties, SeqElements DEF First
  <2> DEFINE m == [pending[i] EXCEPT !.verdict = v]
  <2>2. m \in Scan /\ m.rid = r /\ m.pid = pending[i].pid /\ m.verdict = v
    BY <2>1, RevisedTypes
  <2>3. pending' = [pending EXCEPT ![i] = m]
    BY <1>2
  <2> HIDE DEF m
  <2>4. /\ DOMAIN pending' = DOMAIN pending
        /\ \A j \in DOMAIN pending : pending'[j] = IF j = i THEN m ELSE pending[j]
    BY <2>1, <2>3
  <2>5. \A j \in DOMAIN pending : pending'[j].rid = pending[j].rid
    BY <2>1, <2>2, <2>4
  <2>6. Distinct(pending')
    BY <1>1, <2>4, <2>5 DEF Distinct
  <2>7. verdict'[r] = v
    BY DEF SendVerdict, Inv, TypeOK
  <2>8. \A j \in DOMAIN pending :
          /\ pending'[j].pid = pending[j].pid
          /\ pending'[j].verdict = pending[j].verdict \/ pending'[j].verdict = verdict'[pending'[j].rid]
    BY <2>1, <2>2, <2>4, <2>7
  <2>9. QED
    BY <2>1, <2>4, <2>5, <2>6, <2>8 DEF PendingKept, Range
<1>3. QED
  BY <1>1, <1>2, KeptBySame DEF SendVerdict

(* Only inject_freeze_apc adds to PENDING_SCANS. *)
LEMMA KeptByQuiet ==
  ASSUME Inv, [Next]_vars
  PROVE  \/ \E h \in Request : ThreadNotify(h)
         \/ PendingKept
<1>0. TypeOK /\ Distinct(pending)
  BY DEF Inv, PendingListed
<1>1. ASSUME NEW r \in Request, Unlist(r)
      PROVE  PendingKept
  <2>1. \A i \in First(pending, "pid", pid[r]) : i \in DOMAIN pending
    BY DEF First
  <2>2. QED
    BY <1>0, <1>1, <2>1, KeptBySame, KeptByRemoval DEF Unlist
<1>2. ASSUME NEW r \in Request, Collect(r)
      PROVE  PendingKept
  <2>1. \A i \in First(pending, "pid", pid[r]) : i \in DOMAIN pending
    BY DEF First
  <2>2. QED
    BY <1>0, <1>2, <2>1, KeptBySame, KeptByRemoval DEF Collect
<1>3. CASE BeginUnload
  BY <1>3 DEF BeginUnload, PendingKept, Distinct, Range
<1>4. ASSUME UNCHANGED pending
      PROVE  PendingKept
  BY <1>0, <1>4, KeptBySame
<1>5. ASSUME NEW p \in Pid, NEW fast \in BOOLEAN, CreateProcess(p, fast)
      PROVE  PendingKept
  BY <1>4, <1>5 DEF CreateProcess
<1>6. ASSUME NEW r \in Request, InjectStep(r) \/ Rundown(r)
      PROVE  PendingKept
  BY <1>1, <1>4, <1>6 DEF InjectStep, InsertApc, InsertFails, Reclaim, Rundown
<1>7. ASSUME NEW r \in Request, ApcStep(r)
      PROVE  PendingKept
  <2>1. CASE EarlyCheck(r) \/ EarlyUnlist(r)
    BY <1>1, <1>4, <2>1 DEF EarlyCheck, EarlyUnlist
  <2>2. CASE Wake(r) \/ Interrupt(r) \/ Timeout(r)
    BY <1>4, <2>2 DEF Wake, Interrupt, Timeout, StopWaiting
  <2>3. CASE Release(r) \/ Terminate(r)
    BY <1>4, <2>3 DEF Release, Terminate
  <2>4. QED
    BY <1>2, <1>7, <2>1, <2>2, <2>3 DEF ApcStep
<1>8. ASSUME NEW r \in Request, Die(r) \/ Exit(r) \/ CacheVerdict(r)
      PROVE  PendingKept
  BY <1>4, <1>8 DEF Die, Exit, CacheVerdict
<1>9. CASE FinishUnload \/ UNCHANGED vars
  BY <1>4, <1>9 DEF FinishUnload, vars
<1>10. QED
  BY <1>3, <1>5, <1>6, <1>7, <1>8, <1>9, KeptBySend DEF Next

(* Every step keeps PendingListed. *)
LEMMA PendingStep == Inv /\ [Next]_vars => PendingListed'
<1> SUFFICES ASSUME Inv, [Next]_vars
             PROVE  PendingListed'
  OBVIOUS
<1>0. /\ pending \in Seq(Scan) /\ Range(pending) \subseteq Scan
      /\ \A s \in Range(pending) : s.rid \in Request
  <2>1. pending \in Seq(Scan) /\ Range(pending) \subseteq Scan
    BY SeqElements DEF Inv, TypeOK, Scan
  <2>2. QED
    BY <2>1 DEF Scan
<1>1. ASSUME NEW h \in Request, ThreadNotify(h)
      PROVE  PendingListed'
  <2>1. UNCHANGED <<pid, held>>
    BY <1>1 DEF ThreadNotify
  <2>2. CASE UNCHANGED <<pending, stage>>
    BY <2>1, <2>2 DEF Inv, PendingListed, Distinct
  <2>3. ASSUME NEW i \in First(target, "pid", pid[h]), ListScan(h, target[i].rid)
        PROVE  PendingListed'
    <3> DEFINE r == target[i].rid
    <3>1. target[i] \in Target /\ target[i] \in Range(target)
      BY SeqElements DEF Inv, TypeOK, Target, First
    <3>2. r \in Request /\ r \in held /\ pid[r] \in Pid /\ stage[r] = "absent"
      BY <3>1 DEF Inv, TargetsListed, Target
    <3> HIDE DEF r
    <3>3. NewScan(r) \in Scan /\ NewScan(r).rid = r /\ NewScan(r).pid = pid[r]
      BY <3>2 DEF NewScan, Scan, Answer
    <3>4. pending' = Append(pending, NewScan(r))
      BY <2>3 DEF ListScan, r
    <3>5. \A s \in Range(pending) : s.rid # NewScan(r).rid
      BY <3>2, <3>3 DEF Inv, PendingListed
    <3>6. Distinct(pending)
      BY DEF Inv, PendingListed
    <3>7. Distinct(pending') /\ Range(pending') = Range(pending) \cup {NewScan(r)}
      BY <1>0, <3>3, <3>4, <3>5, <3>6, AppendRange
    <3>8. \A q \in Request : stage'[q] = IF q = r THEN "listed" ELSE stage[q]
      BY <2>3 DEF ListScan, Advance, Inv, TypeOK, r
    <3>9. QED
      BY <1>0, <2>1, <3>2, <3>3, <3>7, <3>8 DEF Inv, PendingListed, Distinct
  <2>4. QED
    BY <1>1, <2>2, <2>3 DEF ThreadNotify
<1>2. ASSUME NEW p \in Pid, NEW fast \in BOOLEAN, CreateProcess(p, fast)
      PROVE  PendingListed'
  <2>1. /\ UNCHANGED <<pending, stage>>
        /\ held \subseteq held'
        /\ \A r \in held : pid'[r] = pid[r]
    BY <1>2, CreateRequest DEF Inv, TypeOK
  <2>2. QED
    BY <2>1 DEF Inv, PendingListed, Distinct
<1>3. CASE Quiet /\ PendingKept
  BY <1>0, <1>3 DEF Inv, PendingListed, Quiet, PendingKept
<1>4. QED
  BY <1>1, <1>2, <1>3, QuietSteps, KeptByQuiet DEF Inv

(* Only IOCTL_SEND_VERDICT gives a request its verdict. *)
LEMMA AgentSteps ==
  ASSUME [Next]_vars
  PROVE  \/ \E p \in Pid, fast \in BOOLEAN : CreateProcess(p, fast)
         \/ \E h \in Request : ThreadNotify(h)
         \/ \E r \in Request, v \in Answer : SendVerdict(r, v)
         \/ missed' \subseteq missed /\ UNCHANGED verdict
<1>1. ASSUME NEW r \in Request,
             \/ Die(r) \/ Exit(r) \/ InjectStep(r) \/ Rundown(r) \/ CacheVerdict(r)
      PROVE  missed' \subseteq missed /\ UNCHANGED verdict
  BY <1>1
  DEF Die, Exit, InjectStep, InsertApc, InsertFails, Reclaim, Rundown,
      CacheVerdict, agent
<1>2. ASSUME NEW r \in Request, ApcStep(r)
      PROVE  missed' \subseteq missed /\ UNCHANGED verdict
  BY <1>2
  DEF ApcStep, EarlyCheck, EarlyUnlist, Wake, Interrupt, Timeout, StopWaiting,
      Collect, Release, Terminate, agent
<1>3. CASE BeginUnload \/ FinishUnload \/ UNCHANGED vars
  BY <1>3 DEF BeginUnload, FinishUnload, vars, agent
<1>4. QED
  BY <1>1, <1>2, <1>3 DEF Next

(* Every step keeps HeldExist. *)
LEMMA HeldStep == Inv /\ [Next]_vars => HeldExist'
<1> SUFFICES ASSUME Inv, [Next]_vars
             PROVE  HeldExist'
  OBVIOUS
<1>1. ASSUME NEW p \in Pid, NEW fast \in BOOLEAN, CreateProcess(p, fast)
      PROVE  HeldExist'
  <2>1. \A r \in held' : r < nextRequest'
    <3>1. \A r \in held : r < nextRequest /\ r \in Int
      BY ConstantsAssumption
      DEF Inv, TypeOK, HeldExist, Request, ConstantsAssumption
    <3>2. nextRequest \in Nat
      BY DEF Inv, TypeOK
    <3>3. nextRequest' = nextRequest + 1 /\ held' \subseteq held \cup {nextRequest}
      BY <1>1, CreateRequest
    <3>4. QED
      BY <3>1, <3>2, <3>3
  <2>2. UNCHANGED <<stage, missed, verdict>> /\ held \subseteq held'
    BY <1>1, CreateRequest
  <2>3. QED
    BY <2>1, <2>2 DEF Inv, HeldExist
<1>2. ASSUME NEW h \in Request, ThreadNotify(h)
      PROVE  HeldExist'
  <2>1. UNCHANGED <<held, nextRequest, missed, verdict>>
    BY <1>2 DEF ThreadNotify, agent
  <2>2. CASE UNCHANGED stage
    BY <2>1, <2>2 DEF Inv, HeldExist
  <2>3. ASSUME NEW i \in First(target, "pid", pid[h]), ListScan(h, target[i].rid)
        PROVE  HeldExist'
    <3>1. target[i].rid \in held
      BY SeqElements DEF Inv, TypeOK, Target, First, TargetsListed
    <3>2. \A q \in Request : q # target[i].rid => stage'[q] = stage[q]
      BY <2>3 DEF ListScan, Advance, Inv, TypeOK
    <3>3. QED
      BY <2>1, <3>1, <3>2 DEF Inv, HeldExist
  <2>4. QED
    BY <1>2, <2>2, <2>3 DEF ThreadNotify
<1>3. ASSUME NEW r \in Request, NEW v \in Answer, SendVerdict(r, v)
      PROVE  HeldExist'
  BY <1>3 DEF SendVerdict, process, frozen, Inv, HeldExist, TypeOK, Answer
<1>4. CASE Quiet /\ missed' \subseteq missed /\ UNCHANGED verdict
  BY <1>4 DEF Quiet, Inv, HeldExist
<1>5. QED
  BY <1>1, <1>2, <1>3, <1>4, AgentSteps, QuietSteps DEF Inv

(* Every step keeps APC_COUNT equal to the number of counted APCs. *)
LEMMA CountedStep == Inv /\ [Next]_vars => ApcsCounted'
<1> SUFFICES ASSUME Inv, [Next]_vars
             PROVE  ApcsCounted'
  OBVIOUS
<1>0. TypeOK /\ ApcsCounted
  BY DEF Inv
<1>1. ASSUME UNCHANGED <<stage, apcCount>>
      PROVE  ApcsCounted'
  BY <1>0, <1>1 DEF ApcsCounted, Counted
<1>2. ASSUME NEW p \in Pid, NEW fast \in BOOLEAN, CreateProcess(p, fast)
      PROVE  ApcsCounted'
  BY <1>1, <1>2 DEF CreateProcess, frozen
<1>3. ASSUME NEW h \in Request, ThreadNotify(h)
      PROVE  ApcsCounted'
  <2>1. ASSUME NEW i \in First(target, "pid", pid[h]), ListScan(h, target[i].rid)
        PROVE  ApcsCounted'
    <3> DEFINE r == target[i].rid
    <3>1. target[i] \in Target /\ target[i] \in Range(target)
      BY SeqElements DEF Inv, TypeOK, Target, First
    <3>2. r \in Request /\ stage[r] = "absent"
      BY <3>1 DEF Inv, TargetsListed, Target
    <3>3. stage' = [stage EXCEPT ![r] = "listed"] /\ apcCount' = apcCount + 1
      BY <2>1 DEF ListScan, Advance
    <3> HIDE DEF r
    <3>4. QED
      BY <1>0, <3>2, <3>3, CountStep DEF Live, Stage, ApcsCounted
  <2>2. QED
    BY <1>1, <1>3, <2>1 DEF ThreadNotify
<1>4. ASSUME NEW r \in Request, NEW s \in Live \cup {"reclaimed"},
             stage[r] \in Live \cup {"reclaimed"}, Advance(r, s), UNCHANGED apcCount
      PROVE  ApcsCounted'
  BY <1>0, <1>4, CountStep DEF Advance, Stage, ApcsCounted
<1>5. ASSUME NEW r \in Request, NEW s \in Stage \ (Live \cup {"reclaimed"}),
             stage[r] \in Live \cup {"reclaimed"}, Advance(r, s),
             apcCount' = apcCount - 1
      PROVE  ApcsCounted'
  BY <1>0, <1>5, CountStep DEF Advance, ApcsCounted
<1>6. ASSUME NEW r \in Request, InjectStep(r) \/ Rundown(r)
      PROVE  ApcsCounted'
  <2>1. CASE InsertApc(r) \/ InsertFails(r)
    BY <1>4, <2>1 DEF InsertApc, InsertFails, Live
  <2>2. CASE Reclaim(r) \/ Rundown(r)
    BY <1>5, <2>2 DEF Reclaim, Rundown, Live, Stage
  <2>3. QED
    BY <1>6, <2>1, <2>2 DEF InjectStep
<1>7. ASSUME NEW r \in Request, ApcStep(r)
      PROVE  ApcsCounted'
  <2>1. CASE EarlyCheck(r) \/ EarlyUnlist(r)
    BY <1>4, <2>1 DEF EarlyCheck, EarlyUnlist, Live
  <2>2. CASE Wake(r) \/ Interrupt(r) \/ Timeout(r)
    BY <1>4, <2>2 DEF Wake, Interrupt, Timeout, StopWaiting, Live
  <2>3. CASE Collect(r)
    BY <1>4, <2>3 DEF Collect, Live
  <2>4. CASE Release(r)
    BY <1>5, <2>4 DEF Release, Live, Stage
  <2>5. CASE Terminate(r)
    <3>1. stage' = [stage EXCEPT ![r] = "killed"] /\ stage[r] = "leaving"
          /\ apcCount' = apcCount
      BY <2>5 DEF Terminate, Advance
    <3>2. /\ "killed" \in Stage
          /\ "killed" \notin Live \cup {"reclaimed"}
          /\ stage[r] \notin Live \cup {"reclaimed"}
      BY <3>1 DEF Stage, Live
    <3>3. Cardinality(Counted') = apcCount
      BY <1>0, <3>1, <3>2, CountStep
    <3>4. QED
      BY <3>1, <3>3 DEF ApcsCounted
  <2>6. QED
    BY <1>7, <2>1, <2>2, <2>3, <2>4, <2>5 DEF ApcStep
<1>8. ASSUME NEW r \in Request, Die(r) \/ Exit(r) \/ CacheVerdict(r)
      PROVE  ApcsCounted'
  BY <1>1, <1>8 DEF Die, Exit, CacheVerdict, frozen
<1>9. ASSUME NEW r \in Request, NEW v \in Answer, SendVerdict(r, v)
      PROVE  ApcsCounted'
  BY <1>1, <1>9 DEF SendVerdict, frozen
<1>10. CASE BeginUnload \/ FinishUnload \/ UNCHANGED vars
  BY <1>1, <1>10 DEF BeginUnload, FinishUnload, vars, frozen
<1>11. QED
  BY <1>2, <1>3, <1>6, <1>7, <1>8, <1>9, <1>10 DEF Next

(* The invariant holds when the driver has been loaded. *)
LEMMA InitInv == Init => Inv
<1> SUFFICES ASSUME Init
             PROVE  Inv
  OBVIOUS
<1>1. TypeOK
  BY ConstantsAssumption
  DEF Init, TypeOK, Life, Stage, Live, Cause, Answer, NoPid, ConstantsAssumption
<1>2. TargetsListed /\ PendingListed /\ HeldExist
  BY DEF Init, TargetsListed, PendingListed, HeldExist, Distinct, Range
<1>3. Counted = {}
  BY DEF Init, Counted, Live
<1>4. ApcsCounted
  BY <1>3, FS_EmptySet DEF ApcsCounted, Init
<1>5. QED
  BY <1>1, <1>2, <1>4 DEF Inv

(* The invariant is inductive. *)
LEMMA InvStep == Inv /\ [Next]_vars => Inv'
  BY TypeStep, TargetsStep, PendingStep, HeldStep, CountedStep DEF Inv

(* The invariant holds in every reachable state. *)
LEMMA Invariance == Spec => []Inv
  BY InitInv, InvStep, PTL DEF Spec

(* Every variable keeps its type, APC_COUNT among them: it never falls below
   zero, so driver_unload's wait ends when it should. *)
THEOREM TypeCorrect == Spec => []TypeOK
<1>1. Inv => TypeOK
  BY DEF Inv
<1>2. QED
  BY Invariance, <1>1, PTL

(* A request stands at most once in TARGET_PIDS and PENDING_SCANS together. *)
THEOREM ListedOnce == Spec => []RequestListedOnce
<1>1. Inv => RequestListedOnce
  <2> SUFFICES ASSUME Inv
               PROVE  RequestListedOnce
    OBVIOUS
  <2>1. Distinct(target) /\ Distinct(pending)
    BY DEF Inv, TargetsListed, PendingListed
  <2>2. \A i \in DOMAIN target, j \in DOMAIN pending : target[i].rid # pending[j].rid
    BY DEF Inv, TargetsListed, PendingListed, Range
  <2>3. QED
    BY <2>1, <2>2 DEF RequestListedOnce, Distinct
<1>2. QED
  BY Invariance, <1>1, PTL

-----------------------------------------------------------------------------
(* Unloading. *)

UnloadedEmpty == driver = "unloaded" => Counted = {}

(* Only thread_notify_routine brings an APC into being. *)
LEMMA NoNewApc ==
  ASSUME TypeOK, [Next]_vars
  PROVE  (\E h \in Request : ThreadNotify(h)) \/ Counted' \subseteq Counted
<1>1. ASSUME UNCHANGED stage
      PROVE  Counted' \subseteq Counted
  BY <1>1 DEF Counted
<1>2. ASSUME NEW r \in Request, NEW s \in Stage, Advance(r, s),
             stage[r] \in Live \cup {"reclaimed"} \/ s \notin Live \cup {"reclaimed"}
      PROVE  Counted' \subseteq Counted
  BY <1>2 DEF Advance, Counted, TypeOK
<1>3. ASSUME NEW r \in Request, InjectStep(r) \/ Rundown(r)
      PROVE  Counted' \subseteq Counted
  BY <1>2, <1>3
  DEF InjectStep, InsertApc, InsertFails, Reclaim, Rundown, Live, Stage
<1>4. ASSUME NEW r \in Request, ApcStep(r)
      PROVE  Counted' \subseteq Counted
  <2>1. CASE EarlyCheck(r) \/ EarlyUnlist(r) \/ Collect(r)
    BY <1>2, <2>1 DEF EarlyCheck, EarlyUnlist, Collect, Live, Stage
  <2>2. CASE Wake(r) \/ Interrupt(r) \/ Timeout(r)
    BY <1>2, <2>2 DEF Wake, Interrupt, Timeout, StopWaiting, Live, Stage
  <2>3. CASE Release(r) \/ Terminate(r)
    BY <1>2, <2>3 DEF Release, Terminate, Live, Stage
  <2>4. QED
    BY <1>4, <2>1, <2>2, <2>3 DEF ApcStep
<1>5. ASSUME NEW r \in Request, Die(r) \/ Exit(r) \/ CacheVerdict(r)
      PROVE  Counted' \subseteq Counted
  BY <1>1, <1>5 DEF Die, Exit, CacheVerdict, frozen
<1>6. ASSUME NEW r \in Request, NEW v \in Answer, SendVerdict(r, v)
      PROVE  Counted' \subseteq Counted
  BY <1>1, <1>6 DEF SendVerdict, frozen
<1>7. ASSUME NEW p \in Pid, NEW fast \in BOOLEAN, CreateProcess(p, fast)
      PROVE  Counted' \subseteq Counted
  BY <1>1, <1>7 DEF CreateProcess, frozen
<1>8. CASE BeginUnload \/ FinishUnload \/ UNCHANGED vars
  BY <1>1, <1>8 DEF BeginUnload, FinishUnload, vars, frozen
<1>9. QED
  BY <1>3, <1>4, <1>5, <1>6, <1>7, <1>8 DEF Next

(* Only driver_unload changes the driver's state. *)
LEMMA DriverSteps ==
  ASSUME [Next]_vars
  PROVE  BeginUnload \/ FinishUnload \/ UNCHANGED driver
<1>1. ASSUME NEW r \in Request,
             \/ ThreadNotify(r) \/ Die(r) \/ Exit(r) \/ InjectStep(r) \/ Rundown(r)
             \/ CacheVerdict(r) \/ \E v \in Answer : SendVerdict(r, v)
      PROVE  UNCHANGED driver
  BY <1>1
  DEF ThreadNotify, Die, Exit, InjectStep, InsertApc, InsertFails, Reclaim, Rundown,
      CacheVerdict, SendVerdict
<1>2. ASSUME NEW r \in Request, ApcStep(r)
      PROVE  UNCHANGED driver
  BY <1>2
  DEF ApcStep, EarlyCheck, EarlyUnlist, Wake, Interrupt, Timeout, StopWaiting,
      Collect, Release, Terminate
<1>3. ASSUME NEW p \in Pid, NEW fast \in BOOLEAN, CreateProcess(p, fast)
      PROVE  UNCHANGED driver
  BY <1>3 DEF CreateProcess
<1>4. QED
  BY <1>1, <1>2, <1>3 DEF Next, vars

(* The driver never goes while an APC holds a context in its memory: APC_COUNT
   is the number of such contexts, and driver_unload waits until it is zero. *)
THEOREM Drains == Spec => []UnloadDrains
<1>1. Init => UnloadedEmpty
  BY DEF Init, UnloadedEmpty
<1>2. Inv /\ UnloadedEmpty /\ [Next]_vars => UnloadedEmpty'
  <2> SUFFICES ASSUME Inv, UnloadedEmpty, [Next]_vars, driver' = "unloaded"
               PROVE  Counted' = {}
    BY DEF UnloadedEmpty
  <2>1. ASSUME NEW h \in Request, ThreadNotify(h)
        PROVE  FALSE
    BY <2>1 DEF ThreadNotify
  <2>2. Counted' \subseteq Counted
    BY <2>1, NoNewApc DEF Inv
  <2>3. CASE FinishUnload
    <3>1. Cardinality(Counted) = 0
      BY <2>3 DEF FinishUnload, Inv, ApcsCounted
    <3>2. Counted = {}
      BY <3>1, CountedFinite, FS_EmptySet
    <3>3. QED
      BY <2>2, <3>2
  <2>4. CASE BeginUnload
    BY <2>4 DEF BeginUnload
  <2>5. CASE UNCHANGED driver
    BY <2>2, <2>5 DEF UnloadedEmpty
  <2>6. QED
    BY <2>3, <2>4, <2>5, DriverSteps
<1>3. UnloadedEmpty => UnloadDrains
  BY DEF UnloadedEmpty, UnloadDrains, Counted
<1>4. QED
  BY Invariance, <1>1, <1>2, <1>3, PTL DEF Spec

-----------------------------------------------------------------------------
(* The gate fails closed. *)

(* An APC has an outcome only after its wait, or its early exit. *)
OutcomeLate ==
  \A r \in Request :
    outcome[r] # "none" => stage[r] \in {"hit", "decided", "leaving", "resumed", "killed"}

(* The lists say "allow" only of requests the agent allowed. *)
PendingAgrees == \A s \in Range(pending) : s.verdict = "allow" => verdict[s.rid] = "allow"
CacheAgrees   == \A c \in Range(cache) : c.rid \in held /\ verdict[c.rid] = c.verdict

(* What is known of a frozen request stays known. *)
LEMMA Lasting ==
  ASSUME Inv, [Next]_vars
  PROVE  /\ held \subseteq held'
         /\ \A q \in held : pid'[q] = pid[q]
         /\ \A q \in Request : verdict[q] # "none" => verdict'[q] = verdict[q]
<1>1. ASSUME NEW p \in Pid, NEW fast \in BOOLEAN, CreateProcess(p, fast)
      PROVE  held \subseteq held' /\ (\A q \in held : pid'[q] = pid[q])
  BY <1>1, CreateRequest DEF Inv, TypeOK
<1>2. ASSUME NEW h \in Request, ThreadNotify(h)
      PROVE  UNCHANGED <<held, pid>>
  BY <1>2 DEF ThreadNotify
<1>3. held \subseteq held' /\ \A q \in held : pid'[q] = pid[q]
  BY <1>1, <1>2, QuietSteps DEF Inv, Quiet
<1>4. ASSUME NEW r \in Request, NEW v \in Answer, SendVerdict(r, v)
      PROVE  \A q \in Request : verdict[q] # "none" => verdict'[q] = verdict[q]
  BY <1>4 DEF SendVerdict, Inv, TypeOK
<1>5. UNCHANGED verdict \/ \E r \in Request, v \in Answer : SendVerdict(r, v)
  BY AgentSteps DEF CreateProcess, ThreadNotify, agent
<1>6. QED
  BY <1>3, <1>4, <1>5

(* Every step keeps PendingAgrees. *)
LEMMA PendingAgreesStep ==
  ASSUME Inv, PendingAgrees, [Next]_vars
  PROVE  PendingAgrees'
<1>0. /\ pending \in Seq(Scan)
      /\ \A s \in Range(pending) : s \in Scan /\ s.rid \in Request
  <2>1. pending \in Seq(Scan)
    BY DEF Inv, TypeOK, Scan
  <2>2. Range(pending) \subseteq Scan
    BY <2>1, SeqElements
  <2>3. QED
    BY <2>1, <2>2 DEF Scan
<1>1. ASSUME NEW h \in Request, ThreadNotify(h)
      PROVE  PendingAgrees'
  <2>1. UNCHANGED verdict
    BY <1>1 DEF ThreadNotify, agent
  <2>2. ASSUME NEW i \in First(target, "pid", pid[h]), ListScan(h, target[i].rid)
        PROVE  PendingAgrees'
    <3> DEFINE n == NewScan(target[i].rid)
    <3>1. target[i] \in Target /\ target[i] \in Range(target)
      BY SeqElements DEF Inv, TypeOK, Target, First
    <3>2. n \in Scan /\ n.verdict # "allow"
      BY <3>1 DEF NewScan, Scan, Answer, Target, Inv, TargetsListed
    <3>3. pending' = Append(pending, n)
      BY <2>2 DEF ListScan
    <3> HIDE DEF n
    <3>4. Range(pending') = Range(pending) \cup {n}
      BY <1>0, <3>2, <3>3, AppendRange
    <3>5. QED
      BY <2>1, <3>2, <3>4 DEF PendingAgrees
  <2>3. CASE UNCHANGED pending
    BY <2>1, <2>3 DEF PendingAgrees
  <2>4. QED
    BY <1>1, <2>2, <2>3 DEF ThreadNotify
<1>2. CASE PendingKept
  <2>1. \A q \in Request : verdict[q] # "none" => verdict'[q] = verdict[q]
    BY Lasting
  <2>2. QED
    BY <1>0, <1>2, <2>1 DEF PendingKept, PendingAgrees
<1>3. QED
  BY <1>1, <1>2, KeptByQuiet

(* Only CacheVerdict adds to the cache, and only EarlyCheck takes from it. *)
LEMMA CacheSteps ==
  ASSUME [Next]_vars
  PROVE  \/ \E r \in Request : EarlyCheck(r) \/ CacheVerdict(r)
         \/ UNCHANGED cache
<1>1. ASSUME NEW r \in Request,
             \/ ThreadNotify(r) \/ Die(r) \/ Exit(r) \/ InjectStep(r) \/ Rundown(r)
             \/ \E v \in Answer : SendVerdict(r, v)
      PROVE  UNCHANGED cache
  BY <1>1
  DEF ThreadNotify, Die, Exit, InjectStep, InsertApc, InsertFails, Reclaim, Rundown,
      SendVerdict
<1>2. ASSUME NEW r \in Request, ApcStep(r)
      PROVE  EarlyCheck(r) \/ UNCHANGED cache
  BY <1>2
  DEF ApcStep, EarlyUnlist, Wake, Interrupt, Timeout, StopWaiting, Collect, Release,
      Terminate
<1>3. ASSUME NEW p \in Pid, NEW fast \in BOOLEAN, CreateProcess(p, fast)
      PROVE  UNCHANGED cache
  BY <1>3 DEF CreateProcess
<1>4. CASE BeginUnload \/ FinishUnload \/ UNCHANGED vars
  BY <1>4 DEF BeginUnload, FinishUnload, vars
<1>5. QED
  BY <1>1, <1>2, <1>3, <1>4 DEF Next

(* Every step keeps CacheAgrees. *)
LEMMA CacheAgreesStep ==
  ASSUME Inv, CacheAgrees, [Next]_vars
  PROVE  CacheAgrees'
<1>0. cache \in Seq(Entry) /\ \A c \in Range(cache) : c \in Entry /\ c.rid \in Request
  <2>1. cache \in Seq(Entry)
    BY DEF Inv, TypeOK, Entry
  <2>2. Range(cache) \subseteq Entry
    BY <2>1, SeqElements
  <2>3. QED
    BY <2>1, <2>2 DEF Entry
<1>1. ASSUME Range(cache') \subseteq Range(cache)
      PROVE  CacheAgrees'
  <2>1. \A c \in Range(cache) : verdict[c.rid] # "none" 
    BY <1>0 DEF CacheAgrees, Entry, Answer
  <2>2. QED
    BY <1>0, <1>1, <2>1, Lasting DEF CacheAgrees
<1>2. ASSUME NEW r \in Request, CacheVerdict(r)
      PROVE  CacheAgrees'
  <2>1. r \in held /\ UNCHANGED <<held, verdict>>
    BY <1>2 DEF CacheVerdict, process, Inv, HeldExist
  <2>2. QED
    BY <1>2, <2>1, CacheVerdictResult DEF Inv, CacheAgrees
<1>3. ASSUME NEW r \in Request, EarlyCheck(r)
      PROVE  CacheAgrees'
  <2>1. \A i \in First(cache, "rid", pid[r]) : i \in DOMAIN cache
    BY DEF First
  <2>2. Range(cache') \subseteq Range(cache)
    BY <1>0, <1>3, <2>1, RemoveAtRange DEF EarlyCheck
  <2>3. QED
    BY <1>1, <2>2
<1>4. CASE UNCHANGED cache
  BY <1>1, <1>4 DEF Range
<1>5. QED
  BY <1>2, <1>3, <1>4, CacheSteps

(* Steps that wake an APC or decide for it. *)
LEMMA DecisionSteps ==
  ASSUME [Next]_vars
  PROVE  \/ \E r \in Request : EarlyCheck(r) \/ Collect(r)
         \/ \E r \in Request, why \in Cause : StopWaiting(r, why)
         \/ UNCHANGED <<outcome, cause>>
<1>1. ASSUME NEW r \in Request,
             \/ ThreadNotify(r) \/ Die(r) \/ Exit(r) \/ InjectStep(r) \/ Rundown(r)
             \/ CacheVerdict(r) \/ \E v \in Answer : SendVerdict(r, v)
      PROVE  UNCHANGED <<outcome, cause>>
  BY <1>1
  DEF ThreadNotify, Die, Exit, InjectStep, InsertApc, InsertFails, Reclaim, Rundown,
      CacheVerdict, SendVerdict, frozen
<1>2. ASSUME NEW r \in Request, EarlyUnlist(r) \/ Release(r) \/ Terminate(r)
      PROVE  UNCHANGED <<outcome, cause>>
  BY <1>2 DEF EarlyUnlist, Release, Terminate
<1>3. ASSUME NEW r \in Request, Wake(r) \/ Interrupt(r) \/ Timeout(r)
      PROVE  \E why \in Cause : StopWaiting(r, why)
  BY <1>3 DEF Wake, Interrupt, Timeout, Cause
<1>4. ASSUME NEW p \in Pid, NEW fast \in BOOLEAN, CreateProcess(p, fast)
      PROVE  UNCHANGED <<outcome, cause>>
  BY <1>4 DEF CreateProcess, frozen
<1>5. CASE BeginUnload \/ FinishUnload \/ UNCHANGED vars
  BY <1>5 DEF BeginUnload, FinishUnload, vars, frozen
<1>6. QED
  BY <1>1, <1>2, <1>3, <1>4, <1>5 DEF Next, ApcStep

(* Every step keeps OutcomeLate. *)
LEMMA OutcomeLateStep ==
  ASSUME Inv, OutcomeLate, [Next]_vars
  PROVE  OutcomeLate'
<1> DEFINE Late == {"hit", "decided", "leaving", "resumed", "killed"}
<1>0. /\ stage \in [Request -> Stage]
      /\ outcome \in [Request -> {"none", "resume", "kill"}]
  BY DEF Inv, TypeOK
<1>1. ASSUME UNCHANGED outcome,
             \A q \in Request : stage[q] \in Late => stage'[q] \in Late
      PROVE  OutcomeLate'
  BY <1>1 DEF OutcomeLate
<1>2. ASSUME NEW r \in Request, NEW s \in Stage, Advance(r, s),
             stage[r] \notin Late \/ s \in Late, UNCHANGED outcome
      PROVE  OutcomeLate'
  BY <1>0, <1>1, <1>2 DEF Advance
<1>3. ASSUME NEW r \in Request, NEW s \in Late, NEW v, Advance(r, s), Decide(r, v)
      PROVE  OutcomeLate'
  BY <1>0, <1>3 DEF Advance, Decide, OutcomeLate
<1>4. ASSUME NEW r \in Request, EarlyCheck(r)
      PROVE  OutcomeLate'
  BY <1>2, <1>3, <1>4 DEF EarlyCheck, Stage, Live
<1>5. ASSUME NEW r \in Request, Collect(r)
      PROVE  OutcomeLate'
  BY <1>3, <1>5 DEF Collect
<1>6. ASSUME NEW r \in Request, Wake(r) \/ Interrupt(r) \/ Timeout(r)
      PROVE  OutcomeLate'
  BY <1>2, <1>6 DEF Wake, Interrupt, Timeout, StopWaiting, Stage, Live
<1>7. ASSUME NEW r \in Request, EarlyUnlist(r) \/ Release(r) \/ Terminate(r)
      PROVE  OutcomeLate'
  BY <1>2, <1>7 DEF EarlyUnlist, Release, Terminate, Stage, Live
<1>8. ASSUME NEW r \in Request, InjectStep(r) \/ Rundown(r)
      PROVE  OutcomeLate'
  BY <1>2, <1>8
  DEF InjectStep, InsertApc, InsertFails, Reclaim, Rundown, frozen, Stage, Live
<1>9. ASSUME NEW h \in Request, ThreadNotify(h)
      PROVE  OutcomeLate'
  <2>1. UNCHANGED outcome
    BY <1>9 DEF ThreadNotify
  <2>2. ASSUME NEW i \in First(target, "pid", pid[h]), ListScan(h, target[i].rid)
        PROVE  OutcomeLate'
    <3>1. target[i] \in Target /\ target[i] \in Range(target)
      BY SeqElements DEF Inv, TypeOK, Target, First
    <3>2. target[i].rid \in Request /\ stage[target[i].rid] = "absent"
      BY <3>1 DEF Inv, TargetsListed, Target
    <3>3. QED
      BY <1>2, <2>1, <2>2, <3>2 DEF ListScan, Stage, Live
  <2>3. QED
    BY <1>1, <1>9, <2>1, <2>2 DEF ThreadNotify
<1>10. ASSUME NEW r \in Request,
              Die(r) \/ Exit(r) \/ CacheVerdict(r) \/ \E v \in Answer : SendVerdict(r, v)
       PROVE  OutcomeLate'
  BY <1>1, <1>10 DEF Die, Exit, CacheVerdict, SendVerdict, frozen
<1>11. ASSUME NEW p \in Pid, NEW fast \in BOOLEAN, CreateProcess(p, fast)
       PROVE  OutcomeLate'
  BY <1>1, <1>11 DEF CreateProcess, frozen
<1>12. CASE BeginUnload \/ FinishUnload \/ UNCHANGED vars
  BY <1>1, <1>12 DEF BeginUnload, FinishUnload, vars, frozen
<1>13. QED
  BY <1>4, <1>5, <1>6, <1>7, <1>8, <1>9, <1>10, <1>11, <1>12 DEF Next, ApcStep

(* Every step keeps FailClosed, given what the lists say. *)
LEMMA FailClosedStep ==
  ASSUME Inv, OutcomeLate, PendingAgrees, CacheAgrees, FailClosed, [Next]_vars
  PROVE  FailClosed'
<1>0. /\ pid \in [Request -> Pid \cup {NoPid}]
      /\ outcome \in [Request -> {"none", "resume", "kill"}]
      /\ cause \in [Request -> Cause]
      /\ held \subseteq Request
      /\ pending \in Seq(Scan)
      /\ cache \in Seq(Entry)
  BY DEF Inv, TypeOK, Scan, Entry
<1>1. /\ held \subseteq held'
      /\ \A q \in held : pid'[q] = pid[q]
      /\ \A q \in held : verdict[q] = "allow" => verdict'[q] = "allow"
  BY <1>0, Lasting
<1>2. \A r \in Request : outcome[r] # "none" => r \in held
  BY DEF OutcomeLate, Inv, HeldExist
(* What held before the step for a resumed process holds after it. *)
<1>3. ASSUME NEW r \in Request, outcome[r] = "resume", cause[r] # "timeout"
      PROVE  \E q \in held' : verdict'[q] = "allow" /\ Related(r, q)'
  <2>1. PICK q \in held : verdict[q] = "allow" /\ Related(r, q)
    BY <1>3 DEF FailClosed
  <2>2. r \in held
    BY <1>2, <1>3
  <2>3. QED
    BY <1>1, <2>1, <2>2 DEF Related
<1>4. CASE UNCHANGED <<outcome, cause>>
  BY <1>3, <1>4 DEF FailClosed
<1>5. ASSUME NEW r \in Request, NEW why \in Cause, StopWaiting(r, why)
      PROVE  FailClosed'
  <2>1. outcome[r] = "none"
    BY <1>5 DEF StopWaiting, OutcomeLate
  <2>2. outcome' = outcome /\ \A q \in Request : q # r => cause'[q] = cause[q]
    BY <1>0, <1>5 DEF StopWaiting
  <2>3. QED
    BY <1>3, <2>1, <2>2 DEF FailClosed
<1>6. ASSUME NEW r \in Request, EarlyCheck(r)
      PROVE  FailClosed'
  <2>1. ASSUME outcome'[r] = "resume"
        PROVE  UNCHANGED <<outcome, cause>> \/ \E q \in held : verdict[q] = "allow" /\ q = pid[r]
    <3>1. ASSUME NEW i \in First(cache, "rid", pid[r]), Decide(r, cache[i].verdict)
          PROVE  \E q \in held : verdict[q] = "allow" /\ q = pid[r]
      <4>1. cache[i] \in Range(cache) /\ cache[i].rid = pid[r]
        BY <1>0, SeqElements DEF First
      <4>2. cache[i].verdict = "allow"
        BY <1>0, <2>1, <3>1 DEF Decide
      <4>3. QED
        BY <4>1, <4>2 DEF CacheAgrees
    <3>2. QED
      BY <1>6, <3>1 DEF EarlyCheck
  <2>2. \A q \in Request : q # r => outcome'[q] = outcome[q] /\ cause'[q] = cause[q]
    BY <1>0, <1>6 DEF EarlyCheck, Decide
  <2>3. r \in held
    BY <1>6 DEF EarlyCheck, Inv, HeldExist
  <2>4. ASSUME NEW q \in held, verdict[q] = "allow", q = pid[r]
        PROVE  q \in held' /\ verdict'[q] = "allow" /\ Related(r, q)'
    BY <1>1, <2>3, <2>4 DEF Related
  <2>5. QED
    BY <1>3, <1>4, <2>1, <2>2, <2>4 DEF FailClosed
<1>7. ASSUME NEW r \in Request, Collect(r)
      PROVE  FailClosed'
  <2>1. ASSUME outcome'[r] = "resume", cause[r] # "timeout"
        PROVE  \E q \in held : verdict[q] = "allow" /\ pid[q] = pid[r]
    <3>1. ASSUME NEW i \in First(pending, "pid", pid[r]), Decide(r, pending[i].verdict)
          PROVE  \E q \in held : verdict[q] = "allow" /\ pid[q] = pid[r]
      <4>1. pending[i] \in Range(pending) /\ pending[i].pid = pid[r]
        BY <1>0, SeqElements DEF First
      <4>2. pending[i].verdict = "allow"
        BY <1>0, <2>1, <3>1 DEF Decide
      <4>3. QED
        BY <4>1, <4>2 DEF PendingAgrees, Inv, PendingListed
    <3>2. ~ Decide(r, "block")
      BY <1>0, <2>1 DEF Decide
    <3>3. QED
      BY <1>7, <2>1, <3>1, <3>2 DEF Collect
  <2>2. cause' = cause /\ \A q \in Request : q # r => outcome'[q] = outcome[q]
    BY <1>0, <1>7 DEF Collect, Decide
  <2>3. r \in held
    BY <1>7 DEF Collect, Inv, HeldExist
  <2>4. ASSUME NEW q \in held, verdict[q] = "allow", pid[q] = pid[r]
        PROVE  q \in held' /\ verdict'[q] = "allow" /\ Related(r, q)'
    BY <1>1, <2>3, <2>4 DEF Related
  <2>5. QED
    BY <1>3, <2>1, <2>2, <2>4 DEF FailClosed
<1>8. QED
  BY <1>4, <1>5, <1>6, <1>7, DecisionSteps

(* The gate fails closed: a process that is let go without a timeout was allowed,
   under its PID, by the agent. *)
THEOREM FailsClosed == Spec => []FailClosed
<1> DEFINE FInv == Inv /\ OutcomeLate /\ PendingAgrees /\ CacheAgrees /\ FailClosed
<1>1. Init => FInv
  <2> SUFFICES ASSUME Init
               PROVE  FInv
    OBVIOUS
  <2>1. OutcomeLate /\ FailClosed
    BY DEF Init, OutcomeLate, FailClosed
  <2>2. PendingAgrees /\ CacheAgrees
    BY DEF Init, PendingAgrees, CacheAgrees, Range
  <2>3. QED
    BY <2>1, <2>2, InitInv
<1>2. FInv /\ [Next]_vars => FInv'
  BY InvStep, OutcomeLateStep, PendingAgreesStep, CacheAgreesStep, FailClosedStep
<1>3. FInv => FailClosed
  OBVIOUS
<1> HIDE DEF FInv
<1>4. QED
  BY <1>1, <1>2, <1>3, PTL DEF Spec

-----------------------------------------------------------------------------
(* The verdict cache. *)

CacheListed == Distinct(cache) /\ Len(cache) <= MaxCache

(* Every step keeps CacheListed. *)
LEMMA CacheListedStep ==
  ASSUME Inv, CacheListed, [Next]_vars
  PROVE  CacheListed'
<1>1. ASSUME NEW r \in Request, EarlyCheck(r)
      PROVE  CacheListed'
  <2>1. cache \in Seq(Entry) /\ MaxCache \in Nat
    BY ConstantsAssumption DEF Inv, TypeOK, Entry, ConstantsAssumption
  <2>2. ASSUME NEW i \in First(cache, "rid", pid[r]), cache' = RemoveAt(cache, i)
        PROVE  CacheListed'
    <3>1. i \in DOMAIN cache
      BY DEF First
    <3>2. Distinct(cache') /\ Len(cache') = Len(cache) - 1
      BY <2>1, <2>2, <3>1, RemoveAtProperties, RemoveAtDistinct DEF CacheListed
    <3>3. Len(cache) \in Nat
      BY <2>1, LenProperties
    <3>4. QED
      BY <2>1, <3>2, <3>3 DEF CacheListed, Distinct
  <2>3. CASE UNCHANGED cache
    BY <2>3 DEF CacheListed, Distinct
  <2>4. QED
    BY <1>1, <2>2, <2>3 DEF EarlyCheck
<1>2. ASSUME NEW r \in Request, CacheVerdict(r)
      PROVE  CacheListed'
  <2>1. Distinct(cache') /\ Len(cache') <= MaxCache
    BY <1>2, CacheVerdictResult DEF Inv, CacheListed
  <2>2. QED
    BY <2>1 DEF CacheListed, Distinct
<1>3. CASE UNCHANGED cache
  BY <1>3 DEF CacheListed, Distinct
<1>4. QED
  BY <1>1, <1>2, <1>3, CacheSteps

(* The verdict cache never outgrows MAX_VERDICT_CACHE_SIZE, and says of each
   request only what the agent said. *)
THEOREM CacheIsFaithful == Spec => []CacheFaithful
<1> DEFINE CInv == Inv /\ CacheAgrees /\ CacheListed
<1>1. Init => CInv
  <2> SUFFICES ASSUME Init
               PROVE  CInv
    OBVIOUS
  <2>1. cache = << >> /\ MaxCache \in Nat
    BY ConstantsAssumption DEF Init, ConstantsAssumption
  <2>2. CacheAgrees /\ CacheListed
    BY <2>1 DEF CacheAgrees, CacheListed, Distinct, Range
  <2>3. QED
    BY <2>2, InitInv
<1>2. CInv /\ [Next]_vars => CInv'
  BY InvStep, CacheAgreesStep, CacheListedStep
<1>3. CInv => CacheFaithful
  BY DEF CacheAgrees, CacheListed, CacheFaithful, Distinct, Range
<1> HIDE DEF CInv
<1>4. QED
  BY <1>1, <1>2, <1>3, PTL DEF Spec

-----------------------------------------------------------------------------
(* From here on: the gate as FreezeGate promises it. *)

(* Nobody can be taken for request r. *)
Alone(r) == \A q \in Created \ {r} : ~Related(r, q)

-----------------------------------------------------------------------------
(* What the invariant of the lists leaves out. *)

(* Every request that has been created has a PID. *)
PidGiven == \A r \in Request : pid[r] # NoPid <=> r < nextRequest

(* Cause and outcome are set on the way of an APC, and not before. *)
Progress ==
  \A r \in Request :
    /\ stage[r] \in {"absent", "listed", "queued", "waiting", "reclaimed", "gone"} =>
         cause[r] = "none" /\ outcome[r] = "none"
    /\ stage[r] = "hit" => cause[r] = "early"
    /\ stage[r] = "woken" => cause[r] \in {"verdict", "interrupted", "timeout"}
    /\ stage[r] \in {"hit", "decided"} => outcome[r] # "none"

Awaiting == {"listed", "queued", "waiting", "woken"}

(* The scan of an APC on its way to its decision stays listed, unless somebody
   who is taken for it removes it. *)
ScanListed ==
  driver = "loaded" =>
    \A r \in Request : stage[r] \in Awaiting /\ Alone(r) =>
      \E s \in Range(pending) : s.rid = r

(* The event of an APC is set by its verdict, which stands in its scan. *)
Told ==
  driver = "loaded" =>
    \A r \in Request :
      /\ cause[r] = "verdict" => r \in signaled
      /\ r \in signaled =>
           /\ stage[r] # "absent"
           /\ verdict[r] # "none"
           /\ \A s \in Range(pending) : s.rid = r => s.verdict = verdict[r]

(* Nobody is killed without a reason. *)
KillReason ==
  \A r \in Request : outcome[r] = "kill" =>
    /\ cause[r] # "timeout"
    /\ \/ driver # "loaded"
       \/ cause[r] = "interrupted"
       \/ verdict[r] = "block"
       \/ ~Alone(r)

GInv ==
  /\ Inv /\ OutcomeLate /\ PendingAgrees /\ CacheAgrees /\ FailClosed
  /\ PidGiven /\ Progress /\ ScanListed /\ Told /\ KillReason /\ VerdictHonoured

-----------------------------------------------------------------------------
(* Steps that change a list, seen from the requests that stand in it. *)

(* RemoveAt takes out nothing but its element. *)
LEMMA RemoveAtLeaves ==
  ASSUME NEW S, NEW s \in Seq(S), NEW i \in DOMAIN s
  PROVE  Range(s) \subseteq Range(RemoveAt(s, i)) \cup {s[i]}
<1> DEFINE t == RemoveAt(s, i)
<1>1. /\ DOMAIN s = 1 .. Len(s) /\ Len(s) \in Nat
      /\ t \in Seq(S)
      /\ Len(t) = Len(s) - 1
      /\ \A j \in 1 .. Len(s) - 1 : t[j] = s[IF j < i THEN j ELSE j + 1]
  BY LenProperties, RemoveAtProperties
<1>2. DOMAIN t = 1 .. Len(s) - 1
  BY <1>1, LenProperties
<1> HIDE DEF t
<1>3. \A k \in DOMAIN s : k # i => \E j \in DOMAIN t : t[j] = s[k]
  <2>1. ASSUME NEW k \in DOMAIN s, k < i PROVE k \in DOMAIN t /\ t[k] = s[k]
    BY <1>1, <1>2, <2>1
  <2>2. ASSUME NEW k \in DOMAIN s, k > i PROVE k - 1 \in DOMAIN t /\ t[k - 1] = s[k]
    BY <1>1, <1>2, <2>2
  <2>3. QED
    BY <1>1, <2>1, <2>2
<1>4. QED
  BY <1>3 DEF Range, t

(* The elements of PENDING_SCANS are scans of requests. *)
LEMMA PendingType ==
  ASSUME Inv
  PROVE  /\ pending \in Seq(Scan)
         /\ \A s \in Range(pending) : s \in Scan /\ s.rid \in Request
<1>1. pending \in Seq(Scan)
  BY DEF Inv, TypeOK, Scan
<1>2. Range(pending) \subseteq Scan
  BY <1>1, SeqElements
<1>3. QED
  BY <1>1, <1>2 DEF Scan

(* thread_notify_routine freezes a request of its own, or nobody. *)
LEMMA NewScanListed ==
  ASSUME Inv, NEW h \in Request, ThreadNotify(h)
  PROVE  \/ UNCHANGED <<pending, stage>>
         \/ \E r \in held : /\ stage[r] = "absent"
                            /\ NewScan(r) \in Scan
                            /\ stage' = [stage EXCEPT ![r] = "listed"]
                            /\ pending' = Append(pending, NewScan(r))
                            /\ Range(pending') = Range(pending) \cup {NewScan(r)}
<1>1. ASSUME NEW i \in First(target, "pid", pid[h]), ListScan(h, target[i].rid)
      PROVE  \E r \in held : /\ stage[r] = "absent"
                             /\ NewScan(r) \in Scan
                             /\ stage' = [stage EXCEPT ![r] = "listed"]
                             /\ pending' = Append(pending, NewScan(r))
                             /\ Range(pending') = Range(pending) \cup {NewScan(r)}
  <2> DEFINE r == target[i].rid
  <2>1. target[i] \in Target /\ target[i] \in Range(target)
    BY SeqElements DEF Inv, TypeOK, Target, First
  <2>2. r \in Request /\ r \in held /\ pid[r] \in Pid /\ stage[r] = "absent"
    BY <2>1 DEF Inv, TargetsListed, Target
  <2>3. pending' = Append(pending, NewScan(r)) /\ stage' = [stage EXCEPT ![r] = "listed"]
    BY <1>1 DEF ListScan, Advance
  <2> HIDE DEF r
  <2>4. NewScan(r) \in Scan
    BY <2>2 DEF NewScan, Scan, Answer
  <2>5. Range(pending') = Range(pending) \cup {NewScan(r)}
    BY <2>3, <2>4, PendingType, AppendRange
  <2>6. QED
    BY <2>2, <2>3, <2>4, <2>5
<1>2. QED
  BY <1>1 DEF ThreadNotify

(* A PID once given stays with its request, and requests are only added. *)
LEMMA CreatedLast ==
  ASSUME Inv, [Next]_vars
  PROVE  \A q \in Created : q \in Created' /\ pid'[q] = pid[q]
<1>1. ASSUME NEW p \in Pid, NEW fast \in BOOLEAN, CreateProcess(p, fast)
      PROVE  \A q \in Created : q \in Created' /\ pid'[q] = pid[q]
  <2>1. /\ nextRequest \in Request /\ nextRequest' = nextRequest + 1
        /\ pid' = [pid EXCEPT ![nextRequest] = p]
    BY <1>1, CreateRequest
  <2>2. /\ \A q \in Request : q \in Int
        /\ pid \in [Request -> Pid \cup {NoPid}]
    BY ConstantsAssumption DEF Inv, TypeOK, Request, ConstantsAssumption
  <2>3. QED
    BY <2>1, <2>2 DEF Created
<1>2. ASSUME NEW h \in Request, ThreadNotify(h)
      PROVE  UNCHANGED <<nextRequest, pid>>
  BY <1>2 DEF ThreadNotify
<1>3. QED
  BY <1>1, <1>2, QuietSteps DEF Inv, Quiet, Created

(* Who is alone after a step was alone before. *)
LEMMA AloneBefore ==
  ASSUME Inv, [Next]_vars, NEW r \in held, Alone(r)'
  PROVE  Alone(r)
<1>1. r \in Created
  BY DEF Inv, TypeOK, HeldExist, Created
<1>2. QED
  BY <1>1, CreatedLast DEF Alone, Related

-----------------------------------------------------------------------------
(* Every step keeps the parts of the invariant. *)

(* Every step keeps PidGiven: process_notify_routine gives the PID. *)
LEMMA PidGivenStep ==
  ASSUME Inv, PidGiven, [Next]_vars
  PROVE  PidGiven'
<1>1. ASSUME NEW p \in Pid, NEW fast \in BOOLEAN, CreateProcess(p, fast)
      PROVE  PidGiven'
  <2>1. /\ nextRequest \in Request /\ nextRequest' = nextRequest + 1
        /\ pid' = [pid EXCEPT ![nextRequest] = p]
    BY <1>1, CreateRequest
  <2>2. /\ \A q \in Request : q \in Int
        /\ p # NoPid
        /\ pid \in [Request -> Pid \cup {NoPid}]
    BY ConstantsAssumption DEF Inv, TypeOK, Request, ConstantsAssumption, NoPid
  <2>3. QED
    BY <2>1, <2>2 DEF PidGiven
<1>2. ASSUME NEW h \in Request, ThreadNotify(h)
      PROVE  UNCHANGED <<nextRequest, pid>>
  BY <1>2 DEF ThreadNotify
<1>3. QED
  BY <1>1, <1>2, QuietSteps DEF Inv, Quiet, PidGiven

(* Every step keeps Progress: one action per part of the way of an APC. *)
LEMMA ProgressStep ==
  ASSUME Inv, OutcomeLate, Progress, [Next]_vars
  PROVE  Progress'
<1>0. /\ stage \in [Request -> Stage]
      /\ outcome \in [Request -> {"none", "resume", "kill"}]
      /\ cause \in [Request -> Cause]
  BY DEF Inv, TypeOK
<1>1. ASSUME UNCHANGED <<stage, cause, outcome>>
      PROVE  Progress'
  BY <1>1 DEF Progress
<1>2. ASSUME NEW r \in Request, InjectStep(r) \/ Rundown(r)
      PROVE  Progress'
  BY <1>0, <1>2
  DEF InjectStep, InsertApc, InsertFails, Reclaim, Rundown, Advance, Progress
<1>3. ASSUME NEW r \in Request, EarlyCheck(r)
      PROVE  Progress'
  BY <1>0, <1>3 DEF EarlyCheck, Decide, Advance, Progress
<1>4. ASSUME NEW r \in Request, Wake(r) \/ Interrupt(r) \/ Timeout(r)
      PROVE  Progress'
  BY <1>0, <1>4 DEF Wake, Interrupt, Timeout, StopWaiting, Advance, Progress
<1>5. ASSUME NEW r \in Request, Collect(r)
      PROVE  Progress'
  BY <1>0, <1>5 DEF Collect, Decide, Advance, Progress
<1>6. ASSUME NEW r \in Request, EarlyUnlist(r) \/ Release(r) \/ Terminate(r)
      PROVE  Progress'
  BY <1>0, <1>6 DEF EarlyUnlist, Release, Terminate, Advance, Progress
<1>7. ASSUME NEW h \in Request, ThreadNotify(h)
      PROVE  Progress'
  <2>1. UNCHANGED <<cause, outcome>>
    BY <1>7 DEF ThreadNotify
  <2>2. QED
    BY <1>0, <1>1, <1>7, <2>1, NewScanListed DEF Progress, Inv, TypeOK
<1>8. ASSUME NEW r \in Request,
             Die(r) \/ Exit(r) \/ CacheVerdict(r) \/ \E v \in Answer : SendVerdict(r, v)
      PROVE  Progress'
  BY <1>1, <1>8 DEF Die, Exit, CacheVerdict, SendVerdict, frozen
<1>9. ASSUME NEW p \in Pid, NEW fast \in BOOLEAN, CreateProcess(p, fast)
      PROVE  Progress'
  BY <1>1, <1>9 DEF CreateProcess, frozen
<1>10. CASE BeginUnload \/ FinishUnload \/ UNCHANGED vars
  BY <1>1, <1>10 DEF BeginUnload, FinishUnload, vars, frozen
<1>11. QED
  BY <1>2, <1>3, <1>4, <1>5, <1>6, <1>7, <1>8, <1>9, <1>10 DEF Next, ApcStep

(* A scan leaves PENDING_SCANS for an APC of its PID that is done with it. *)
Stays(s) ==
  \/ \E t \in Range(pending') : t.rid = s.rid
  \/ \E q \in Created : pid[q] = s.pid /\ stage'[q] \in {"gone", "decided"}

(* While the driver runs, a scan leaves the list only for an APC of its PID. *)
LEMMA ScansStay ==
  ASSUME Inv, [Next]_vars, driver' = "loaded"
  PROVE  \A s \in Range(pending) : Stays(s)
<1>1. ASSUME UNCHANGED pending
      PROVE  \A s \in Range(pending) : Stays(s)
  BY <1>1 DEF Stays, Range
<1>2. ASSUME NEW r \in Request, stage[r] # "absent", Unlist(r),
             stage'[r] \in {"gone", "decided"}
      PROVE  \A s \in Range(pending) : Stays(s)
  <2>1. r \in Created
    BY <1>2 DEF Inv, HeldExist, Created
  <2>2. ASSUME NEW i \in First(pending, "pid", pid[r]), pending' = RemoveAt(pending, i)
        PROVE  \A s \in Range(pending) : Stays(s)
    <3>1. i \in DOMAIN pending /\ pending[i].pid = pid[r]
      BY DEF First
    <3>2. Range(pending) \subseteq Range(pending') \cup {pending[i]}
      BY <2>2, <3>1, PendingType, RemoveAtLeaves
    <3>3. QED
      BY <1>2, <2>1, <3>1, <3>2 DEF Stays
  <2>3. QED
    BY <1>1, <1>2, <2>2 DEF Unlist
<1>3. ASSUME NEW r \in Request, Reclaim(r) \/ EarlyUnlist(r) \/ Collect(r)
      PROVE  \A s \in Range(pending) : Stays(s)
  <2>1. stage \in [Request -> Stage]
    BY DEF Inv, TypeOK
  <2>2. stage[r] # "absent" /\ stage'[r] \in {"gone", "decided"}
    BY <1>3, <2>1 DEF Reclaim, EarlyUnlist, Collect, Advance
  <2>3. Unlist(r)
    BY <1>3 DEF Reclaim, EarlyUnlist, Collect, Unlist
  <2>4. QED
    BY <1>2, <2>2, <2>3
<1>4. ASSUME NEW r \in Request, NEW v \in Answer, SendVerdict(r, v)
      PROVE  \A s \in Range(pending) : Stays(s)
  <2>1. ASSUME NEW i \in First(pending, "rid", r),
               pending' = [pending EXCEPT ![i].verdict = v]
        PROVE  \A s \in Range(pending) : Stays(s)
    <3>1. /\ i \in DOMAIN pending
          /\ \A j \in DOMAIN pending : pending[j] \in Scan
      BY PendingType, SeqElements DEF First
    <3> DEFINE m == [pending[i] EXCEPT !.verdict = v]
    <3>2. m.rid = pending[i].rid
      BY <3>1, RevisedTypes
    <3>3. pending' = [pending EXCEPT ![i] = m]
      BY <2>1
    <3> HIDE DEF m
    <3>4. /\ DOMAIN pending' = DOMAIN pending
          /\ \A j \in DOMAIN pending : pending'[j].rid = pending[j].rid
      BY <3>1, <3>2, <3>3
    <3>5. QED
      BY <3>4 DEF Stays, Range
  <2>2. QED
    BY <1>1, <1>4, <2>1 DEF SendVerdict
<1>5. ASSUME NEW h \in Request, ThreadNotify(h)
      PROVE  \A s \in Range(pending) : Stays(s)
  BY <1>1, <1>5, NewScanListed DEF Stays
<1>6. ASSUME NEW r \in Request,
             \/ InsertApc(r) \/ InsertFails(r) \/ Rundown(r) \/ EarlyCheck(r) \/ Wake(r)
             \/ Interrupt(r) \/ Timeout(r) \/ Release(r) \/ Terminate(r)
             \/ Die(r) \/ Exit(r) \/ CacheVerdict(r)
      PROVE  UNCHANGED pending
  BY <1>6
  DEF InsertApc, InsertFails, Rundown, EarlyCheck, Wake, Interrupt, Timeout, StopWaiting,
      Release, Terminate, Die, Exit, CacheVerdict
<1>7. ASSUME NEW p \in Pid, NEW fast \in BOOLEAN, CreateProcess(p, fast)
      PROVE  UNCHANGED pending
  BY <1>7 DEF CreateProcess
<1>8. ~BeginUnload
  BY DEF BeginUnload
<1>9. CASE FinishUnload \/ UNCHANGED vars
  BY <1>1, <1>9 DEF FinishUnload, vars
<1>10. QED
  BY <1>1, <1>3, <1>4, <1>5, <1>6, <1>7, <1>8, <1>9 DEF Next, InjectStep, ApcStep

(* Whoever waits was on its way before, or has just been listed. *)
LEMMA AwaitingBefore ==
  ASSUME Inv, [Next]_vars, NEW r \in Request, stage'[r] \in Awaiting
  PROVE  \/ stage[r] \in Awaiting
         \/ \E s \in Range(pending') : s.rid = r
<1>0. stage \in [Request -> Stage]
  BY DEF Inv, TypeOK
<1>1. ASSUME NEW h \in Request, ThreadNotify(h)
      PROVE  stage[r] \in Awaiting \/ \E s \in Range(pending') : s.rid = r
  <2>1. ASSUME NEW q \in held,
               stage' = [stage EXCEPT ![q] = "listed"],
               Range(pending') = Range(pending) \cup {NewScan(q)}
        PROVE  stage[r] \in Awaiting \/ \E s \in Range(pending') : s.rid = r
    <3>1. NewScan(q).rid = q
      BY DEF NewScan
    <3>2. CASE r = q
      BY <2>1, <3>1, <3>2
    <3>3. CASE r # q
      BY <1>0, <2>1, <3>3
    <3>4. QED
      BY <3>2, <3>3
  <2>2. QED
    BY <1>1, <2>1, NewScanListed
<1>2. ASSUME NEW q \in Request, InjectStep(q) \/ Rundown(q)
      PROVE  stage[r] \in Awaiting
  BY <1>0, <1>2
  DEF InjectStep, InsertApc, InsertFails, Reclaim, Rundown, Advance, Awaiting
<1>3. ASSUME NEW q \in Request, ApcStep(q)
      PROVE  stage[r] \in Awaiting
  BY <1>0, <1>3
  DEF ApcStep, EarlyCheck, EarlyUnlist, Wake, Interrupt, Timeout, StopWaiting, Collect,
      Release, Terminate, Advance, Awaiting
<1>4. ASSUME NEW q \in Request,
             Die(q) \/ Exit(q) \/ CacheVerdict(q) \/ \E v \in Answer : SendVerdict(q, v)
      PROVE  UNCHANGED stage
  BY <1>4 DEF Die, Exit, CacheVerdict, SendVerdict, frozen
<1>5. ASSUME NEW p \in Pid, NEW fast \in BOOLEAN, CreateProcess(p, fast)
      PROVE  UNCHANGED stage
  BY <1>5 DEF CreateProcess, frozen
<1>6. CASE BeginUnload \/ FinishUnload \/ UNCHANGED vars
  BY <1>6 DEF BeginUnload, FinishUnload, vars, frozen
<1>7. QED
  BY <1>1, <1>2, <1>3, <1>4, <1>5, <1>6 DEF Next

(* Every step keeps ScanListed: only a request of the same PID takes a scan away. *)
LEMMA ScanListedStep ==
  ASSUME Inv, ScanListed, [Next]_vars
  PROVE  ScanListed'
<1> SUFFICES ASSUME driver' = "loaded",
                    NEW r \in Request, stage'[r] \in Awaiting, Alone(r)',
                    ~ \E t \in Range(pending') : t.rid = r
             PROVE  FALSE
  BY DEF ScanListed
<1>1. driver = "loaded"
  BY DriverSteps DEF BeginUnload, FinishUnload
<1>2. stage[r] \in Awaiting
  BY AwaitingBefore
<1>3. r \in held /\ r \in Created
  BY <1>2 DEF Awaiting, Inv, HeldExist, Created
<1>4. Alone(r)
  BY <1>3, AloneBefore
<1>5. PICK s \in Range(pending) : s.rid = r
  BY <1>1, <1>2, <1>4 DEF ScanListed
<1>6. s.pid = pid[r]
  BY <1>5 DEF Inv, PendingListed
<1>7. PICK q \in Created : pid[q] = s.pid /\ stage'[q] \in {"gone", "decided"}
  BY <1>5, ScansStay DEF Stays
<1>8. q # r
  BY <1>7 DEF Awaiting
<1>9. QED
  BY <1>4, <1>6, <1>7, <1>8 DEF Alone, Related

(* The event of an APC is set by apply_verdict, or by driver_unload. *)
LEMMA SignalSteps ==
  ASSUME [Next]_vars
  PROVE  \/ BeginUnload
         \/ \E r \in Request, v \in Answer : SendVerdict(r, v)
         \/ UNCHANGED signaled
<1>1. ASSUME NEW r \in Request,
             \/ ThreadNotify(r) \/ Die(r) \/ Exit(r) \/ InjectStep(r) \/ Rundown(r)
             \/ CacheVerdict(r)
      PROVE  UNCHANGED signaled
  BY <1>1
  DEF ThreadNotify, Die, Exit, InjectStep, InsertApc, InsertFails, Reclaim, Rundown,
      CacheVerdict
<1>2. ASSUME NEW r \in Request, ApcStep(r)
      PROVE  UNCHANGED signaled
  BY <1>2
  DEF ApcStep, EarlyCheck, EarlyUnlist, Wake, Interrupt, Timeout, StopWaiting,
      Collect, Release, Terminate
<1>3. ASSUME NEW p \in Pid, NEW fast \in BOOLEAN, CreateProcess(p, fast)
      PROVE  UNCHANGED signaled
  BY <1>3 DEF CreateProcess
<1>4. CASE FinishUnload \/ UNCHANGED vars
  BY <1>4 DEF FinishUnload, vars
<1>5. QED
  BY <1>1, <1>2, <1>3, <1>4 DEF Next

(* Steps that set a cause, and which cause they set. *)
LEMMA CauseSteps ==
  ASSUME Inv, [Next]_vars, NEW r \in Request, cause'[r] # cause[r]
  PROVE  EarlyCheck(r) \/ Wake(r) \/ Interrupt(r) \/ Timeout(r)
<1>0. cause \in [Request -> Cause]
  BY DEF Inv, TypeOK
<1>1. ASSUME NEW q \in Request,
             \/ ThreadNotify(q) \/ Die(q) \/ Exit(q) \/ InjectStep(q) \/ Rundown(q)
             \/ CacheVerdict(q) \/ \E v \in Answer : SendVerdict(q, v)
      PROVE  UNCHANGED cause
  BY <1>1
  DEF ThreadNotify, Die, Exit, InjectStep, InsertApc, InsertFails, Reclaim, Rundown,
      CacheVerdict, SendVerdict, frozen
<1>2. ASSUME NEW q \in Request, EarlyUnlist(q) \/ Collect(q) \/ Release(q) \/ Terminate(q)
      PROVE  UNCHANGED cause
  BY <1>2 DEF EarlyUnlist, Collect, Release, Terminate
<1>3. ASSUME NEW q \in Request, EarlyCheck(q) \/ Wake(q) \/ Interrupt(q) \/ Timeout(q)
      PROVE  q = r
  BY <1>0, <1>3 DEF EarlyCheck, Wake, Interrupt, Timeout, StopWaiting
<1>4. ASSUME NEW p \in Pid, NEW fast \in BOOLEAN, CreateProcess(p, fast)
      PROVE  UNCHANGED cause
  BY <1>4 DEF CreateProcess, frozen
<1>5. CASE BeginUnload \/ FinishUnload \/ UNCHANGED vars
  BY <1>5 DEF BeginUnload, FinishUnload, vars, frozen
<1>6. QED
  BY <1>1, <1>2, <1>3, <1>4, <1>5 DEF Next, ApcStep

(* apply_verdict leaves its verdict in every scan of the request. *)
LEMMA SendMarks ==
  ASSUME Inv, NEW r \in Request, NEW v \in Answer, SendVerdict(r, v)
  PROVE  /\ verdict' = [verdict EXCEPT ![r] = v]
         /\ \A q \in signaled' : q \in signaled \/ (q = r /\ stage[r] # "absent")
         /\ \A s \in Range(pending') : s.rid = r => s.verdict = v
<1>1. pending \in Seq(Scan) /\ Distinct(pending)
  BY PendingType DEF Inv, PendingListed
<1>2. CASE First(pending, "rid", r) = {}
  <2>1. \A s \in Range(pending) : s.rid # r
    BY <1>1, <1>2, FirstExists DEF Range
  <2>2. QED
    BY <1>2, <2>1 DEF SendVerdict, Range
<1>3. ASSUME NEW i \in First(pending, "rid", r),
             pending' = [pending EXCEPT ![i].verdict = v],
             signaled' = signaled \cup {r}
      PROVE  /\ \A q \in signaled' : q \in signaled \/ (q = r /\ stage[r] # "absent")
             /\ \A s \in Range(pending') : s.rid = r => s.verdict = v
  <2>1. /\ i \in DOMAIN pending /\ pending[i].rid = r
        /\ \A j \in DOMAIN pending : pending[j] \in Scan /\ pending[j] \in Range(pending)
    BY <1>1, SeqElements DEF First
  <2> DEFINE m == [pending[i] EXCEPT !.verdict = v]
  <2>2. m.verdict = v
    BY <2>1, RevisedTypes
  <2>3. pending' = [pending EXCEPT ![i] = m]
    BY <1>3
  <2> HIDE DEF m
  <2>4. /\ DOMAIN pending' = DOMAIN pending
        /\ \A j \in DOMAIN pending : pending'[j] = IF j = i THEN m ELSE pending[j]
    BY <2>1, <2>3
  <2>5. \A j \in DOMAIN pending : j # i => pending[j].rid # r
    BY <1>1, <2>1 DEF Distinct
  <2>6. stage[r] # "absent"
    BY <2>1 DEF Inv, PendingListed
  <2>7. QED
    BY <1>3, <2>2, <2>4, <2>5, <2>6 DEF Range
<1>4. QED
  BY <1>2, <1>3 DEF SendVerdict

(* A request that stood in a list is never absent again. *)
LEMMA NeverAbsent ==
  ASSUME Inv, [Next]_vars, NEW r \in Request, stage[r] # "absent"
  PROVE  stage'[r] # "absent"
<1>1. ASSUME NEW p \in Pid, NEW fast \in BOOLEAN, CreateProcess(p, fast)
      PROVE  UNCHANGED stage
  BY <1>1 DEF CreateProcess, frozen
<1>2. ASSUME NEW h \in Request, ThreadNotify(h)
      PROVE  stage'[r] # "absent"
  BY <1>2, NewScanListed DEF Inv, TypeOK
<1>3. QED
  BY <1>1, <1>2, QuietSteps DEF Inv, Quiet

(* Every step keeps Told: apply_verdict marks the scan before it sets the event. *)
LEMMA ToldStep ==
  ASSUME Inv, Told, [Next]_vars
  PROVE  Told'
<1> SUFFICES ASSUME driver' = "loaded", NEW r \in Request
             PROVE  /\ cause'[r] = "verdict" => r \in signaled'
                    /\ r \in signaled' =>
                         /\ stage'[r] # "absent"
                         /\ verdict'[r] # "none"
                         /\ \A s \in Range(pending') : s.rid = r => s.verdict = verdict'[r]
  BY DEF Told
<1>1. driver = "loaded" /\ ~BeginUnload
  BY DriverSteps DEF BeginUnload, FinishUnload
<1>2. signaled \subseteq signaled'
  BY <1>1, SignalSteps DEF SendVerdict
<1>3. cause'[r] = "verdict" => r \in signaled'
  <2>1. CASE cause'[r] = cause[r]
    BY <1>1, <1>2, <2>1 DEF Told
  <2>2. ASSUME EarlyCheck(r) \/ Interrupt(r) \/ Timeout(r)
        PROVE  cause'[r] = cause[r] \/ cause'[r] # "verdict"
    BY <2>2 DEF EarlyCheck, Interrupt, Timeout, StopWaiting, Inv, TypeOK
  <2>3. CASE Wake(r)
    BY <1>2, <2>3 DEF Wake
  <2>4. QED
    BY <2>1, <2>2, <2>3, CauseSteps
<1>4. ASSUME r \in signaled
      PROVE  /\ stage'[r] # "absent"
             /\ verdict'[r] # "none"
             /\ \A s \in Range(pending') : s.rid = r => s.verdict = verdict'[r]
  <2>1. stage[r] # "absent" /\ verdict[r] # "none"
    BY <1>1, <1>4 DEF Told
  <2>2. stage'[r] # "absent" /\ verdict'[r] = verdict[r]
    BY <2>1, NeverAbsent, Lasting
  <2>3. \A s \in Range(pending) : s.rid = r => s.verdict = verdict[r]
    BY <1>1, <1>4 DEF Told
  <2>4. CASE PendingKept
    BY <2>1, <2>2, <2>3, <2>4 DEF PendingKept
  <2>5. ASSUME NEW h \in Request, ThreadNotify(h)
        PROVE  \A s \in Range(pending') : s.rid = r => s.verdict = verdict'[r]
    <3>1. CASE UNCHANGED pending
      BY <2>2, <2>3, <3>1 DEF Range
    <3>2. ASSUME NEW q \in held, stage[q] = "absent",
                 Range(pending') = Range(pending) \cup {NewScan(q)}
          PROVE  \A s \in Range(pending') : s.rid = r => s.verdict = verdict'[r]
      <4>1. NewScan(q).rid # r
        BY <2>1, <3>2 DEF NewScan
      <4>2. QED
        BY <2>2, <2>3, <3>2, <4>1
    <3>3. QED
      BY <2>5, <3>1, <3>2, NewScanListed
  <2>6. QED
    BY <2>1, <2>2, <2>4, <2>5, KeptByQuiet
<1>5. ASSUME NEW q \in Request, NEW v \in Answer, SendVerdict(q, v),
             r \notin signaled, r \in signaled'
      PROVE  /\ stage'[r] # "absent"
             /\ verdict'[r] # "none"
             /\ \A s \in Range(pending') : s.rid = r => s.verdict = verdict'[r]
  <2>1. r = q /\ stage[r] # "absent"
    BY <1>5, SendMarks
  <2>2. verdict'[r] = v
    BY <1>5, <2>1, SendMarks DEF Inv, TypeOK
  <2>3. QED
    BY <1>5, <2>1, <2>2, SendMarks, NeverAbsent DEF Answer
<1>6. QED
  BY <1>1, <1>3, <1>4, <1>5, SignalSteps

-----------------------------------------------------------------------------
(* What an APC decides, and that nothing makes it wrong afterwards. *)

Reason(r) ==
  outcome[r] = "kill" =>
    /\ cause[r] # "timeout"
    /\ \/ driver # "loaded"
       \/ cause[r] = "interrupted"
       \/ verdict[r] = "block"
       \/ ~Alone(r)

Honours(r) ==
  driver = "loaded" /\ cause[r] = "verdict" /\ outcome[r] # "none" /\ Alone(r) =>
    outcome[r] = IF verdict[r] = "allow" THEN "resume" ELSE "kill"

(* A decision taken earlier stays justified. *)
LEMMA OldDecision ==
  ASSUME Inv, OutcomeLate, Told, [Next]_vars,
         NEW r \in Request, Reason(r), Honours(r), outcome[r] # "none",
         outcome'[r] = outcome[r], cause'[r] = cause[r]
  PROVE  Reason(r)' /\ Honours(r)'
<1>1. r \in held
  BY DEF OutcomeLate, Inv, HeldExist
<1>2. Alone(r)' => Alone(r)
  BY <1>1, AloneBefore
<1>3. driver' = "loaded" => driver = "loaded"
  BY DriverSteps DEF BeginUnload, FinishUnload
<1>4. verdict[r] # "none" => verdict'[r] = verdict[r]
  BY Lasting
<1>5. Reason(r)'
  BY <1>2, <1>3, <1>4 DEF Reason
<1>6. driver = "loaded" /\ cause[r] = "verdict" => verdict[r] # "none"
  BY DEF Told
<1>7. Honours(r)'
  BY <1>2, <1>3, <1>4, <1>6 DEF Honours
<1>8. QED
  BY <1>5, <1>7

(* check_early_verdict kills for a verdict of the request whose id is the PID. *)
LEMMA EarlyDecision ==
  ASSUME Inv, CacheAgrees, Progress, [Next]_vars, NEW r \in Request, EarlyCheck(r)
  PROVE  Reason(r)' /\ Honours(r)'
<1>0. /\ cause \in [Request -> Cause]
      /\ outcome \in [Request -> {"none", "resume", "kill"}]
      /\ cache \in Seq(Entry)
  BY DEF Inv, TypeOK, Entry
<1>1. r \in held
  BY DEF EarlyCheck, Inv, HeldExist
<1>2. cause[r] = "none" /\ outcome[r] = "none"
  BY DEF EarlyCheck, Progress
<1>3. cause'[r] \in {"none", "early"}
  BY <1>0, <1>2 DEF EarlyCheck
<1>4. ASSUME NEW i \in First(cache, "rid", pid[r]), Decide(r, cache[i].verdict),
             outcome'[r] = "kill", Alone(r)
      PROVE  verdict'[r] = "block"
  <2>1. cache[i] \in Range(cache) /\ cache[i] \in Entry /\ cache[i].rid = pid[r]
    BY <1>0, SeqElements DEF First
  <2>2. cache[i].rid \in held /\ verdict[cache[i].rid] = cache[i].verdict
    BY <2>1 DEF CacheAgrees
  <2>3. cache[i].verdict = "block"
    BY <1>0, <1>4, <2>1 DEF Decide, Entry, Answer
  <2>4. cache[i].rid \in Created
    BY <2>2 DEF Inv, TypeOK, HeldExist, Created
  <2>5. cache[i].rid = r
    BY <1>4, <2>1, <2>4 DEF Alone, Related
  <2>6. QED
    BY <2>2, <2>3, <2>5 DEF EarlyCheck, agent
<1>5. outcome'[r] = "kill" /\ Alone(r) => verdict'[r] = "block"
  BY <1>2, <1>4 DEF EarlyCheck
<1>6. QED
  BY <1>1, <1>3, <1>5, AloneBefore DEF Reason, Honours

(* Collect acts on the scan of its own request, if nobody can be taken for it. *)
LEMMA CollectDecision ==
  ASSUME Inv, Progress, ScanListed, Told, [Next]_vars, NEW r \in Request, Collect(r)
  PROVE  Reason(r)' /\ Honours(r)'
<1>0. /\ outcome \in [Request -> {"none", "resume", "kill"}]
      /\ verdict \in [Request -> Answer \cup {"none"}]
      /\ pending \in Seq(Scan)
  BY DEF Inv, TypeOK, Scan
<1>1. r \in held /\ cause[r] \in {"verdict", "interrupted", "timeout"}
  BY DEF Collect, Inv, HeldExist, Progress
<1>2. UNCHANGED <<cause, verdict, driver>>
  BY DEF Collect, agent
<1>3. CASE cause[r] = "timeout"
  <2>1. outcome'[r] = "resume"
    BY <1>0, <1>3 DEF Collect, Decide
  <2>2. QED
    BY <1>2, <1>3, <2>1 DEF Reason, Honours
<1>4. CASE cause[r] = "interrupted"
  BY <1>2, <1>4 DEF Reason, Honours
<1>5. ASSUME cause[r] = "verdict", driver = "loaded", Alone(r)
      PROVE  outcome'[r] = IF verdict[r] = "allow" THEN "resume" ELSE "kill"
  <2>1. PICK s \in Range(pending) : s.rid = r
    BY <1>5 DEF ScanListed, Collect, Awaiting
  <2>2. s.pid = pid[r]
    BY <2>1 DEF Inv, PendingListed
  <2>3. First(pending, "pid", pid[r]) # {}
    BY <1>0, <2>1, <2>2, FirstExists DEF Range
  <2>4. PICK i \in First(pending, "pid", pid[r]) : Decide(r, pending[i].verdict)
    BY <1>5, <2>3 DEF Collect
  <2>5. pending[i] \in Range(pending) /\ pending[i].pid = pid[r]
    BY <1>0, SeqElements DEF First
  <2>6. pending[i].rid \in held /\ pid[pending[i].rid] = pid[r]
    BY <2>5 DEF Inv, PendingListed
  <2>7. pending[i].rid \in Created
    BY <2>6 DEF Inv, TypeOK, HeldExist, Created
  <2>8. pending[i].rid = r
    BY <1>5, <2>6, <2>7 DEF Alone, Related
  <2>9. pending[i].verdict = verdict[r]
    BY <1>5, <2>5, <2>8 DEF Told
  <2>10. QED
    BY <1>0, <2>4, <2>9 DEF Decide
<1>6. CASE cause[r] = "verdict"
  <2>1. Alone(r)' => Alone(r)
    BY <1>1, AloneBefore
  <2>2. driver = "loaded" => verdict[r] \in Answer
    BY <1>0, <1>6 DEF Told
  <2>3. QED
    BY <1>2, <1>5, <1>6, <2>1, <2>2 DEF Reason, Honours, Answer
<1>7. QED
  BY <1>1, <1>3, <1>4, <1>6

(* Every step keeps KillReason and VerdictHonoured. *)
LEMMA DecisionsStep ==
  ASSUME GInv, [Next]_vars
  PROVE  KillReason' /\ VerdictHonoured'
<1> USE DEF GInv
<1>0. /\ outcome \in [Request -> {"none", "resume", "kill"}]
      /\ cause \in [Request -> Cause]
  BY DEF Inv, TypeOK
<1>1. SUFFICES ASSUME NEW r \in Request PROVE Reason(r)' /\ Honours(r)'
  BY DEF KillReason, VerdictHonoured, Reason, Honours, Alone
<1>2. Reason(r) /\ Honours(r)
  BY DEF KillReason, VerdictHonoured, Reason, Honours, Alone
<1>3. CASE outcome'[r] = "none"
  BY <1>3 DEF Reason, Honours
<1>4. CASE outcome[r] # "none" /\ outcome'[r] = outcome[r] /\ cause'[r] = cause[r]
  BY <1>2, <1>4, OldDecision
<1>5. CASE EarlyCheck(r)
  BY <1>5, EarlyDecision
<1>6. CASE Collect(r)
  BY <1>6, CollectDecision
<1>7. ASSUME NEW q \in Request, EarlyCheck(q) \/ Collect(q), q # r
      PROVE  outcome'[r] = outcome[r] /\ cause'[r] = cause[r]
  BY <1>0, <1>7 DEF EarlyCheck, Collect, Decide
<1>8. ASSUME NEW q \in Request, NEW why \in Cause, StopWaiting(q, why)
      PROVE  \/ outcome'[r] = "none"
             \/ outcome'[r] = outcome[r] /\ cause'[r] = cause[r]
  BY <1>0, <1>8 DEF StopWaiting, OutcomeLate
<1>9. QED
  BY <1>3, <1>4, <1>5, <1>6, <1>7, <1>8, DecisionSteps

(* Every step keeps the invariant. *)
LEMMA GInvStep ==
  ASSUME GInv, [Next]_vars
  PROVE  GInv'
  BY InvStep, OutcomeLateStep, PendingAgreesStep, CacheAgreesStep, FailClosedStep,
     PidGivenStep, ProgressStep, ScanListedStep, ToldStep, DecisionsStep DEF GInv

(* The invariant holds initially. *)
LEMMA InitGInv == Init => GInv
<1> SUFFICES ASSUME Init PROVE GInv
  OBVIOUS
<1>1. OutcomeLate /\ FailClosed /\ Progress /\ KillReason /\ VerdictHonoured
  BY DEF Init, OutcomeLate, FailClosed, Progress, KillReason, VerdictHonoured
<1>2. PendingAgrees /\ CacheAgrees /\ Told
  BY DEF Init, PendingAgrees, CacheAgrees, Told, Range
<1>3. PidGiven /\ ScanListed
  BY ConstantsAssumption
  DEF Init, PidGiven, ScanListed, Awaiting, Request, ConstantsAssumption
<1>4. QED
  BY <1>1, <1>2, <1>3, InitInv DEF GInv

(* The invariant holds in every reachable state. *)
LEMMA GateInvariance == Spec => []GInv
  BY InitGInv, GInvStep, PTL DEF Spec

(* A process whose PID and id nobody shares gets its own verdict: the search by
   PID in apc.rs then finds the scan apply_verdict has marked. *)
THEOREM HonoursVerdicts == Spec => []VerdictHonoured
<1>1. GInv => VerdictHonoured
  BY DEF GInv
<1>2. QED
  BY <1>1, GateInvariance, PTL

-----------------------------------------------------------------------------
(* ScanGate implements FreezeGate: every step is a step of the abstract gate, or
   none. *)

gate    == [r \in Request |-> GateOf(stage[r])]
expired == {r \in Request : cause[r] = "timeout"}
cut     == {r \in Request : cause[r] = "interrupted"}
over    == driver # "loaded"

gateVars == <<pid, gate, verdict, expired, cut, over>>

(* What becomes of a process follows the stage of its APC. *)
LEMMA Moves ==
  ASSUME Inv, NEW r \in Request, NEW s, Advance(r, s)
  PROVE  /\ gate' = [gate EXCEPT ![r] = GateOf(s)]
         /\ GateOf(s) = GateOf(stage[r]) => UNCHANGED gate
<1>1. stage \in [Request -> Stage]
  BY DEF Inv, TypeOK
<1>2. stage' = [stage EXCEPT ![r] = s]
  BY DEF Advance
<1>3. QED
  BY <1>1, <1>2 DEF gate

(* What the stages stand for. *)
LEMMA GateValues ==
  /\ GateOf("absent") = "none"
  /\ \A s \in Live : GateOf(s) = "held"
  /\ GateOf("resumed") = "resumed"
  /\ GateOf("leaving") = "killed" /\ GateOf("killed") = "killed"
  /\ GateOf("reclaimed") = "left" /\ GateOf("gone") = "left"
  BY DEF GateOf, Live

(* Whoever has a list entry has a PID. *)
LEMMA HeldHasPid ==
  ASSUME Inv, PidGiven
  PROVE  \A r \in held : r \in Request /\ pid[r] # NoPid
  BY DEF Inv, TypeOK, HeldExist, PidGiven

(* Initially no process is held. *)
LEMMA InitGate == Init => Gate!Init
<1> SUFFICES ASSUME Init PROVE Gate!Init
  OBVIOUS
<1>1. gate = [r \in Request |-> "none"]
  BY GateValues DEF Init, gate
<1>2. QED
  BY <1>1 DEF Init, Gate!Init, gate

(* Steps the abstract gate does not see. *)
LEMMA Unseen ==
  ASSUME Inv, UNCHANGED <<pid, verdict, driver>>,
         \/ UNCHANGED stage
         \/ \E r \in Request, s \in Stage : Advance(r, s) /\ GateOf(s) = GateOf(stage[r]),
         \A r \in Request : \/ cause'[r] = cause[r]
                            \/ {cause[r], cause'[r]} \cap {"timeout", "interrupted"} = {}
  PROVE  UNCHANGED gateVars
<1>1. UNCHANGED gate
  <2>1. CASE UNCHANGED stage
    BY <2>1 DEF gate
  <2>2. CASE \E r \in Request, s \in Stage : Advance(r, s) /\ GateOf(s) = GateOf(stage[r])
    BY <2>2, Moves
  <2>3. QED
    BY <2>1, <2>2
<1>2. UNCHANGED <<expired, cut, over>>
  BY DEF expired, cut, over
<1>3. QED
  BY <1>1, <1>2 DEF gateVars

(* A process is created. *)
LEMMA GateCreates ==
  ASSUME GInv, NEW p \in Pid, NEW fast \in BOOLEAN, CreateProcess(p, fast)
  PROVE  Gate!Next
<1> USE DEF GInv
<1>1. nextRequest \in Request /\ pid' = [pid EXCEPT ![nextRequest] = p]
  BY CreateRequest
<1>2. pid[nextRequest] = NoPid
  BY <1>1, ConstantsAssumption DEF PidGiven, Request, ConstantsAssumption
<1>3. UNCHANGED <<stage, cause, verdict, driver>>
  BY DEF CreateProcess, frozen, agent
<1>4. Gate!Create(nextRequest)
  BY <1>1, <1>2, <1>3 DEF Gate!Create
<1>5. QED
  BY <1>1, <1>4 DEF Gate!Next

(* A process is frozen, or its thread is not found. *)
LEMMA GateHolds ==
  ASSUME GInv, NEW h \in Request, ThreadNotify(h)
  PROVE  Gate!Next \/ UNCHANGED gateVars
<1> USE DEF GInv
<1>1. driver = "loaded" /\ UNCHANGED <<pid, cause, verdict, driver>>
  BY DEF ThreadNotify, agent
<1>2. CASE UNCHANGED stage
  BY <1>1, <1>2, Unseen
<1>3. ASSUME NEW r \in held, stage[r] = "absent", stage' = [stage EXCEPT ![r] = "listed"]
      PROVE  Gate!Next
  <2>1. r \in Request /\ pid[r] # NoPid
    BY HeldHasPid
  <2>2. gate' = [gate EXCEPT ![r] = "held"]
    <3>1. Advance(r, "listed") /\ GateOf("listed") = "held"
      BY <1>3, GateValues DEF Advance, Live
    <3>2. QED
      BY <2>1, <3>1, Moves
  <2>3. gate[r] = "none"
    BY <1>3, <2>1, GateValues DEF gate
  <2>4. Gate!Hold(r)
    BY <1>1, <2>1, <2>2, <2>3 DEF Gate!Hold, gate
  <2>5. QED
    BY <2>1, <2>4 DEF Gate!Next
<1>4. QED
  BY <1>2, <1>3, NewScanListed

(* The thread ends before the gate has looked at its process. *)
LEMMA GateLeft ==
  ASSUME GInv, NEW r \in Request, InsertFails(r) \/ Rundown(r)
  PROVE  Gate!Next
<1> USE DEF GInv
<1>1. /\ stage[r] \in {"listed", "queued"}
      /\ UNCHANGED <<pid, cause, verdict, driver>>
      /\ Advance(r, "reclaimed") \/ Advance(r, "gone")
  BY DEF InsertFails, Rundown, process, agent
<1>2. gate[r] = "held" /\ gate' = [gate EXCEPT ![r] = "left"]
  BY <1>1, Moves, GateValues DEF gate, Live
<1>3. cause[r] = "none"
  BY <1>1 DEF Progress
<1>4. Gate!Leave(r)
  BY <1>1, <1>2, <1>3 DEF Gate!Leave, Gate!Ends, gate
<1>5. QED
  BY <1>4 DEF Gate!Next

(* A wait ends without a verdict. *)
LEMMA GateInterferes ==
  ASSUME GInv, NEW r \in Request, Interrupt(r) \/ Timeout(r)
  PROVE  Gate!Next
<1> USE DEF GInv
<1>1. /\ stage[r] = "waiting" /\ Advance(r, "woken")
      /\ UNCHANGED <<pid, verdict, driver>>
      /\ \/ cause' = [cause EXCEPT ![r] = "timeout"]
         \/ cause' = [cause EXCEPT ![r] = "interrupted"]
  BY DEF Interrupt, Timeout, StopWaiting, process, agent
<1>2. gate[r] = "held" /\ UNCHANGED gate
  <2>1. GateOf("woken") = "held" /\ GateOf(stage[r]) = "held"
    BY <1>1, GateValues DEF Live
  <2>2. UNCHANGED gate
    BY <1>1, <2>1, Moves
  <2>3. QED
    BY <2>1, <2>2 DEF gate
<1>3. cause[r] = "none" /\ cause \in [Request -> Cause]
  BY <1>1 DEF Progress, Inv, TypeOK
<1>4. \/ expired' = expired \cup {r} /\ UNCHANGED cut
      \/ cut' = cut \cup {r} /\ UNCHANGED expired
  BY <1>1, <1>3 DEF expired, cut
<1>5. r \notin expired \cup cut
  BY <1>3 DEF expired, cut
<1>6. Gate!Interfere(r)
  BY <1>1, <1>2, <1>4, <1>5 DEF Gate!Interfere, gate, expired, cut
<1>7. QED
  BY <1>6 DEF Gate!Next

(* The APC lets its process go, or ends it, for a reason. *)
LEMMA GateReleases ==
  ASSUME GInv, NEW r \in Request, Release(r)
  PROVE  Gate!Next
<1> USE DEF GInv
<1>1. /\ stage[r] = "decided"
      /\ UNCHANGED <<pid, cause, verdict, driver>>
      /\ Advance(r, IF outcome[r] = "kill" THEN "leaving" ELSE "resumed")
  BY DEF Release, process, agent
<1>2. gate[r] = "held" /\ r \in held
  BY <1>1, GateValues DEF gate, Live, Inv, HeldExist
<1>3. \A q \in Created : q \in Request /\ pid[q] # NoPid
  BY DEF Created, PidGiven
<1>4. CASE outcome[r] = "kill"
  <2>1. gate' = [gate EXCEPT ![r] = "killed"]
    BY <1>1, <1>4, Moves, GateValues
  <2>2. \/ over \/ r \in cut \/ verdict[r] = "block"
        \/ \E q \in Request \ {r} : Gate!Related(r, q)
    BY <1>3, <1>4 DEF KillReason, over, cut, Alone, Related, Gate!Related
  <2>3. r \notin expired
    BY <1>4 DEF KillReason, expired
  <2>4. Gate!Kill(r)
    BY <1>1, <1>2, <2>1, <2>2, <2>3 DEF Gate!Kill, Gate!Ends, gate, expired, cut, over
  <2>5. QED
    BY <2>4 DEF Gate!Next
<1>5. CASE outcome[r] # "kill"
  <2>1. gate' = [gate EXCEPT ![r] = "resumed"]
    BY <1>1, <1>5, Moves, GateValues
  <2>2. outcome[r] = "resume"
    BY <1>1, <1>5 DEF Progress, Inv, TypeOK
  <2>3. \A q \in held : q \in Request /\ pid[q] # NoPid
    BY HeldHasPid
  <2>4. r \in expired \/ \E q \in Request : Gate!Related(r, q) /\ verdict[q] = "allow"
    BY <2>2, <2>3 DEF FailClosed, expired, Related, Gate!Related
  <2>5. Gate!Resume(r)
    BY <1>1, <1>2, <2>1, <2>4 DEF Gate!Resume, Gate!Ends, gate, expired
  <2>6. QED
    BY <2>5 DEF Gate!Next
<1>6. QED
  BY <1>4, <1>5

(* The agent answers. *)
LEMMA GateAnswers ==
  ASSUME GInv, NEW r \in Request, NEW v \in Answer, SendVerdict(r, v)
  PROVE  Gate!Next
<1> USE DEF GInv
<1>1. /\ r \in held /\ verdict[r] = "none" /\ driver = "loaded"
      /\ verdict' = [verdict EXCEPT ![r] = v]
      /\ UNCHANGED <<pid, stage, cause, driver>>
  BY DEF SendVerdict, process, frozen
<1>2. pid[r] # NoPid
  BY <1>1, HeldHasPid
<1>3. Gate!Give(r)
  BY <1>1, <1>2 DEF Gate!Give, Answer
<1>4. QED
  BY <1>3 DEF Gate!Next

(* Every step of the driver is a step of the abstract gate, or none. *)
LEMMA GateStep ==
  ASSUME GInv, [Next]_vars
  PROVE  Gate!Next \/ UNCHANGED gateVars
<1> USE DEF GInv
<1>0. cause \in [Request -> Cause] /\ stage \in [Request -> Stage]
  BY DEF Inv, TypeOK
<1>1. ASSUME NEW r \in Request, InsertApc(r) \/ Reclaim(r)
      PROVE  UNCHANGED gateVars
  <2>1. UNCHANGED <<pid, verdict, driver, cause>>
    BY <1>1 DEF InsertApc, Reclaim, process, agent
  <2>2. \E s \in Stage : Advance(r, s) /\ GateOf(s) = GateOf(stage[r])
    BY <1>1, GateValues DEF InsertApc, Reclaim, Stage, Live
  <2>3. QED
    BY <2>1, <2>2, Unseen
<1>2. ASSUME NEW r \in Request, EarlyCheck(r) \/ Wake(r)
      PROVE  UNCHANGED gateVars
  <2>1. UNCHANGED <<pid, verdict, driver>>
    BY <1>2 DEF EarlyCheck, Wake, StopWaiting, process, agent
  <2>2. \E s \in Stage : Advance(r, s) /\ GateOf(s) = GateOf(stage[r])
    BY <1>2, GateValues DEF EarlyCheck, Wake, StopWaiting, Stage, Live
  <2>3. cause[r] = "none"
    BY <1>2 DEF EarlyCheck, Wake, StopWaiting, Progress
  <2>4. \A q \in Request : \/ cause'[q] = cause[q]
                           \/ cause[q] = "none" /\ cause'[q] \in {"early", "verdict"}
    BY <1>0, <1>2, <2>3 DEF EarlyCheck, Wake, StopWaiting
  <2>5. QED
    BY <2>1, <2>2, <2>4, Unseen
<1>3. ASSUME NEW r \in Request, EarlyUnlist(r) \/ Collect(r) \/ Terminate(r)
      PROVE  UNCHANGED gateVars
  <2>1. UNCHANGED <<pid, verdict, driver, cause>>
    BY <1>3 DEF EarlyUnlist, Collect, Terminate, process, agent
  <2>2. \E s \in Stage : Advance(r, s) /\ GateOf(s) = GateOf(stage[r])
    BY <1>3, GateValues DEF EarlyUnlist, Collect, Terminate, Stage, Live
  <2>3. QED
    BY <2>1, <2>2, Unseen
<1>4. ASSUME NEW r \in Request, Die(r) \/ Exit(r) \/ CacheVerdict(r)
      PROVE  UNCHANGED gateVars
  <2>1. UNCHANGED <<pid, verdict, driver, cause, stage>>
    BY <1>4 DEF Die, Exit, CacheVerdict, process, frozen, agent
  <2>2. QED
    BY <2>1, Unseen
<1>5. CASE BeginUnload
  <2>1. /\ driver = "loaded" /\ driver' = "draining"
        /\ UNCHANGED <<pid, stage, cause, verdict>>
    BY <1>5 DEF BeginUnload, process, frozen, agent
  <2>2. Gate!Close
    BY <2>1 DEF Gate!Close
  <2>3. QED
    BY <2>2 DEF Gate!Next
<1>6. CASE FinishUnload
  <2>1. /\ driver = "draining" /\ driver' = "unloaded"
        /\ UNCHANGED <<pid, stage, cause, verdict>>
    BY <1>6 DEF FinishUnload, process, frozen, agent
  <2>2. QED
    BY <2>1 DEF gateVars, gate, expired, cut, over
<1>7. CASE UNCHANGED vars
  <2>1. UNCHANGED <<pid, verdict, driver, cause, stage>>
    BY <1>7 DEF vars, process, frozen, agent
  <2>2. QED
    BY <2>1, Unseen
<1>8. QED
  BY <1>1, <1>2, <1>3, <1>4, <1>5, <1>6, <1>7,
     GateCreates, GateHolds, GateLeft, GateInterferes, GateReleases, GateAnswers
  DEF Next, InjectStep, ApcStep

(* The lists, the events, the cache and the APCs implement the abstract gate:
   each request holds a process once, which is let go or ended only for one of
   the reasons stated there. *)
THEOREM GateImplemented == Spec => ImplementsGate
<1>1. GInv /\ [Next]_vars => [Gate!Next]_(Gate!vars)
  BY GateStep DEF gateVars, gate, expired, cut, over, Gate!vars
<1>2. QED
  BY <1>1, InitGate, GateInvariance, PTL DEF Spec, ImplementsGate, Gate!Spec

-----------------------------------------------------------------------------
(* The event path: what holds of the queue and of the handles. *)

(* No event stands in the queue twice. *)
QueuedOnce == \A i, j \in DOMAIN queue : queue[i] = queue[j] => i = j

(* What notify_agent has yet to queue is not queued, and neither is what has not
   been created. *)
Apart ==
  /\ notifying \cup Queued \subseteq 1 .. created
  /\ notifying \cap Queued = {}

(* A client that has not exited has a handle. *)
HandlesOpen ==
  \A c \in Client : client[c] \in {"opened", "online", "closing"} => handles[c] # 0

(* The inductive invariant. *)
CallInv == CallTypeOK /\ PendingIrpHeld /\ QueuedOnce /\ Apart /\ HandlesOpen

-----------------------------------------------------------------------------
(* Facts about queues. *)

(* What Append does to a queue without repetitions. *)
LEMMA AppendToQueue ==
  ASSUME NEW S, NEW s \in Seq(S), NEW e \in S,
         \A i, j \in DOMAIN s : s[i] = s[j] => i = j,
         e \notin {s[i] : i \in DOMAIN s}
  PROVE  LET t == Append(s, e) IN
         /\ t \in Seq(S)
         /\ Len(t) = Len(s) + 1
         /\ \A i, j \in DOMAIN t : t[i] = t[j] => i = j
         /\ {t[i] : i \in DOMAIN t} = {s[i] : i \in DOMAIN s} \cup {e}
<1> DEFINE t == Append(s, e)
<1>1. /\ DOMAIN s = 1 .. Len(s) /\ Len(s) \in Nat
      /\ t \in Seq(S) /\ Len(t) = Len(s) + 1
      /\ \A i \in 1 .. Len(s) : t[i] = s[i]
      /\ t[Len(s) + 1] = e
  BY LenProperties, AppendProperties
<1>2. DOMAIN t = 1 .. Len(s) + 1
  BY <1>1, LenProperties
<1> HIDE DEF t
<1>3. ASSUME NEW i \in DOMAIN t, NEW j \in DOMAIN t, t[i] = t[j]
      PROVE  i = j
  <2>1. \A k \in DOMAIN t : k \in 1 .. Len(s) \/ k = Len(s) + 1
    BY <1>1, <1>2
  <2>2. QED
    BY <1>1, <1>3, <2>1
<1>4. {t[i] : i \in DOMAIN t} = {s[i] : i \in DOMAIN s} \cup {e}
  BY <1>1, <1>2
<1>5. QED
  BY <1>1, <1>3, <1>4 DEF t

(* What taking the first event does to a queue without repetitions. *)
LEMMA TailOfQueue ==
  ASSUME NEW S, NEW s \in Seq(S), s # << >>,
         \A i, j \in DOMAIN s : s[i] = s[j] => i = j
  PROVE  LET t == Tail(s) IN
         /\ Head(s) \in S
         /\ Head(s) \in {s[i] : i \in DOMAIN s}
         /\ t \in Seq(S)
         /\ Len(t) = Len(s) - 1
         /\ \A i, j \in DOMAIN t : t[i] = t[j] => i = j
         /\ {t[i] : i \in DOMAIN t} = {s[i] : i \in DOMAIN s} \ {Head(s)}
<1> DEFINE t == Tail(s)
<1>1. /\ DOMAIN s = 1 .. Len(s) /\ Len(s) \in Nat
      /\ t \in Seq(S) /\ Len(t) = Len(s) - 1
      /\ \A i \in 1 .. Len(s) - 1 : t[i] = s[i + 1]
      /\ Head(s) = s[1]
      /\ \A i \in 1 .. Len(s) : s[i] \in S
  BY LenProperties, HeadTailProperties, ElementOfSeq
<1>2. DOMAIN t = 1 .. Len(s) - 1 /\ Len(s) \in Nat \ {0}
  BY <1>1, LenProperties, EmptySeq
<1> HIDE DEF t
<1>3. \A i, j \in DOMAIN t : t[i] = t[j] => i = j
  <2>1. \A i \in DOMAIN t : i \in Nat /\ i + 1 \in DOMAIN s /\ t[i] = s[i + 1]
    BY <1>1, <1>2
  <2>2. QED
    BY <2>1
<1>4. {t[i] : i \in DOMAIN t} = {s[i] : i \in DOMAIN s} \ {Head(s)}
  <2>1. ASSUME NEW i \in DOMAIN t
        PROVE  t[i] \in {s[k] : k \in DOMAIN s} /\ t[i] # Head(s)
    <3>1. i + 1 \in DOMAIN s /\ i + 1 # 1 /\ 1 \in DOMAIN s /\ t[i] = s[i + 1]
      BY <1>1, <1>2
    <3>2. QED
      BY <1>1, <3>1
  <2>2. ASSUME NEW k \in DOMAIN s, s[k] # Head(s)
        PROVE  s[k] \in {t[i] : i \in DOMAIN t}
    <3>1. k - 1 \in DOMAIN t /\ t[k - 1] = s[k]
      BY <1>1, <1>2, <2>2
    <3>2. QED
      BY <3>1
  <2>3. QED
    BY <2>1, <2>2
<1>5. Head(s) \in S /\ Head(s) \in {s[i] : i \in DOMAIN s}
  BY <1>1, <1>2
<1>6. QED
  BY <1>1, <1>3, <1>4, <1>5 DEF t

-----------------------------------------------------------------------------
(* The inductive invariant. *)

LEMMA Initial == CallInit => CallInv
<1> SUFFICES ASSUME CallInit PROVE CallInv
  OBVIOUS
<1> USE CallAssumption DEF CallAssumption
<1>1. << >> \in Seq(Event) /\ Len(<< >>) = 0 /\ DOMAIN << >> = {}
  BY EmptySeq
<1>2. << >> \in Seq([event : Event, to : Client])
  BY EmptySeq
<1>3. CallTypeOK
  BY <1>1, <1>2 DEF CallInit, CallTypeOK, Event
<1>4. PendingIrpHeld
  BY DEF CallInit, PendingIrpHeld, Outstanding
<1>5. QueuedOnce /\ Apart
  BY <1>1 DEF CallInit, QueuedOnce, Apart, Queued
<1>6. HandlesOpen
  BY DEF CallInit, HandlesOpen
<1>7. QED
  BY <1>3, <1>4, <1>5, <1>6 DEF CallInv

(* The steps that leave the events where they are. *)
LEMMA EventsKept ==
  ASSUME QueuedOnce, Apart, UNCHANGED events
  PROVE  QueuedOnce' /\ Apart'
BY DEF QueuedOnce, Apart, Queued, events

(* A step that leaves the handles alone keeps HandlesOpen. *)
LEMMA ClientsKept ==
  ASSUME HandlesOpen, UNCHANGED clients
  PROVE  HandlesOpen'
BY DEF HandlesOpen, clients

(* notify_agent keeps the invariant. *)
LEMMA NotifyStep ==
  ASSUME CallInv, Notify
  PROVE  CallInv'
<1> USE DEF CallInv, events, clients
<1>0. HandlesOpen'
  BY ClientsKept DEF Notify
<1>1. created + 1 \in Event /\ created' = created + 1 /\ created \in Nat
  BY CallAssumption DEF Notify, CallTypeOK, Event, CallAssumption
<1>2. CASE Held = {}
  <2>1. /\ notifying' = notifying \cup {created + 1}
        /\ UNCHANGED <<device, clients, pendingIrp, call, queue, delivered, discarded>>
    BY <1>2 DEF Notify
  <2>2. CallTypeOK'
    BY <1>1, <2>1 DEF CallTypeOK, Event
  <2>3. PendingIrpHeld'
    BY <2>1 DEF PendingIrpHeld
  <2>4. Queued' = Queued
    BY <2>1 DEF Queued
  <2>5. created + 1 \notin 1 .. created /\ 1 .. created \cup {created + 1} = 1 .. created + 1
    BY <1>1
  <2>6. QueuedOnce' /\ Apart'
    BY <1>1, <2>1, <2>4, <2>5 DEF QueuedOnce, Apart
  <2>7. QED
    BY <1>0, <2>2, <2>3, <2>6
<1>3. CASE Held # {}
  <2>1. PICK c \in Held : pendingIrp' = None /\ Deliver(c, created + 1) /\ UNCHANGED notifying
    BY <1>3 DEF Notify
  <2>2. c \in Client /\ pendingIrp = c /\ call[c] = "held"
    BY <2>1 DEF Held
  <2>3. /\ call' = [call EXCEPT ![c] = "event"]
        /\ delivered' = Append(delivered, [event |-> created + 1, to |-> c])
        /\ UNCHANGED <<device, clients, queue, discarded, notifying>>
    BY <2>1 DEF Notify, Deliver, Complete
  <2>4. delivered' \in Seq([event : Event, to : Client])
    BY <1>1, <2>2, <2>3, AppendProperties DEF CallTypeOK
  <2>5. CallTypeOK'
    BY <1>1, <2>1, <2>3, <2>4 DEF CallTypeOK, Completed, Event
  <2>6. PendingIrpHeld'
    BY <2>1, <2>2, <2>3, CallAssumption
       DEF PendingIrpHeld, Outstanding, CallTypeOK, CallAssumption
  <2>7. Queued' = Queued
    BY <2>3 DEF Queued
  <2>8. QueuedOnce' /\ Apart'
    BY <1>1, <2>3, <2>7 DEF QueuedOnce, Apart
  <2>9. QED
    BY <1>0, <2>5, <2>6, <2>8
<1>4. QED
  BY <1>2, <1>3

(* Queueing an event keeps the invariant. *)
LEMMA EnqueueStep ==
  ASSUME CallInv, NEW e \in Event, Enqueue(e)
  PROVE  CallInv'
<1> USE DEF CallInv, events, clients
<1>0. HandlesOpen'
  BY ClientsKept DEF Enqueue
<1>1. /\ e \in notifying /\ notifying' = notifying \ {e}
      /\ UNCHANGED <<device, clients, pendingIrp, call, created, delivered>>
  BY DEF Enqueue
<1>2. PendingIrpHeld'
  BY <1>1 DEF PendingIrpHeld
<1>3. e \notin Queued /\ e \in 1 .. created
  BY <1>1 DEF Apart
<1>4. CASE HasRoom
  <2>1. queue' = Append(queue, e) /\ UNCHANGED discarded
    BY <1>4 DEF Enqueue
  <2>2. /\ queue' \in Seq(Event) /\ Len(queue') = Len(queue) + 1
        /\ QueuedOnce'
        /\ Queued' = Queued \cup {e}
    <3>1. /\ queue \in Seq(Event)
          /\ \A i, j \in DOMAIN queue : queue[i] = queue[j] => i = j
          /\ e \notin {queue[i] : i \in DOMAIN queue}
      BY <1>3 DEF CallTypeOK, QueuedOnce, Queued
    <3> DEFINE t == Append(queue, e)
    <3>2. /\ t \in Seq(Event) /\ Len(t) = Len(queue) + 1
          /\ \A i, j \in DOMAIN t : t[i] = t[j] => i = j
          /\ {t[i] : i \in DOMAIN t} = {queue[i] : i \in DOMAIN queue} \cup {e}
      <4> HIDE DEF CallInv, events, clients
      <4>1. QED
        BY <3>1, AppendToQueue
    <3> HIDE DEF t
    <3>3. queue' = t
      BY <2>1 DEF t
    <3>4. QED
      BY <3>2, <3>3 DEF QueuedOnce, Queued
  <2>3. Len(queue) \in Nat
    BY LenProperties DEF CallTypeOK
  <2>4. CallTypeOK'
    BY <1>1, <1>4, <2>1, <2>2, <2>3, CallAssumption
       DEF CallTypeOK, HasRoom, CallAssumption
  <2>5. Apart'
    BY <1>1, <1>3, <2>2 DEF Apart
  <2>6. QED
    BY <1>0, <1>2, <2>2, <2>4, <2>5
<1>5. CASE ~HasRoom
  <2>1. discarded' = discarded \cup {e} /\ UNCHANGED queue
    BY <1>5 DEF Enqueue
  <2>2. CallTypeOK'
    BY <1>1, <2>1 DEF CallTypeOK
  <2>3. QueuedOnce' /\ Queued' = Queued
    BY <2>1 DEF QueuedOnce, Queued
  <2>4. Apart'
    BY <1>1, <2>3 DEF Apart
  <2>5. QED
    BY <1>0, <1>2, <2>2, <2>3, <2>4
<1>6. QED
  BY <1>4, <1>5

(* IOCTL_GET_EVENT keeps the invariant. *)
LEMMA GetEventStep ==
  ASSUME CallInv, NEW c \in Client, GetEvent(c)
  PROVE  CallInv'
<1> USE DEF CallInv, events, clients
<1>0. HandlesOpen'
  BY ClientsKept DEF GetEvent
<1>1. /\ call[c] = "none"
      /\ UNCHANGED <<device, clients, created, notifying, discarded>>
  BY DEF GetEvent
<1>2. CASE registered # c \/ pendingIrp # None
  <2>1. call' = [call EXCEPT ![c] = "failed"] /\ UNCHANGED <<pendingIrp, queue, delivered>>
    BY <1>2 DEF GetEvent, Complete
  <2>2. CallTypeOK'
    BY <1>1, <2>1 DEF CallTypeOK, Completed
  <2>3. PendingIrpHeld'
    BY <1>1, <2>1 DEF PendingIrpHeld, Outstanding, CallTypeOK
  <2>4. QED
    BY <1>0, <1>1, <2>1, <2>2, <2>3, EventsKept
<1>3. CASE ~ (registered # c \/ pendingIrp # None) /\ queue # << >>
  <2>1. /\ call' = [call EXCEPT ![c] = "event"]
        /\ delivered' = Append(delivered, [event |-> Head(queue), to |-> c])
        /\ queue' = Tail(queue)
        /\ UNCHANGED pendingIrp
    BY <1>3 DEF GetEvent, Deliver, Complete, Dequeued
  <2>2. /\ Head(queue) \in Event
        /\ queue' \in Seq(Event) /\ Len(queue') = Len(queue) - 1
        /\ QueuedOnce'
        /\ Queued' = Queued \ {Head(queue)}
    <3>1. /\ queue \in Seq(Event) /\ queue # << >>
          /\ \A i, j \in DOMAIN queue : queue[i] = queue[j] => i = j
      BY <1>3 DEF CallTypeOK, QueuedOnce
    <3> DEFINE t == Tail(queue)
    <3>2. /\ Head(queue) \in Event
          /\ t \in Seq(Event) /\ Len(t) = Len(queue) - 1
          /\ \A i, j \in DOMAIN t : t[i] = t[j] => i = j
          /\ {t[i] : i \in DOMAIN t} = {queue[i] : i \in DOMAIN queue} \ {Head(queue)}
      BY <3>1, TailOfQueue
    <3> HIDE DEF t
    <3>3. queue' = t
      BY <2>1 DEF t
    <3>4. QED
      BY <3>2, <3>3 DEF QueuedOnce, Queued
  <2>3. delivered' \in Seq([event : Event, to : Client])
    BY <2>1, <2>2, AppendProperties DEF CallTypeOK
  <2>4. Len(queue) \in Nat /\ Len(queue') \in Nat
    BY <2>2, LenProperties DEF CallTypeOK
  <2>5. CallTypeOK'
    BY <1>1, <2>1, <2>2, <2>3, <2>4, CallAssumption
       DEF CallTypeOK, Completed, CallAssumption
  <2>6. PendingIrpHeld'
    BY <1>1, <2>1 DEF PendingIrpHeld, Outstanding, CallTypeOK
  <2>7. Apart'
    BY <1>1, <2>2 DEF Apart
  <2>8. QED
    BY <1>0, <2>2, <2>5, <2>6, <2>7
<1>4. CASE ~ (registered # c \/ pendingIrp # None) /\ queue = << >>
  <2>1. /\ pendingIrp' = c /\ call' = [call EXCEPT ![c] = "held"]
        /\ UNCHANGED <<queue, delivered>>
    BY <1>4 DEF GetEvent
  <2>2. CallTypeOK'
    BY <1>1, <2>1 DEF CallTypeOK, Outstanding
  <2>3. PendingIrpHeld'
    BY <1>4, <2>1, CallAssumption
       DEF PendingIrpHeld, Outstanding, CallTypeOK, CallAssumption
  <2>4. QED
    BY <1>0, <1>1, <2>1, <2>2, <2>3, EventsKept
<1>5. QED
  BY <1>2, <1>3, <1>4

(* What a client does otherwise, and what becomes of its call when it ends. *)
LEMMA ClientStep ==
  ASSUME CallInv, NEW c \in Client,
         Start(c) \/ StartFails(c) \/ Register(c) \/ Return(c) \/ Crash(c)
  PROVE  CallInv'
<1> USE DEF CallInv, clients
<1>1. UNCHANGED events
  BY DEF Start, StartFails, Register, Return, Crash
<1>2. QueuedOnce' /\ Apart'
  BY <1>1, EventsKept
<1>3. CASE Start(c) \/ StartFails(c)
  <2>1. CallTypeOK'
    BY <1>1, <1>3 DEF Start, StartFails, CallTypeOK, events
  <2>2. PendingIrpHeld'
    BY <1>3 DEF Start, StartFails, PendingIrpHeld
  <2>3. HandlesOpen'
    BY <1>3 DEF Start, StartFails, HandlesOpen, CallTypeOK
  <2>4. QED
    BY <1>2, <2>1, <2>2, <2>3
<1>4. CASE Register(c) \/ Crash(c)
  <2>1. CallTypeOK'
    BY <1>1, <1>4 DEF Register, Crash, CallTypeOK, events
  <2>2. PendingIrpHeld'
    BY <1>4 DEF Register, Crash, PendingIrpHeld
  <2>3. HandlesOpen'
    BY <1>4 DEF Register, Crash, HandlesOpen, CallTypeOK
  <2>4. QED
    BY <1>2, <2>1, <2>2, <2>3
<1>5. CASE Return(c)
  <2>1. CallTypeOK'
    BY <1>1, <1>5 DEF Return, CallTypeOK, events
  <2>2. PendingIrpHeld'
    BY <1>5 DEF Return, PendingIrpHeld, Outstanding, Completed, CallTypeOK
  <2>3. HandlesOpen'
    BY <1>5 DEF Return, HandlesOpen, CallTypeOK
  <2>4. QED
    BY <1>2, <2>1, <2>2, <2>3
<1>6. QED
  BY <1>3, <1>4, <1>5

(* Cancelling a call, its cancel routine and closing a handle keep the invariant. *)
LEMMA ExitSteps ==
  ASSUME CallInv, NEW c \in Client, ExitStep(c)
  PROVE  CallInv'
<1> USE DEF CallInv, clients
<1>1. UNCHANGED events
  BY DEF ExitStep, Cancel, CancelRoutine, CloseHandle
<1>2. QueuedOnce' /\ Apart'
  BY <1>1, EventsKept
<1>3. CASE Cancel(c)
  <2>1. CallTypeOK'
    BY <1>1, <1>3 DEF Cancel, CallTypeOK, Outstanding, events
  <2>2. PendingIrpHeld'
    BY <1>3 DEF Cancel, PendingIrpHeld, Outstanding, CallTypeOK
  <2>3. HandlesOpen'
    BY <1>3, ClientsKept DEF Cancel
  <2>4. QED
    BY <1>2, <2>1, <2>2, <2>3
<1>4. CASE CancelRoutine(c)
  <2>1. /\ pendingIrp = c /\ pendingIrp' = None
        /\ call' = [call EXCEPT ![c] = "cancelled"]
        /\ UNCHANGED <<device, clients>>
    BY <1>4 DEF CancelRoutine, Complete
  <2>2. CallTypeOK'
    BY <1>1, <2>1 DEF CallTypeOK, Completed, events
  <2>3. PendingIrpHeld'
    BY <2>1, CallAssumption DEF PendingIrpHeld, Outstanding, CallTypeOK, CallAssumption
  <2>4. HandlesOpen'
    BY <2>1, ClientsKept
  <2>5. QED
    BY <1>2, <2>2, <2>3, <2>4
<1>5. CASE CloseHandle(c)
  <2>1. /\ client[c] = "closing"
        /\ handles' = [handles EXCEPT ![c] = @ - 1]
        /\ client' = [client EXCEPT ![c] = IF handles[c] = 1 THEN "exited" ELSE @]
        /\ Cleanup
        /\ UNCHANGED <<device, registered>>
    BY <1>5 DEF CloseHandle
  <2>2. /\ pendingIrp' \in Client \cup {None}
        /\ call' \in [Client -> Outstanding \cup Completed \cup {"none"}]
        /\ PendingIrpHeld'
    <3>1. CASE Held = {}
      <4>1. UNCHANGED <<pendingIrp, call>>
        BY <2>1, <3>1 DEF Cleanup
      <4>2. QED
        BY <4>1 DEF CallTypeOK, PendingIrpHeld
    <3>2. CASE Held # {}
      <4>1. PICK b \in Held : pendingIrp' = None /\ call' = [call EXCEPT ![b] = "cancelled"]
        BY <2>1, <3>2 DEF Cleanup, Complete
      <4>2. b \in Client /\ pendingIrp = b
        BY <4>1 DEF Held
      <4>3. QED
        BY <4>1, <4>2, CallAssumption
           DEF CallTypeOK, PendingIrpHeld, Outstanding, Completed, CallAssumption
    <3>3. QED
      BY <3>1, <3>2
  <2>3. HandlesOpen'
    BY <2>1 DEF HandlesOpen, CallTypeOK
  <2>4. handles[c] \in 1 .. 2
    BY <2>1 DEF HandlesOpen, CallTypeOK
  <2>5. handles' \in [Client -> 0 .. 2]
    <3>1. handles[c] - 1 \in 0 .. 2
      BY <2>4
    <3>2. QED
      BY <2>1, <3>1 DEF CallTypeOK
  <2>6. client' \in [Client -> {"new", "opened", "online", "closing", "exited"}]
    BY <2>1 DEF CallTypeOK
  <2>7. CallTypeOK'
    BY <1>1, <2>1, <2>2, <2>5, <2>6 DEF CallTypeOK, events
  <2>8. QED
    BY <1>2, <2>2, <2>3, <2>7
<1>6. QED
  BY <1>3, <1>4, <1>5 DEF ExitStep

(* driver_unload keeps the invariant. *)
LEMMA UnloadStep ==
  ASSUME CallInv, Unload
  PROVE  CallInv'
<1> USE DEF CallInv, clients
<1>1. /\ notifying = {}
      /\ device' = "unloaded" /\ registered' = None /\ queue' = << >>
      /\ discarded' = discarded \cup {queue[i] : i \in DOMAIN queue}
      /\ UNCHANGED <<client, handles, pendingIrp, call, created, notifying, delivered>>
  BY DEF Unload
<1>2. << >> \in Seq(Event) /\ Len(<< >>) = 0 /\ DOMAIN << >> = {}
  BY EmptySeq
<1>3. {queue[i] : i \in DOMAIN queue} \subseteq Event
  BY LenProperties, ElementOfSeq DEF CallTypeOK
<1>4. CallTypeOK'
  BY <1>1, <1>2, <1>3, CallAssumption DEF CallTypeOK, CallAssumption
<1>5. PendingIrpHeld' /\ HandlesOpen'
  BY <1>1 DEF PendingIrpHeld, HandlesOpen
<1>6. QueuedOnce' /\ Apart'
  BY <1>1, <1>2 DEF QueuedOnce, Apart, Queued
<1>7. QED
  BY <1>4, <1>5, <1>6

(* Doing nothing keeps the invariant. *)
LEMMA Stutters ==
  ASSUME CallInv, UNCHANGED callVars
  PROVE  CallInv'
<1> USE DEF CallInv, callVars, clients, events
<1>1. CallTypeOK'
  BY DEF CallTypeOK
<1>2. PendingIrpHeld' /\ HandlesOpen'
  BY DEF PendingIrpHeld, HandlesOpen
<1>3. QueuedOnce' /\ Apart'
  BY EventsKept
<1>4. QED
  BY <1>1, <1>2, <1>3

(* The invariant holds in every reachable state. *)
LEMMA CallInvariance == CallSpec => []CallInv
<1>1. CallInv /\ [CallNext]_callVars => CallInv'
  <2> SUFFICES ASSUME CallInv, [CallNext]_callVars PROVE CallInv'
    OBVIOUS
  <2>1. CASE Notify
    BY <2>1, NotifyStep
  <2>2. ASSUME NEW e \in Event, Enqueue(e) PROVE CallInv'
    BY <2>2, EnqueueStep
  <2>3. ASSUME NEW c \in Client,
               Start(c) \/ StartFails(c) \/ Register(c) \/ Return(c) \/ Crash(c)
        PROVE  CallInv'
    BY <2>3, ClientStep
  <2>4. ASSUME NEW c \in Client, GetEvent(c) PROVE CallInv'
    BY <2>4, GetEventStep
  <2>5. ASSUME NEW c \in Client, ExitStep(c) PROVE CallInv'
    BY <2>5, ExitSteps
  <2>6. CASE Unload
    BY <2>6, UnloadStep
  <2>7. CASE UNCHANGED callVars
    BY <2>7, Stutters
  <2>8. QED
    BY <2>1, <2>2, <2>3, <2>4, <2>5, <2>6, <2>7 DEF CallNext
<1>2. QED
  BY <1>1, Initial, PTL DEF CallSpec

(* Every variable of the event path keeps its type, and EVENT_QUEUE its limit. *)
THEOREM CallTypeCorrect == CallSpec => []CallTypeOK
<1>1. CallInv => CallTypeOK
  BY DEF CallInv
<1>2. QED
  BY CallInvariance, <1>1, PTL

(* PENDING_IRP is the one outstanding call, and is held until it is completed:
   notify_agent, dispatch_cleanup and cancel_routine never complete it twice, and
   never forget it. *)
THEOREM HeldCallIsPending == CallSpec => []PendingIrpHeld
<1>1. CallInv => PendingIrpHeld
  BY DEF CallInv
<1>2. QED
  BY CallInvariance, <1>1, PTL

-----------------------------------------------------------------------------
(* The refinement of EventChannel: a step that touches no event, and one that only
   moves an event from notify_agent into the queue, is a stutter. *)

LEMMA InitialChannel == CallInit => Channel!Init
BY EmptySeq DEF CallInit, Channel!Init, Queued

(* A step that leaves the events alone is no step of the channel. *)
LEMMA KeptChannel ==
  ASSUME UNCHANGED events
  PROVE  UNCHANGED Channel!vars
BY DEF events, Queued, Channel!vars

(* notify_agent gives its event, or keeps it for the queue. *)
LEMMA NotifyChannel ==
  ASSUME CallInv, Notify
  PROVE  Channel!Create
<1>1. created < MaxEvents /\ created' = created + 1 /\ UNCHANGED <<queue, discarded>>
  BY DEF Notify
<1>2. Queued' = Queued
  BY <1>1 DEF Queued
<1>3. CASE Held = {}
  <2>1. notifying' = notifying \cup {created + 1} /\ UNCHANGED delivered
    BY <1>3 DEF Notify
  <2>2. (notifying \cup Queued)' = (notifying \cup Queued) \cup {created'}
    BY <1>1, <1>2, <2>1
  <2>3. QED
    BY <1>1, <2>1, <2>2 DEF Channel!Create
<1>4. CASE Held # {}
  <2>1. PICK c \in Held : Deliver(c, created + 1) /\ UNCHANGED notifying
    BY <1>4 DEF Notify
  <2>2. c \in Client
    BY <2>1 DEF Held
  <2>3. Channel!Give(created', c)
    BY <1>1, <2>1 DEF Deliver, Channel!Give
  <2>4. QED
    BY <1>1, <1>2, <2>1, <2>2, <2>3 DEF Channel!Create
<1>5. QED
  BY <1>3, <1>4

(* A queued event waits as it did, is lost, or sends the oldest into loss. *)
LEMMA EnqueueChannel ==
  ASSUME CallInv, NEW e \in Event, Enqueue(e)
  PROVE  Channel!Next \/ UNCHANGED Channel!vars
<1>1. /\ e \in notifying /\ notifying' = notifying \ {e}
      /\ UNCHANGED <<created, delivered>>
  BY DEF Enqueue
<1>2. CASE HasRoom
  <2>1. queue' = Append(queue, e) /\ UNCHANGED discarded
    BY <1>2 DEF Enqueue
  <2>2. Queued' = Queued \cup {e}
    <3>1. /\ queue \in Seq(Event)
          /\ \A i, j \in DOMAIN queue : queue[i] = queue[j] => i = j
          /\ e \notin {queue[i] : i \in DOMAIN queue}
      BY <1>1 DEF CallInv, CallTypeOK, QueuedOnce, Apart, Queued
    <3> DEFINE t == Append(queue, e)
    <3>2. {t[i] : i \in DOMAIN t} = {queue[i] : i \in DOMAIN queue} \cup {e}
      BY <3>1, AppendToQueue
    <3> HIDE DEF t
    <3>3. queue' = t
      BY <2>1 DEF t
    <3>4. QED
      BY <3>2, <3>3 DEF Queued
  <2>3. (notifying \cup Queued)' = notifying \cup Queued
    BY <1>1, <2>2
  <2>4. QED
    BY <1>1, <2>1, <2>3 DEF Channel!vars
<1>3. CASE ~HasRoom
  <2>1. discarded' = discarded \cup {e} /\ UNCHANGED queue
    BY <1>3 DEF Enqueue
  <2>2. Queued' = Queued /\ e \notin Queued
    BY <1>1, <2>1 DEF Queued, CallInv, Apart
  <2>3. (notifying \cup Queued)' = (notifying \cup Queued) \ {e}
    BY <1>1, <2>2
  <2>4. Channel!Lose({e})
    BY <1>1, <2>1, <2>3 DEF Channel!Lose
  <2>5. QED
    BY <1>1, <2>4 DEF Channel!Next
<1>4. QED
  BY <1>2, <1>3

(* IOCTL_GET_EVENT takes the oldest event, or waits. *)
LEMMA GetEventChannel ==
  ASSUME CallInv, NEW c \in Client, GetEvent(c)
  PROVE  Channel!Next \/ UNCHANGED Channel!vars
<1>1. UNCHANGED <<created, notifying, discarded>>
  BY DEF GetEvent
<1>2. CASE UNCHANGED <<queue, delivered>>
  BY <1>1, <1>2, KeptChannel DEF events
<1>3. CASE ~UNCHANGED <<queue, delivered>>
  <2>1. /\ queue # << >> /\ queue' = Tail(queue)
        /\ delivered' = Append(delivered, [event |-> Head(queue), to |-> c])
    BY <1>3 DEF GetEvent, Deliver, Dequeued
  <2>2. Queued' = Queued \ {Head(queue)} /\ Head(queue) \in Queued
    <3>1. /\ queue \in Seq(Event) /\ queue # << >>
          /\ \A i, j \in DOMAIN queue : queue[i] = queue[j] => i = j
      BY <2>1 DEF CallInv, CallTypeOK, QueuedOnce
    <3> DEFINE t == Tail(queue)
    <3>2. /\ Head(queue) \in {queue[i] : i \in DOMAIN queue}
          /\ {t[i] : i \in DOMAIN t} = {queue[i] : i \in DOMAIN queue} \ {Head(queue)}
      BY <3>1, TailOfQueue
    <3> HIDE DEF t
    <3>3. queue' = t
      BY <2>1 DEF t
    <3>4. QED
      BY <3>2, <3>3 DEF Queued
  <2>3. Head(queue) \notin notifying
    BY <2>2 DEF CallInv, Apart
  <2>4. (notifying \cup Queued)' = (notifying \cup Queued) \ {Head(queue)}
    BY <1>1, <2>2, <2>3
  <2>5. Channel!Deliver(Head(queue), c)
    BY <1>1, <2>1, <2>2, <2>4 DEF Channel!Deliver, Channel!Give
  <2>6. QED
    BY <2>2, <2>5 DEF Channel!Next
<1>4. QED
  BY <1>2, <1>3

(* driver_unload loses what waits. *)
LEMMA UnloadChannel ==
  ASSUME CallInv, Unload
  PROVE  Channel!Next
<1>1. /\ notifying = {} /\ queue' = << >> /\ discarded' = discarded \cup Queued
      /\ UNCHANGED <<created, notifying, delivered>>
  BY DEF Unload, Queued
<1>2. Queued' = {}
  BY <1>1, EmptySeq DEF Queued
<1>3. Channel!Lose(notifying \cup Queued)
  BY <1>1, <1>2 DEF Channel!Lose
<1>4. QED
  BY <1>3 DEF Channel!Next

(* The event path implements EventChannel: each event is given to one call, or
   waits, or is lost, and what has been given or lost stays so. *)
THEOREM ChannelImplemented == CallSpec => ImplementsChannel
<1>1. CallInv /\ [CallNext]_callVars => [Channel!Next]_(Channel!vars)
  <2> SUFFICES ASSUME CallInv, [CallNext]_callVars
               PROVE  Channel!Next \/ UNCHANGED Channel!vars
    OBVIOUS
  <2>1. CASE Notify
    BY <2>1, NotifyChannel DEF Channel!Next
  <2>2. ASSUME NEW e \in Event, Enqueue(e)
        PROVE  Channel!Next \/ UNCHANGED Channel!vars
    BY <2>2, EnqueueChannel
  <2>3. ASSUME NEW c \in Client, GetEvent(c)
        PROVE  Channel!Next \/ UNCHANGED Channel!vars
    BY <2>3, GetEventChannel
  <2>4. CASE Unload
    BY <2>4, UnloadChannel
  <2>5. ASSUME NEW c \in Client,
               \/ Start(c) \/ StartFails(c) \/ Register(c) \/ Return(c) \/ Crash(c)
               \/ ExitStep(c)
        PROVE  UNCHANGED Channel!vars
    <3>1. UNCHANGED events
      BY <2>5
         DEF Start, StartFails, Register, Return, Crash, ExitStep, Cancel, CancelRoutine,
             CloseHandle
    <3>2. QED
      BY <3>1, KeptChannel
  <2>6. CASE UNCHANGED callVars
    BY <2>6, KeptChannel DEF callVars
  <2>7. QED
    BY <2>1, <2>2, <2>3, <2>4, <2>5, <2>6 DEF CallNext
<1>2. QED
  BY <1>1, CallInvariance, InitialChannel, PTL
     DEF CallSpec, ImplementsChannel, Channel!Spec
=============================================================================
