--------------------------- MODULE ScanCacheProofs ---------------------------
(***************************************************************************)
(* Theorems about the scan cache, for every number of requests and         *)
(* workers, every set of versions of the file and any number of            *)
(* replacements.                                                           *)
(***************************************************************************)
EXTENDS ScanCache, TLAPS

Result == [score : Int, blocked : BOOLEAN]

(* An analysis has blocked if and only if its score is above the threshold. *)
Sound(a) == a \in Result /\ (a.blocked <=> ~AllowScore(a.score))

(* Request q owns a scan that is recorded, or about to be: nothing of it changes. *)
Scanned(q) ==
  /\ q \in Request
  /\ barrier[q] \in {"pending", "completed"}
  /\ phase[q] \in {"releasing", "done"}

(* A request tries the slot twice at most. *)
TriesCounted ==
  \A r \in Request : /\ phase[r] \in {"queued", "started"} => tries[r] = 0
                     /\ phase[r] = "lookup" => tries[r] \in {0, 1}

(* The barrier of an owner is pending as long as it has the slot. *)
BarrierTold ==
  \A r \in Request : /\ inProgress = r <=> phase[r] \in Scanning
                     /\ barrier[r] = "pending" <=> phase[r] \in Scanning
                     /\ barrier[r] \in {"completed", "failed"} => phase[r] = "done"

(* What is completed, compared with or relied on is a scan; who waits, waits for
   someone who has had the slot. *)
Pointers ==
  /\ completed # None => Scanned(completed)
  /\ \A r \in Request : /\ phase[r] = "validating" => Scanned(found[r])
                        /\ phase[r] = "waiting" =>
                             found[r] \in Request /\ barrier[found[r]] # "absent"
                        /\ source[r] # None => Scanned(source[r])

(* Every analysis is sound, and starts from nothing. *)
ResultSound ==
  \A r \in Request : /\ Sound(result[r])
                     /\ phase[r] \notin {"trusting", "indexing", "inserting", "releasing",
                                         "done"} => result[r] = NewResult

(* A verdict is that of the scan it is based on. *)
VerdictOfSource ==
  \A r \in Request :
    /\ verdict[r] = "allow" => source[r] # None
    /\ source[r] # None =>
         /\ phase[r] = "done"
         /\ verdict[r] = IF AllowScore(result[source[r]].score) THEN "allow" ELSE "block"

(* The file is what an undisturbed request at work has found it to be, *)
AtRest ==
  \A r \in Request : /\ phase[r] \in Active \/ Scanned(r) => stat[r] \in Version
                     /\ phase[r] \in Active /\ r \notin disturbed => file = stat[r]

(* ... and an undisturbed scan is a scan of that. *)
Followed ==
  \A r \in Request \ disturbed :
    /\ phase[r] \in {"hashing", "trusting"} => read[r] = stat[r]
    /\ phase[r] = "trusting" => result[r] = SignatureStage(NewResult, stat[r].findings.sig)
    /\ phase[r] \in {"indexing", "inserting"} \/ Scanned(r) =>
         result[r] = Analysis(stat[r].findings)
    /\ phase[r] = "inserting" \/ Scanned(r) => indexed[r] \in {None, stat[r]}

(* Who relies on a scan, or is about to, is about the version that was scanned. *)
SameVersion ==
  \A r \in Request :
    /\ phase[r] = "validating" =>
         stat[found[r]].stamp = stat[r].stamp /\ indexed[found[r]] # None
    /\ phase[r] = "waiting" /\ {r, found[r]} \cap disturbed = {} => stat[found[r]] = stat[r]
    /\ /\ source[r] # None /\ {r, source[r]} \cap disturbed = {}
       /\ indexed[source[r]] # None
       => stat[source[r]] = stat[r]

Inv ==
  /\ TypeOK
  /\ TriesCounted /\ BarrierTold /\ Pointers
  /\ ResultSound /\ VerdictOfSource
  /\ AtRest /\ Followed /\ SameVersion

-----------------------------------------------------------------------------
(* Facts about the stages. *)

(* An analysis is sound when it begins. *)
LEMMA NewIsSound == Sound(NewResult)
BY DEF Sound, NewResult, Result, AllowScore, STAT_BLOCK_THRESHOLD

(* The check at the end of a stage makes an analysis sound again. *)
LEMMA CheckIsSound ==
  ASSUME NEW a \in Result, ~a.blocked
  PROVE  Sound(BlockAbove(a))
<1>1. CASE a.score > STAT_BLOCK_THRESHOLD
  <2> DEFINE b == [a EXCEPT !.blocked = TRUE]
  <2>1. b \in Result /\ b.blocked = TRUE /\ b.score = a.score
    BY DEF Result
  <2>2. ~AllowScore(b.score)
    BY <1>1, <2>1 DEF AllowScore, STAT_BLOCK_THRESHOLD, Result
  <2>3. QED
    BY <1>1, <2>1, <2>2 DEF Sound, BlockAbove
<1>2. CASE ~ (a.score > STAT_BLOCK_THRESHOLD)
  <2>1. AllowScore(a.score)
    BY <1>2 DEF AllowScore, STAT_BLOCK_THRESHOLD, Result
  <2>2. QED
    BY <1>2, <2>1 DEF Sound, BlockAbove
<1>3. QED
  BY <1>1, <1>2

(* Points change the score only. *)
LEMMA AddKeeps ==
  ASSUME NEW a \in Result, NEW points \in Int
  PROVE  Add(a, points) \in Result /\ Add(a, points).blocked = a.blocked
BY DEF Add, Result

(* An analysis is sound after the stage of the signatures, whatever they match. *)
LEMMA SignatureSound ==
  ASSUME NEW sig \in Int
  PROVE  Sound(SignatureStage(NewResult, sig))
<1>1. CASE sig = 0
  BY <1>1, NewIsSound DEF SignatureStage
<1>2. CASE sig # 0
  <2>1. Add(NewResult, sig) \in Result /\ ~Add(NewResult, sig).blocked
    <3>1. NewResult \in Result /\ NewResult.blocked = FALSE
      BY DEF NewResult, Result
    <3>2. QED
      BY <3>1, AddKeeps
  <2>2. QED
    BY <1>2, <2>1, CheckIsSound DEF SignatureStage
<1>3. QED
  BY <1>1, <1>2

(* A sound analysis is sound after the stages of the whole file. *)
LEMMA TrustSound ==
  ASSUME NEW a, Sound(a), NEW trust \in Trust
  PROVE  Sound(FileStages(a, trust))
<1>1. CASE a.blocked
  BY <1>1 DEF FileStages
<1>2. CASE ~a.blocked
  <2>1. TrustScore(trust) \in Int
    BY DEF TrustScore, Trust
  <2>2. Add(a, TrustScore(trust)) \in Result /\ ~Add(a, TrustScore(trust)).blocked
    BY <1>2, <2>1 DEF Add, Sound, Result
  <2>3. QED
    BY <1>2, <2>2, CheckIsSound DEF FileStages, AuthenticodeStage
<1>3. QED
  BY <1>1, <1>2

(* A sound analysis is sound after the stages of the parsed executable. *)
LEMMA PeSound ==
  ASSUME NEW a, Sound(a), NEW pe
  PROVE  Sound(PeStages(a, pe))
<1>1. CASE a.blocked
  BY <1>1 DEF PeStages
<1>2. CASE ~a.blocked /\ pe = Unparsed
  BY <1>2 DEF PeStages, MlStage, HeuristicStage
<1>3. CASE ~a.blocked /\ pe # Unparsed
  <2>1. HeurScore(pe) \in Int
    BY DEF HeurScore
  <2> DEFINE b == MlStage(a, pe)
             c == Add(b, HeurScore(pe))
  <2>2. b \in Result /\ ~b.blocked
    BY <1>3 DEF MlStage, Add, Sound, Result
  <2> HIDE DEF b
  <2>3. c \in Result /\ ~c.blocked
    BY <2>1, <2>2 DEF Add, Result
  <2> HIDE DEF c
  <2>4. Sound(BlockAbove(c))
    BY <2>3, CheckIsSound
  <2>5. PeStages(a, pe) = BlockAbove(c)
    BY <1>3 DEF PeStages, HeuristicStage, b, c
  <2>6. QED
    BY <2>4, <2>5
<1>4. QED
  BY <1>1, <1>2, <1>3

-----------------------------------------------------------------------------
(* Initially. *)
LEMMA Initial == Init => Inv
<1> SUFFICES ASSUME Init PROVE Inv
  OBVIOUS
<1>1. TypeOK
  BY ConstantsAssumption DEF Init, TypeOK, Phase, Busy, NewResult
<1>2. ResultSound
  BY NewIsSound DEF Init, ResultSound
<1>3. TriesCounted /\ BarrierTold /\ Pointers /\ VerdictOfSource
  BY ConstantsAssumption
  DEF Init, TriesCounted, BarrierTold, Pointers, VerdictOfSource, Scanning
<1>4. AtRest /\ Followed /\ SameVersion
  BY DEF Init, AtRest, Followed, SameVersion, Scanned, Active, Scanning
<1>5. QED
  BY <1>1, <1>2, <1>3, <1>4 DEF Inv

-----------------------------------------------------------------------------
(* Every step keeps the invariant, one part of it at a time. *)

(* Only a request that comes back to the lookup has tried the slot. *)
LEMMA TriesCountedKept ==
  ASSUME Inv, [Next]_vars
  PROVE  TriesCounted'
<1>1. ASSUME NEW v \in Version \cup {None}, Replace(v)
      PROVE  TriesCounted'
  BY <1>1 DEF TriesCounted, Replace, answer, Inv
<1>2. ASSUME Evict
      PROVE  TriesCounted'
  BY <1>2 DEF TriesCounted, Evict, answer, Inv
<1>3. ASSUME NEW r \in Request, Start(r)
      PROVE  TriesCounted'
  BY <1>3 DEF TriesCounted, Start, Goto, answer, Inv
<1>4. ASSUME NEW r \in Request, Stat(r)
      PROVE  TriesCounted'
  BY <1>4 DEF TriesCounted, Stat, Goto, BlockUnscanned, Answer, answer, TypeOK, Inv
<1>5. ASSUME NEW r \in Request, Lookup(r)
      PROVE  TriesCounted'
  BY <1>5 DEF TriesCounted, Lookup, Goto, Reuse, Answer, TypeOK, Inv
<1>6. ASSUME NEW r \in Request, Validate(r)
      PROVE  TriesCounted'
  BY <1>6 DEF TriesCounted, Validate, Goto, Reuse, Answer, answer, TypeOK, Inv
<1>7. ASSUME NEW r \in Request, Purge(r)
      PROVE  TriesCounted'
  BY <1>7 DEF TriesCounted, Purge, Goto, answer, Inv
<1>8. ASSUME NEW r \in Request, Claim(r)
      PROVE  TriesCounted'
  BY <1>8 DEF TriesCounted, Claim, Goto, TypeOK, Inv
<1>9. ASSUME NEW r \in Request, Woken(r)
      PROVE  TriesCounted'
  BY <1>9 DEF TriesCounted, Woken, Reuse, Answer, Goto, Inv
<1>10. ASSUME NEW r \in Request, GiveUp(r)
      PROVE  TriesCounted'
  BY <1>10
  DEF TriesCounted, GiveUp, Goto, TriedTwice, BlockUnscanned, Answer, answer, TypeOK,
      Inv
<1>11. ASSUME NEW r \in Request, Read(r)
      PROVE  TriesCounted'
  BY <1>11
  DEF TriesCounted, Read, Goto, Abort, BlockUnscanned, Answer, answer, TypeOK, Inv
<1>12. ASSUME NEW r \in Request, Hash(r)
      PROVE  TriesCounted'
  BY <1>12 DEF TriesCounted, Hash, Goto, answer, Inv
<1>13. ASSUME NEW r \in Request, CheckTrust(r)
      PROVE  TriesCounted'
  BY <1>13 DEF TriesCounted, CheckTrust, Goto, answer, Inv
<1>14. ASSUME NEW r \in Request, TakeIndex(r)
      PROVE  TriesCounted'
  BY <1>14 DEF TriesCounted, TakeIndex, Goto, answer, Inv
<1>15. ASSUME NEW r \in Request, Insert(r)
      PROVE  TriesCounted'
  BY <1>15 DEF TriesCounted, Insert, Goto, answer, Inv
<1>16. ASSUME NEW r \in Request, Release(r)
      PROVE  TriesCounted'
  BY <1>16 DEF TriesCounted, Release, Goto, Answer, Inv
<1>17. CASE UNCHANGED vars
  BY <1>17 DEF vars, TriesCounted, answer, Inv
<1>18. QED
  BY <1>1, <1>2, <1>3, <1>4, <1>5, <1>6, <1>7, <1>8, <1>9, <1>10, <1>11, <1>12, <1>13,
     <1>14, <1>15, <1>16, <1>17
  DEF Next, Work

(* A slot and its barrier are taken and given back in the same steps. *)
LEMMA BarrierToldKept ==
  ASSUME Inv, [Next]_vars
  PROVE  BarrierTold'
<1>1. ASSUME NEW v \in Version \cup {None}, Replace(v)
      PROVE  BarrierTold'
  BY <1>1 DEF Replace, cache, BarrierTold, Inv
<1>2. ASSUME Evict
      PROVE  BarrierTold'
  BY <1>2 DEF Evict, BarrierTold, Inv
<1>3. ASSUME NEW r \in Request, Start(r)
      PROVE  BarrierTold'
  BY <1>3 DEF Start, Goto, cache, Scanning, BarrierTold, Inv
<1>4. ASSUME NEW r \in Request, Stat(r)
      PROVE  BarrierTold'
  BY <1>4
  DEF Stat, Goto, BlockUnscanned, Answer, cache, Scanning, BarrierTold, TypeOK, Inv
<1>5. ASSUME NEW r \in Request, Lookup(r)
      PROVE  BarrierTold'
  BY <1>5 DEF Lookup, Goto, Reuse, Answer, cache, Scanning, BarrierTold, TypeOK, Inv
<1>6. ASSUME NEW r \in Request, Validate(r)
      PROVE  BarrierTold'
  BY <1>6 DEF Validate, Goto, Reuse, Answer, cache, Scanning, BarrierTold, TypeOK, Inv
<1>7. ASSUME NEW r \in Request, Purge(r)
      PROVE  BarrierTold'
  BY <1>7 DEF Purge, Goto, Scanning, BarrierTold, Inv
<1>8. ASSUME NEW r \in Request, Claim(r)
      PROVE  BarrierTold'
  BY <1>8, ConstantsAssumption DEF Claim, Goto, Scanning, BarrierTold, TypeOK, Inv
<1>9. ASSUME NEW r \in Request, Woken(r)
      PROVE  BarrierTold'
  BY <1>9 DEF Woken, Reuse, Answer, Goto, cache, Scanning, BarrierTold, Inv
<1>10. ASSUME NEW r \in Request, GiveUp(r)
      PROVE  BarrierTold'
  BY <1>10
  DEF GiveUp, Goto, TriedTwice, BlockUnscanned, Answer, cache, Scanning, BarrierTold,
      TypeOK, Inv
<1>11. ASSUME NEW r \in Request, Read(r)
      PROVE  BarrierTold'
  BY <1>11, ConstantsAssumption
  DEF Read, Goto, Abort, BlockUnscanned, Answer, cache, Scanning, BarrierTold, TypeOK,
      Inv
<1>12. ASSUME NEW r \in Request, Hash(r)
      PROVE  BarrierTold'
  BY <1>12 DEF Hash, Goto, cache, Scanning, BarrierTold, Inv
<1>13. ASSUME NEW r \in Request, CheckTrust(r)
      PROVE  BarrierTold'
  BY <1>13 DEF CheckTrust, Goto, cache, Scanning, BarrierTold, Inv
<1>14. ASSUME NEW r \in Request, TakeIndex(r)
      PROVE  BarrierTold'
  BY <1>14 DEF TakeIndex, Goto, cache, Scanning, BarrierTold, Inv
<1>15. ASSUME NEW r \in Request, Insert(r)
      PROVE  BarrierTold'
  BY <1>15 DEF Insert, Goto, Scanning, BarrierTold, Inv
<1>16. ASSUME NEW r \in Request, Release(r)
      PROVE  BarrierTold'
  BY <1>16, ConstantsAssumption
  DEF Release, Goto, Answer, Scanning, BarrierTold, TypeOK, Inv
<1>17. CASE UNCHANGED vars
  BY <1>17 DEF vars, cache, BarrierTold, Inv
<1>18. QED
  BY <1>1, <1>2, <1>3, <1>4, <1>5, <1>6, <1>7, <1>8, <1>9, <1>10, <1>11, <1>12, <1>13,
     <1>14, <1>15, <1>16, <1>17
  DEF Next, Work

(* Who is pointed to stays a scan, or an owner. *)
LEMMA PointersKept ==
  ASSUME Inv, [Next]_vars
  PROVE  Pointers'
<1>1. ASSUME NEW v \in Version \cup {None}, Replace(v)
      PROVE  Pointers'
  BY <1>1 DEF Replace, answer, cache, Pointers, Scanned, Inv
<1>2. ASSUME Evict
      PROVE  Pointers'
  BY <1>2 DEF Evict, answer, Pointers, Scanned, Inv
<1>3. ASSUME NEW r \in Request, Start(r)
      PROVE  Pointers'
  BY <1>3 DEF Start, Goto, answer, cache, Pointers, Scanned, Inv
<1>4. ASSUME NEW r \in Request, Stat(r)
      PROVE  Pointers'
  BY <1>4
  DEF Stat, Goto, BlockUnscanned, Answer, answer, cache, Scanning, Pointers, Scanned,
      BarrierTold, TypeOK, Inv
<1>5. ASSUME NEW r \in Request, Lookup(r)
      PROVE  Pointers'
  <2>1. CASE Reuse(r, completed) /\ completed # None
    BY <1>5, <2>1
    DEF Pointers, Lookup, Reuse, Answer, Goto, Inv, TypeOK, Scanned, scan, cache
  <2>2. CASE /\ \E p \in {"claim", "purge"} : Goto(r, p)
             /\ found' = [found EXCEPT ![r] = completed]
             /\ UNCHANGED <<verdict, source>>
    BY <1>5, <2>2 DEF Pointers, Lookup, Goto, Inv, TypeOK, Scanned, scan, cache
  <2>3. CASE /\ completed # None
             /\ Goto(r, "validating")
             /\ found' = [found EXCEPT ![r] = completed]
             /\ UNCHANGED <<verdict, source>>
    BY <1>5, <2>3 DEF Pointers, Lookup, Goto, Inv, TypeOK, Scanned, scan, cache
  <2>4. QED
    BY <1>5, <2>1, <2>2, <2>3 DEF Lookup
<1>6. ASSUME NEW r \in Request, Validate(r)
      PROVE  Pointers'
  BY <1>6
  DEF Validate, Goto, Reuse, Answer, answer, cache, Scanning, Pointers, Scanned,
      BarrierTold, TypeOK, Inv
<1>7. ASSUME NEW r \in Request, Purge(r)
      PROVE  Pointers'
  BY <1>7 DEF Purge, Goto, answer, Pointers, Scanned, Inv
<1>8. ASSUME NEW r \in Request, Claim(r)
      PROVE  Pointers'
  BY <1>8 DEF Claim, Goto, Pointers, Scanned, BarrierTold, TypeOK, Inv
<1>9. ASSUME NEW r \in Request, Woken(r)
      PROVE  Pointers'
  BY <1>9
  DEF Woken, Reuse, Answer, Goto, cache, Pointers, Scanned, BarrierTold, TypeOK, Inv
<1>10. ASSUME NEW r \in Request, GiveUp(r)
      PROVE  Pointers'
  <2>1. UNCHANGED <<completed, barrier>> /\ phase[r] = "waiting"
    BY <1>10 DEF GiveUp, cache
  <2>2. CASE Goto(r, "lookup") /\ UNCHANGED answer
    BY <2>1, <2>2 DEF Goto, answer, Pointers, Scanned, TypeOK, Inv
  <2>3. CASE BlockUnscanned(r)
    BY <2>1, <2>3 DEF BlockUnscanned, Answer, Goto, Pointers, Scanned, TypeOK, Inv
  <2>4. QED
    BY <1>10, <2>2, <2>3 DEF GiveUp, TriedTwice
<1>11. ASSUME NEW r \in Request, Read(r)
      PROVE  Pointers'
  <2>1. CASE Abort(r) /\ BlockUnscanned(r)
    BY <1>11, <2>1, ConstantsAssumption
    DEF Pointers, Read, Abort, BlockUnscanned, Answer, Goto, Inv, TypeOK, Scanned, cache
  <2>2. CASE Goto(r, "hashing") /\ UNCHANGED <<cache, answer>>
    BY <1>11, <2>2 DEF Pointers, Read, Goto, Inv, TypeOK, Scanned, cache, answer
  <2>3. QED
    BY <1>11, <2>1, <2>2 DEF Read
<1>12. ASSUME NEW r \in Request, Hash(r)
      PROVE  Pointers'
  BY <1>12 DEF Hash, Goto, answer, cache, Pointers, Scanned, Inv
<1>13. ASSUME NEW r \in Request, CheckTrust(r)
      PROVE  Pointers'
  BY <1>13 DEF CheckTrust, Goto, answer, cache, Pointers, Scanned, Inv
<1>14. ASSUME NEW r \in Request, TakeIndex(r)
      PROVE  Pointers'
  BY <1>14 DEF TakeIndex, Goto, answer, cache, Pointers, Scanned, Inv
<1>15. ASSUME NEW r \in Request, Insert(r)
      PROVE  Pointers'
  BY <1>15
  DEF Insert, Goto, answer, Scanning, Pointers, Scanned, BarrierTold, TypeOK, Inv
<1>16. ASSUME NEW r \in Request, Release(r)
      PROVE  Pointers'
  BY <1>16 DEF Release, Goto, Answer, Pointers, Scanned, TypeOK, Inv
<1>17. CASE UNCHANGED vars
  BY <1>17 DEF vars, answer, cache, Pointers, Scanned, Inv
<1>18. QED
  BY <1>1, <1>2, <1>3, <1>4, <1>5, <1>6, <1>7, <1>8, <1>9, <1>10, <1>11, <1>12, <1>13,
     <1>14, <1>15, <1>16, <1>17
  DEF Next, Work

(* Every stage is given a sound analysis. *)
LEMMA ResultSoundKept ==
  ASSUME Inv, [Next]_vars
  PROVE  ResultSound'
<1>1. ASSUME NEW v \in Version \cup {None}, Replace(v)
      PROVE  ResultSound'
  BY <1>1 DEF Replace, scan, ResultSound, Inv
<1>2. ASSUME Evict
      PROVE  ResultSound'
  BY <1>2 DEF Evict, scan, ResultSound, Inv
<1>3. ASSUME NEW r \in Request, Start(r)
      PROVE  ResultSound'
  BY <1>3 DEF Start, Goto, scan, ResultSound, TypeOK, Inv
<1>4. ASSUME NEW r \in Request, Stat(r)
      PROVE  ResultSound'
  BY <1>4 DEF Stat, Goto, BlockUnscanned, Answer, scan, ResultSound, TypeOK, Inv
<1>5. ASSUME NEW r \in Request, Lookup(r)
      PROVE  ResultSound'
  BY <1>5 DEF Lookup, Goto, Reuse, Answer, scan, ResultSound, TypeOK, Inv
<1>6. ASSUME NEW r \in Request, Validate(r)
      PROVE  ResultSound'
  BY <1>6 DEF Validate, Goto, Reuse, Answer, scan, ResultSound, TypeOK, Inv
<1>7. ASSUME NEW r \in Request, Purge(r)
      PROVE  ResultSound'
  BY <1>7 DEF Purge, Goto, scan, ResultSound, TypeOK, Inv
<1>8. ASSUME NEW r \in Request, Claim(r)
      PROVE  ResultSound'
  BY <1>8 DEF Claim, Goto, scan, ResultSound, TypeOK, Inv
<1>9. ASSUME NEW r \in Request, Woken(r)
      PROVE  ResultSound'
  BY <1>9 DEF Woken, Reuse, Answer, Goto, scan, ResultSound, Inv
<1>10. ASSUME NEW r \in Request, GiveUp(r)
      PROVE  ResultSound'
  BY <1>10
  DEF GiveUp, Goto, TriedTwice, BlockUnscanned, Answer, scan, ResultSound, TypeOK, Inv
<1>11. ASSUME NEW r \in Request, Read(r)
      PROVE  ResultSound'
  BY <1>11 DEF Read, Goto, Abort, BlockUnscanned, Answer, ResultSound, TypeOK, Inv
<1>12. ASSUME NEW r \in Request, Hash(r)
      PROVE  ResultSound'
  <2>1. PICK sig \in 0 .. 100 : result' = [result EXCEPT ![r] = SignatureStage(@, sig)]
    BY <1>12 DEF Hash
  <2>2. result[r] = NewResult
    BY <1>12 DEF Hash, Inv, ResultSound, Phase, Busy, Active, Scanning
  <2>3. Sound(SignatureStage(result[r], sig))
    BY <2>2, SignatureSound
  <2>4. QED
    BY <1>12, <2>1, <2>3 DEF ResultSound, Hash, Goto, Inv, TypeOK
<1>13. ASSUME NEW r \in Request, CheckTrust(r)
      PROVE  ResultSound'
  <2>1. PICK trust \in Trust :
          result' = [result EXCEPT ![r] =
                          PeStages(FileStages(@, trust), read[r].findings.pe)]
    BY <1>13 DEF CheckTrust
  <2>2. Sound(FileStages(result[r], trust))
    BY TrustSound DEF Inv, ResultSound
  <2>3. Sound(PeStages(FileStages(result[r], trust), read[r].findings.pe))
    BY <2>2, PeSound
  <2>4. QED
    BY <1>13, <2>1, <2>3 DEF ResultSound, CheckTrust, Goto, Inv, TypeOK
<1>14. ASSUME NEW r \in Request, TakeIndex(r)
      PROVE  ResultSound'
  BY <1>14 DEF TakeIndex, Goto, ResultSound, Inv
<1>15. ASSUME NEW r \in Request, Insert(r)
      PROVE  ResultSound'
  BY <1>15 DEF Insert, Goto, scan, ResultSound, Inv
<1>16. ASSUME NEW r \in Request, Release(r)
      PROVE  ResultSound'
  BY <1>16 DEF Release, Goto, Answer, scan, ResultSound, Inv
<1>17. CASE UNCHANGED vars
  BY <1>17 DEF vars, scan, ResultSound, Inv
<1>18. QED
  BY <1>1, <1>2, <1>3, <1>4, <1>5, <1>6, <1>7, <1>8, <1>9, <1>10, <1>11, <1>12, <1>13,
     <1>14, <1>15, <1>16, <1>17
  DEF Next, Work

(* A verdict is set from a scan, and the result of a scan is not changed. *)
LEMMA VerdictOfSourceKept ==
  ASSUME Inv, [Next]_vars
  PROVE  VerdictOfSource'
<1>1. ASSUME NEW v \in Version \cup {None}, Replace(v)
      PROVE  VerdictOfSource'
  BY <1>1 DEF VerdictOfSource, Replace, answer, scan, Inv
<1>2. ASSUME Evict
      PROVE  VerdictOfSource'
  BY <1>2 DEF VerdictOfSource, Evict, answer, scan, Inv
<1>3. ASSUME NEW r \in Request, Start(r)
      PROVE  VerdictOfSource'
  BY <1>3 DEF VerdictOfSource, Start, Goto, answer, scan, Inv
<1>4. ASSUME NEW r \in Request, Stat(r)
      PROVE  VerdictOfSource'
  BY <1>4
  DEF VerdictOfSource, Stat, Goto, BlockUnscanned, Answer, answer, scan, TypeOK, Inv
<1>5. ASSUME NEW r \in Request, Lookup(r)
      PROVE  VerdictOfSource'
  BY <1>5 DEF VerdictOfSource, Lookup, Goto, Reuse, Answer, scan, TypeOK, Inv
<1>6. ASSUME NEW r \in Request, Validate(r)
      PROVE  VerdictOfSource'
  BY <1>6, ConstantsAssumption
  DEF VerdictOfSource, Validate, Goto, Reuse, Answer, answer, scan, Pointers, Scanned,
      TypeOK, Inv
<1>7. ASSUME NEW r \in Request, Purge(r)
      PROVE  VerdictOfSource'
  BY <1>7 DEF VerdictOfSource, Purge, Goto, answer, scan, Inv
<1>8. ASSUME NEW r \in Request, Claim(r)
      PROVE  VerdictOfSource'
  BY <1>8 DEF VerdictOfSource, Claim, Goto, scan, TypeOK, Inv
<1>9. ASSUME NEW r \in Request, Woken(r)
      PROVE  VerdictOfSource'
  BY <1>9, ConstantsAssumption
  DEF VerdictOfSource, Woken, Reuse, Answer, Goto, scan, Pointers, TypeOK, Inv
<1>10. ASSUME NEW r \in Request, GiveUp(r)
      PROVE  VerdictOfSource'
  BY <1>10
  DEF VerdictOfSource, GiveUp, Goto, TriedTwice, BlockUnscanned, Answer, answer, scan,
      TypeOK, Inv
<1>11. ASSUME NEW r \in Request, Read(r)
      PROVE  VerdictOfSource'
  BY <1>11
  DEF VerdictOfSource, Read, Goto, Abort, BlockUnscanned, Answer, answer, TypeOK, Inv
<1>12. ASSUME NEW r \in Request, Hash(r)
      PROVE  VerdictOfSource'
  BY <1>12 DEF VerdictOfSource, Hash, Goto, answer, Pointers, Scanned, Inv
<1>13. ASSUME NEW r \in Request, CheckTrust(r)
      PROVE  VerdictOfSource'
  BY <1>13 DEF VerdictOfSource, CheckTrust, Goto, answer, Pointers, Scanned, Inv
<1>14. ASSUME NEW r \in Request, TakeIndex(r)
      PROVE  VerdictOfSource'
  BY <1>14 DEF VerdictOfSource, TakeIndex, Goto, answer, Inv
<1>15. ASSUME NEW r \in Request, Insert(r)
      PROVE  VerdictOfSource'
  BY <1>15 DEF VerdictOfSource, Insert, Goto, answer, scan, Inv
<1>16. ASSUME NEW r \in Request, Release(r)
      PROVE  VerdictOfSource'
  <2>1. Sound(result[r]) /\ verdict[r] \in {"none", "block", "allow"}
    BY <1>16 DEF Inv, ResultSound, TypeOK
  <2>2. ~result[r].blocked <=> AllowScore(result[r].score)
    BY <2>1 DEF Sound, Result
  <2>3. verdict' = [verdict EXCEPT ![r] =
                      IF AllowScore(result[r].score) THEN "allow" ELSE "block"]
    BY <1>16, <2>2 DEF Release, Answer
  <2>4. QED
    BY <1>16, <2>3, ConstantsAssumption
    DEF VerdictOfSource, Release, Answer, Goto, Inv, TypeOK, Pointers, Scanned, scan
<1>17. CASE UNCHANGED vars
  BY <1>17 DEF vars, VerdictOfSource, answer, scan, Inv
<1>18. QED
  BY <1>1, <1>2, <1>3, <1>4, <1>5, <1>6, <1>7, <1>8, <1>9, <1>10, <1>11, <1>12, <1>13,
     <1>14, <1>15, <1>16, <1>17
  DEF Next, Work

(* A replacement of the file disturbs every request at work. *)
LEMMA AtRestKept ==
  ASSUME Inv, [Next]_vars
  PROVE  AtRest'
<1>1. ASSUME NEW v \in Version \cup {None}, Replace(v)
      PROVE  AtRest'
  BY <1>1 DEF Replace, cache, AtRest, Scanned, Inv
<1>2. ASSUME Evict
      PROVE  AtRest'
  BY <1>2 DEF Evict, disk, AtRest, Scanned, Inv
<1>3. ASSUME NEW r \in Request, Start(r)
      PROVE  AtRest'
  BY <1>3 DEF Start, Goto, disk, cache, Active, Scanning, AtRest, Scanned, Inv
<1>4. ASSUME NEW r \in Request, Stat(r)
      PROVE  AtRest'
  BY <1>4
  DEF Stat, Goto, BlockUnscanned, Answer, disk, cache, Active, Scanning, AtRest,
      Scanned, BarrierTold, TypeOK, Inv
<1>5. ASSUME NEW r \in Request, Lookup(r)
      PROVE  AtRest'
  BY <1>5
  DEF Lookup, Goto, Reuse, Answer, disk, cache, Active, AtRest, Scanned, TypeOK, Inv
<1>6. ASSUME NEW r \in Request, Validate(r)
      PROVE  AtRest'
  BY <1>6
  DEF Validate, Goto, Reuse, Answer, disk, cache, Active, AtRest, Scanned, TypeOK, Inv
<1>7. ASSUME NEW r \in Request, Purge(r)
      PROVE  AtRest'
  BY <1>7 DEF Purge, Goto, disk, Active, AtRest, Scanned, Inv
<1>8. ASSUME NEW r \in Request, Claim(r)
      PROVE  AtRest'
  BY <1>8 DEF Claim, Goto, disk, Active, AtRest, Scanned, TypeOK, Inv
<1>9. ASSUME NEW r \in Request, Woken(r)
      PROVE  AtRest'
  BY <1>9 DEF Woken, Reuse, Answer, Goto, disk, cache, Active, AtRest, Scanned, Inv
<1>10. ASSUME NEW r \in Request, GiveUp(r)
      PROVE  AtRest'
  BY <1>10
  DEF GiveUp, Goto, TriedTwice, BlockUnscanned, Answer, disk, cache, Active, AtRest,
      Scanned, TypeOK, Inv
<1>11. ASSUME NEW r \in Request, Read(r)
      PROVE  AtRest'
  BY <1>11
  DEF Read, Goto, Abort, BlockUnscanned, Answer, disk, cache, Active, Scanning, AtRest,
      Scanned, TypeOK, Inv
<1>12. ASSUME NEW r \in Request, Hash(r)
      PROVE  AtRest'
  BY <1>12 DEF Hash, Goto, disk, cache, Active, Scanning, AtRest, Scanned, Inv
<1>13. ASSUME NEW r \in Request, CheckTrust(r)
      PROVE  AtRest'
  BY <1>13 DEF CheckTrust, Goto, disk, cache, Active, Scanning, AtRest, Scanned, Inv
<1>14. ASSUME NEW r \in Request, TakeIndex(r)
      PROVE  AtRest'
  BY <1>14 DEF TakeIndex, Goto, disk, cache, Active, Scanning, AtRest, Scanned, Inv
<1>15. ASSUME NEW r \in Request, Insert(r)
      PROVE  AtRest'
  BY <1>15 DEF Insert, Goto, disk, Active, Scanning, AtRest, Scanned, Inv
<1>16. ASSUME NEW r \in Request, Release(r)
      PROVE  AtRest'
  BY <1>16 DEF Release, Goto, Answer, disk, Active, Scanning, AtRest, Scanned, Inv
<1>17. CASE UNCHANGED vars
  BY <1>17 DEF vars, disk, cache, AtRest, Scanned, Inv
<1>18. QED
  BY <1>1, <1>2, <1>3, <1>4, <1>5, <1>6, <1>7, <1>8, <1>9, <1>10, <1>11, <1>12, <1>13,
     <1>14, <1>15, <1>16, <1>17
  DEF Next, Work

(* Each stage of an undisturbed scan reads the version that was found. *)
LEMMA FollowedKept ==
  ASSUME Inv, [Next]_vars
  PROVE  Followed'
<1>1. ASSUME NEW v \in Version \cup {None}, Replace(v)
      PROVE  Followed'
  BY <1>1 DEF Replace, scan, cache, Followed, Scanned, Inv
<1>2. ASSUME Evict
      PROVE  Followed'
  BY <1>2 DEF Evict, scan, Followed, Scanned, Inv
<1>3. ASSUME NEW r \in Request, Start(r)
      PROVE  Followed'
  BY <1>3 DEF Start, Goto, scan, cache, Followed, Scanned, Inv
<1>4. ASSUME NEW r \in Request, Stat(r)
      PROVE  Followed'
  BY <1>4
  DEF Stat, Goto, BlockUnscanned, Answer, scan, cache, Scanning, Followed, Scanned,
      BarrierTold, TypeOK, Inv
<1>5. ASSUME NEW r \in Request, Lookup(r)
      PROVE  Followed'
  BY <1>5
  DEF Lookup, Goto, Reuse, Answer, scan, cache, Scanning, Followed, Scanned,
      BarrierTold, TypeOK, Inv
<1>6. ASSUME NEW r \in Request, Validate(r)
      PROVE  Followed'
  BY <1>6
  DEF Validate, Goto, Reuse, Answer, scan, cache, Scanning, Followed, Scanned,
      BarrierTold, TypeOK, Inv
<1>7. ASSUME NEW r \in Request, Purge(r)
      PROVE  Followed'
  BY <1>7 DEF Purge, Goto, scan, Followed, Scanned, Inv
<1>8. ASSUME NEW r \in Request, Claim(r)
      PROVE  Followed'
  BY <1>8 DEF Claim, Goto, scan, Followed, Scanned, TypeOK, Inv
<1>9. ASSUME NEW r \in Request, Woken(r)
      PROVE  Followed'
  BY <1>9
  DEF Woken, Reuse, Answer, Goto, scan, cache, Scanning, Followed, Scanned, BarrierTold,
      Inv
<1>10. ASSUME NEW r \in Request, GiveUp(r)
      PROVE  Followed'
  BY <1>10
  DEF GiveUp, Goto, TriedTwice, BlockUnscanned, Answer, scan, cache, Scanning, Followed,
      Scanned, BarrierTold, TypeOK, Inv
<1>11. ASSUME NEW r \in Request, Read(r)
      PROVE  Followed'
  BY <1>11
  DEF Read, Goto, Abort, BlockUnscanned, Answer, cache, Active, Scanning, AtRest,
      Followed, Scanned, TypeOK, Inv
<1>12. ASSUME NEW r \in Request, Hash(r)
      PROVE  Followed'
  BY <1>12
  DEF Hash, Goto, cache, Active, Scanning, AtRest, Followed, ResultSound, Scanned,
      TypeOK, Inv
<1>13. ASSUME NEW r \in Request, CheckTrust(r)
      PROVE  Followed'
  <2> USE DEF Inv
  <2>1. PICK trust \in Trust :
          /\ \/ file # None /\ trust = file.findings.trust /\ UNCHANGED disturbed
             \/ disturbed' = disturbed \cup {r}
          /\ result' = [result EXCEPT ![r] =
                          PeStages(FileStages(@, trust), read[r].findings.pe)]
    BY <1>13 DEF CheckTrust
  <2>2. r \notin disturbed' => result'[r] = Analysis(stat[r].findings)
    <3>1. SUFFICES ASSUME r \notin disturbed' PROVE result'[r] = Analysis(stat[r].findings)
      OBVIOUS
    <3>2. r \notin disturbed /\ trust = file.findings.trust
      BY <2>1, <3>1
    <3>3. /\ file = stat[r] /\ read[r] = stat[r]
          /\ result[r] = SignatureStage(NewResult, stat[r].findings.sig)
      BY <1>13, <3>2 DEF CheckTrust, AtRest, Followed, Active, Scanning
    <3>4. result'[r] = PeStages(FileStages(result[r], trust), read[r].findings.pe)
      BY <2>1 DEF TypeOK
    <3>5. QED
      BY <3>2, <3>3, <3>4 DEF Analysis
  <2>3. disturbed \subseteq disturbed' /\ \A q \in Request \ {r} : result'[q] = result[q]
    BY <2>1 DEF TypeOK
  <2>4. QED
    BY <1>13, <2>2, <2>3 DEF Followed, CheckTrust, Goto, TypeOK, Scanned, cache
<1>14. ASSUME NEW r \in Request, TakeIndex(r)
      PROVE  Followed'
  BY <1>14
  DEF TakeIndex, Goto, cache, Active, Scanning, AtRest, Followed, Scanned, TypeOK, Inv
<1>15. ASSUME NEW r \in Request, Insert(r)
      PROVE  Followed'
  BY <1>15 DEF Insert, Goto, scan, Followed, Scanned, Inv
<1>16. ASSUME NEW r \in Request, Release(r)
      PROVE  Followed'
  BY <1>16
  DEF Release, Goto, Answer, scan, Scanning, Followed, Scanned, BarrierTold, Inv
<1>17. CASE UNCHANGED vars
  BY <1>17 DEF vars, scan, cache, Followed, Scanned, Inv
<1>18. QED
  BY <1>1, <1>2, <1>3, <1>4, <1>5, <1>6, <1>7, <1>8, <1>9, <1>10, <1>11, <1>12, <1>13,
     <1>14, <1>15, <1>16, <1>17
  DEF Next, Work

(* Only Validate makes a request rely on an index, and two versions of one
   stamp and one index are the same. *)
LEMMA SameVersionKept ==
  ASSUME Inv, [Next]_vars
  PROVE  SameVersion'
<1>1. ASSUME NEW v \in Version \cup {None}, Replace(v)
      PROVE  SameVersion'
  BY <1>1 DEF SameVersion, Replace, answer, scan, Inv
<1>2. ASSUME Evict
      PROVE  SameVersion'
  BY <1>2 DEF SameVersion, Evict, answer, scan, Inv
<1>3. ASSUME NEW r \in Request, Start(r)
      PROVE  SameVersion'
  BY <1>3 DEF SameVersion, Start, Goto, answer, scan, Inv
<1>4. ASSUME NEW r \in Request, Stat(r)
      PROVE  SameVersion'
  <2>1. CASE BlockUnscanned(r) /\ UNCHANGED stat
    BY <1>4, <2>1, ConstantsAssumption
    DEF SameVersion, Stat, BlockUnscanned, Answer, Goto, Inv, TypeOK, Pointers, scan
  <2>2. CASE /\ stat' = [stat EXCEPT ![r] = file]
             /\ Goto(r, "lookup")
             /\ UNCHANGED answer
    <3>1. \A q \in Request : (phase[q] \in {"validating", "waiting"} => found[q] # r)
                             /\ (source[q] # None => source[q] # r)
      BY <1>4 DEF Stat, Inv, TypeOK, Pointers, Scanned, BarrierTold, Scanning
    <3>2. source[r] = None
      BY <1>4 DEF Stat, Inv, VerdictOfSource
    <3>3. QED
      BY <1>4, <2>2, <3>1, <3>2 DEF SameVersion, Stat, Goto, Inv, TypeOK, answer, scan
  <2>3. QED
    BY <1>4, <2>1, <2>2 DEF Stat
<1>5. ASSUME NEW r \in Request, Lookup(r)
      PROVE  SameVersion'
  BY <1>5 DEF SameVersion, Lookup, Goto, Reuse, Answer, scan, TypeOK, Inv
<1>6. ASSUME NEW r \in Request, Validate(r)
      PROVE  SameVersion'
  <2>1. CASE SameIndex(found[r]) /\ Reuse(r, found[r])
    <3> DEFINE q == found[r]
    <3>1. q \in Request /\ Scanned(q) /\ stat[q].stamp = stat[r].stamp /\ indexed[q] # None
      BY <1>6 DEF Validate, Inv, Pointers, Scanned, SameVersion
    <3>2. stat[q] \in Version /\ stat[r] \in Version
      BY <1>6, <3>1 DEF Validate, Inv, AtRest, Active
    <3>3. {r, q} \cap disturbed = {} => stat[q] = stat[r]
      <4>1. SUFFICES ASSUME {r, q} \cap disturbed = {} PROVE stat[q] = stat[r]
        OBVIOUS
      <4>2. file = stat[r] /\ indexed[q] = stat[q]
        BY <1>6, <3>1, <4>1 DEF Validate, Inv, AtRest, Followed, Active
      <4>3. stat[r].index = stat[q].index
        BY <2>1, <4>2 DEF SameIndex
      <4>4. QED
        BY <3>1, <3>2, <4>3, IdentityAssumption
    <3>4. QED
      BY <1>6, <2>1, <3>1, <3>3
      DEF SameVersion, Validate, Reuse, Answer, Goto, Inv, TypeOK, scan
  <2>2. CASE Goto(r, "invalidate") /\ UNCHANGED answer
    BY <1>6, <2>2 DEF SameVersion, Validate, Goto, Inv, TypeOK, answer, scan
  <2>3. QED
    BY <1>6, <2>1, <2>2 DEF Validate
<1>7. ASSUME NEW r \in Request, Purge(r)
      PROVE  SameVersion'
  BY <1>7 DEF SameVersion, Purge, Goto, answer, scan, Inv
<1>8. ASSUME NEW r \in Request, Claim(r)
      PROVE  SameVersion'
  BY <1>8 DEF SameVersion, Claim, Goto, scan, Active, AtRest, BarrierTold, TypeOK, Inv
<1>9. ASSUME NEW r \in Request, Woken(r)
      PROVE  SameVersion'
  BY <1>9 DEF SameVersion, Woken, Reuse, Answer, Goto, scan, TypeOK, Inv
<1>10. ASSUME NEW r \in Request, GiveUp(r)
      PROVE  SameVersion'
  BY <1>10
  DEF SameVersion, GiveUp, Goto, TriedTwice, BlockUnscanned, Answer, answer, scan,
      TypeOK, Inv
<1>11. ASSUME NEW r \in Request, Read(r)
      PROVE  SameVersion'
  BY <1>11
  DEF SameVersion, Read, Goto, Abort, BlockUnscanned, Answer, answer, TypeOK, Inv
<1>12. ASSUME NEW r \in Request, Hash(r)
      PROVE  SameVersion'
  BY <1>12 DEF SameVersion, Hash, Goto, answer, Inv
<1>13. ASSUME NEW r \in Request, CheckTrust(r)
      PROVE  SameVersion'
  BY <1>13 DEF SameVersion, CheckTrust, Goto, answer, Inv
<1>14. ASSUME NEW r \in Request, TakeIndex(r)
      PROVE  SameVersion'
  BY <1>14 DEF SameVersion, TakeIndex, Goto, answer, Pointers, Scanned, Inv
<1>15. ASSUME NEW r \in Request, Insert(r)
      PROVE  SameVersion'
  BY <1>15 DEF SameVersion, Insert, Goto, answer, scan, Inv
<1>16. ASSUME NEW r \in Request, Release(r)
      PROVE  SameVersion'
  BY <1>16 DEF SameVersion, Release, Goto, Answer, scan, Inv
<1>17. CASE UNCHANGED vars
  BY <1>17 DEF vars, SameVersion, answer, scan, Inv
<1>18. QED
  BY <1>1, <1>2, <1>3, <1>4, <1>5, <1>6, <1>7, <1>8, <1>9, <1>10, <1>11, <1>12, <1>13,
     <1>14, <1>15, <1>16, <1>17
  DEF Next, Work

(* An answer, and a request that goes on. *)
LEMMA AnswerType ==
  ASSUME TypeOK, NEW r \in Request, NEW allow, NEW q \in Request \cup {None},
         Answer(r, allow, q)
  PROVE  /\ phase' \in [Request -> Phase]
         /\ tries' \in [Request -> 0 .. 2]
         /\ found' \in [Request -> Request \cup {None}]
         /\ verdict' \in [Request -> {"none", "allow", "block"}]
         /\ source' \in [Request -> Request \cup {None}]
BY DEF Inv, TypeOK, Answer, Goto, Phase

(* Every step keeps the types. *)
LEMMA TypeOKKept ==
  ASSUME Inv, [Next]_vars
  PROVE  TypeOK'
<1>1. ASSUME NEW v \in Version \cup {None}, Replace(v)
      PROVE  TypeOK'
  BY <1>1, ConstantsAssumption DEF Replace, answer, scan, cache, TypeOK, Inv
<1>2. ASSUME Evict
      PROVE  TypeOK'
  BY <1>2 DEF Evict, disk, answer, scan, TypeOK, Inv
<1>3. ASSUME NEW r \in Request, Start(r)
      PROVE  TypeOK'
  BY <1>3 DEF Start, Goto, disk, answer, scan, cache, Phase, Busy, TypeOK, Inv
<1>4. ASSUME NEW r \in Request, Stat(r)
      PROVE  TypeOK'
  <2>1. CASE BlockUnscanned(r) /\ UNCHANGED stat
    BY <1>4, <2>1, AnswerType DEF Inv, TypeOK, Stat, BlockUnscanned, scan, cache, disk
  <2>2. CASE /\ file # None
             /\ stat' = [stat EXCEPT ![r] = file]
             /\ Goto(r, "lookup")
             /\ UNCHANGED answer
    BY <1>4, <2>2
    DEF Inv, TypeOK, Stat, Goto, Phase, Busy, Active, answer, scan, cache, disk
  <2>3. QED
    BY <1>4, <2>1, <2>2 DEF Stat
<1>5. ASSUME NEW r \in Request, Lookup(r)
      PROVE  TypeOK'
  <2>1. CASE Reuse(r, completed) /\ completed # None
    BY <1>5, <2>1, AnswerType DEF Inv, TypeOK, Lookup, Reuse, scan, cache, disk
  <2>2. CASE /\ \E p \in {"claim", "purge", "validating"} : Goto(r, p)
             /\ tries' = [tries EXCEPT ![r] = @ + 1]
             /\ found' = [found EXCEPT ![r] = completed]
             /\ UNCHANGED <<verdict, source>>
    <3>1. tries[r] + 1 \in 0 .. 2
      BY <1>5 DEF Lookup, Inv, TypeOK, TriesCounted
    <3>2. QED
      BY <1>5, <2>2, <3>1
      DEF Inv, TypeOK, Lookup, Goto, Phase, Busy, Active, scan, cache, disk
  <2>3. QED
    BY <1>5, <2>1, <2>2 DEF Lookup
<1>6. ASSUME NEW r \in Request, Validate(r)
      PROVE  TypeOK'
  <2>1. CASE Reuse(r, found[r])
    <3>1. found[r] \in Request
      BY <1>6 DEF Validate, Inv, Pointers, Scanned
    <3>2. QED
      BY <1>6, <2>1, <3>1, AnswerType
      DEF Inv, TypeOK, Validate, Reuse, scan, cache, disk
  <2>2. CASE Goto(r, "invalidate") /\ UNCHANGED answer
    BY <1>6, <2>2
    DEF Inv, TypeOK, Validate, Goto, Phase, Busy, Active, answer, scan, cache, disk
  <2>3. QED
    BY <1>6, <2>1, <2>2 DEF Validate
<1>7. ASSUME NEW r \in Request, Purge(r)
      PROVE  TypeOK'
  BY <1>7 DEF Purge, Goto, disk, answer, scan, Phase, Busy, Active, TypeOK, Inv
<1>8. ASSUME NEW r \in Request, Claim(r)
      PROVE  TypeOK'
  <2>1. CASE inProgress = None
    BY <1>8, <2>1
    DEF Inv, TypeOK, Claim, Goto, Phase, Busy, Active, Scanning, scan, disk
  <2>2. CASE inProgress # None
    BY <1>8, <2>2 DEF Inv, TypeOK, Claim, Goto, Phase, Busy, Active, scan, disk
  <2>3. QED
    BY <2>1, <2>2
<1>9. ASSUME NEW r \in Request, Woken(r)
      PROVE  TypeOK'
  BY <1>9 DEF Woken, Reuse, Answer, Goto, disk, scan, cache, Phase, TypeOK, Inv
<1>10. ASSUME NEW r \in Request, GiveUp(r)
      PROVE  TypeOK'
  <2>1. CASE TriedTwice(r)
    BY <1>10, <2>1, AnswerType
    DEF Inv, TypeOK, GiveUp, TriedTwice, BlockUnscanned, scan, cache, disk
  <2>2. CASE Goto(r, "lookup") /\ UNCHANGED answer
    BY <1>10, <2>2
    DEF Inv, TypeOK, GiveUp, Goto, Phase, Busy, Active, answer, scan, cache, disk
  <2>3. QED
    BY <1>10, <2>1, <2>2 DEF GiveUp
<1>11. ASSUME NEW r \in Request, Read(r)
      PROVE  TypeOK'
  <2>1. CASE Abort(r) /\ BlockUnscanned(r) /\ UNCHANGED read
    BY <1>11, <2>1, AnswerType DEF Inv, TypeOK, Read, Abort, BlockUnscanned, disk
  <2>2. CASE /\ file # None
             /\ read' = [read EXCEPT ![r] = file]
             /\ Goto(r, "hashing")
             /\ UNCHANGED <<cache, answer>>
    BY <1>11, <2>2
    DEF Inv, TypeOK, Read, Goto, Phase, Busy, Active, Scanning, answer, cache, disk
  <2>3. QED
    BY <1>11, <2>1, <2>2 DEF Read
<1>12. ASSUME NEW r \in Request, Hash(r)
      PROVE  TypeOK'
  <2>1. result' \in [Request -> Result]
    <3>1. PICK a : result' = [result EXCEPT ![r] = a]
      BY <1>12 DEF Hash
    <3>2. \A q \in Request : result'[q] \in Result
      BY <1>12, ResultSoundKept DEF ResultSound, Sound, Next, Work
    <3>3. QED
      BY <3>1, <3>2 DEF Inv, TypeOK
  <2>2. QED
    BY <1>12, <2>1
    DEF Inv, TypeOK, Hash, Goto, Phase, Busy, Active, Scanning, answer, cache, disk,
        Result
<1>13. ASSUME NEW r \in Request, CheckTrust(r)
      PROVE  TypeOK'
  <2>1. result' \in [Request -> Result]
    <3>1. PICK a : result' = [result EXCEPT ![r] = a]
      BY <1>13 DEF CheckTrust
    <3>2. \A q \in Request : result'[q] \in Result
      BY <1>13, ResultSoundKept DEF ResultSound, Sound, Next, Work
    <3>3. QED
      BY <3>1, <3>2 DEF Inv, TypeOK
  <2>2. QED
    BY <1>13, <2>1
    DEF Inv, TypeOK, CheckTrust, Goto, Phase, Busy, Active, Scanning, answer, cache,
        disk, Result
<1>14. ASSUME NEW r \in Request, TakeIndex(r)
      PROVE  TypeOK'
  BY <1>14
  DEF TakeIndex, Goto, disk, answer, cache, Phase, Busy, Active, Scanning, TypeOK, Inv
<1>15. ASSUME NEW r \in Request, Insert(r)
      PROVE  TypeOK'
  BY <1>15
  DEF Insert, Goto, disk, answer, scan, Phase, Busy, Active, Scanning, TypeOK, Inv
<1>16. ASSUME NEW r \in Request, Release(r)
      PROVE  TypeOK'
  BY <1>16 DEF Release, Goto, Answer, disk, scan, Phase, TypeOK, Inv
<1>17. CASE UNCHANGED vars
  BY <1>17 DEF vars, disk, answer, scan, cache, TypeOK, Inv
<1>18. QED
  BY <1>1, <1>2, <1>3, <1>4, <1>5, <1>6, <1>7, <1>8, <1>9, <1>10, <1>11, <1>12, <1>13,
     <1>14, <1>15, <1>16, <1>17
  DEF Next, Work

(* The invariant holds in every state. *)
LEMMA Invariance == Spec => []Inv
<1>1. Inv /\ [Next]_vars => Inv'
  BY TypeOKKept, TriesCountedKept, BarrierToldKept, PointersKept, ResultSoundKept,
     VerdictOfSourceKept, AtRestKept, FollowedKept, SameVersionKept
  DEF Inv
<1>2. QED
  BY <1>1, Initial, PTL DEF Spec

-----------------------------------------------------------------------------
(* The theorems. *)

(* Whatever the workers, the file and the cache do, the state is well-formed;
   in particular a request never asks for the slot a third time. *)
THEOREM TypeCorrect == Spec => []TypeOK
<1>1. Inv => TypeOK
  BY DEF Inv
<1>2. QED
  BY <1>1, Invariance, PTL

(* One request scans the path at a time, and a pending barrier always has an
   owner at work: try_acquire_scan, complete_scan_inner and abort_scan_inner. *)
THEOREM ScansAlone == Spec => []OneScanner
<1>1. Inv => OneScanner
  BY DEF Inv, BarrierTold, Pointers, OneScanner
<1>2. QED
  BY <1>1, Invariance, PTL

(* No wait of analyze_event fails open: not one that ends by its timeout, nor the
   second try for the slot, nor a scan given up.  Of failed probes it says nothing. *)
THEOREM WaitsFailClosed == Spec => []AllowNeedsScan
<1>1. Inv => AllowNeedsScan
  <2>1. SUFFICES ASSUME Inv, NEW r \in Request, verdict[r] = "allow"
                 PROVE  /\ source[r] # None
                        /\ Scanned(source[r])
                        /\ AllowScore(result[source[r]].score)
    BY DEF AllowNeedsScan, Scanned
  <2>2. source[r] # None
    BY <2>1 DEF Inv, VerdictOfSource
  <2>3. QED
    BY <2>1, <2>2 DEF Inv, VerdictOfSource, Pointers
<1>2. QED
  BY <1>1, Invariance, PTL

(* A verdict, taken from a scan of one's own, from the cache or from a barrier,
   is the verdict on the file the request is about.  It rests on the identity of
   a content by its stamp and its index. *)
THEOREM VerdictsAreFresh == Spec => []VerdictFresh
<1>1. Inv => VerdictFresh
  <2>1. SUFFICES ASSUME Inv, NEW r \in Request,
                        source[r] # None,
                        {r, source[r]} \cap disturbed = {},
                        indexed[source[r]] # None
                 PROVE  verdict[r] = IF Analysis(stat[r].findings).blocked THEN "block"
                                                                         ELSE "allow"
    BY DEF VerdictFresh
  <2> DEFINE q == source[r]
  <2>2. Scanned(q) /\ q \in Request /\ q \notin disturbed
    BY <2>1 DEF Inv, Pointers, Scanned
  <2>3. stat[q] = stat[r]
    BY <2>1 DEF Inv, SameVersion
  <2>4. result[q] = Analysis(stat[r].findings)
    <3>1. Followed
      BY <2>1 DEF Inv
    <3>2. result[q] = Analysis(stat[q].findings)
      BY <2>2, <3>1 DEF Followed
    <3>3. QED
      BY <2>3, <3>2
  <2>5. result[q].blocked <=> ~AllowScore(result[q].score)
    BY <2>1, <2>2 DEF Inv, ResultSound, Sound, Result
  <2>6. verdict[r] = IF AllowScore(result[q].score) THEN "allow" ELSE "block"
    BY <2>1 DEF Inv, VerdictOfSource
  <2>7. QED
    BY <2>4, <2>5, <2>6
<1>2. QED
  BY <1>1, Invariance, PTL
=============================================================================
