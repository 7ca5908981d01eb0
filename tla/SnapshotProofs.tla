--------------------------- MODULE SnapshotProofs ---------------------------
(***************************************************************************)
(* Theorems about the command pipe, for any clients and files, any size of *)
(* the pipe, any limit on a snapshot and any bounds.                       *)
(*                                                                         *)
(* The invariant follows an answer from the cache to the window: Transfer  *)
(* says what of it has been read, is in the pipe and is still to be        *)
(* written, ShownInOrder that nothing on the way is older than what is     *)
(* shown.                                                                  *)
(***************************************************************************)
EXTENDS Snapshot, Integers, SequenceTheorems, WellFoundedInduction, TLAPS

(* Where the thread of the server may be. *)
ServerStep == {"create", "connect", "read", "snapshot", "write", "disconnect", "close"}

(* Steps of a request that reads its answer, and all of them. *)
Reading     == {"length", "body", "ok"}
RequestAt   == {"open", "wait", "ask", "closed", "loaded"} \cup Reading

(* One chunk of an answer: a list of at most one entry. *)
Chunk == SeqOf(Entry, 1)

(* What the server may hold; one record. *)
Served == [at : ServerStep, todo : SUBSET File, entries : Seq(Entry), parts : Seq(Part)]
(* What a request may hold; one record. *)
Asked  == [by : Client, at : RequestAt, pipe : {"none", "open", "lost"}, asked : BOOLEAN,
           data : Seq(Part), length : 0 .. Limit, got : Seq(Chunk), ok : BOOLEAN,
           answer : Seq(Entry)]

(* The types, fully: every field of the server and of the requests. No file has
   changed more often than all of them together. *)
Typed ==
  /\ agent \in {"up", "down"}
  /\ starts \in 0 .. MaxStarts
  /\ made \in 0 .. MaxChanges
  /\ changes \in [File -> 0 .. MaxChanges] /\ \A f \in File : changes[f] <= made
  /\ cached \subseteq File
  /\ server \in Served
  /\ Len(server.entries) <= Limit
  /\ serving \in Request \cup {None}
  /\ request \in Seq(Asked) /\ Len(request) <= MaxRequests
  /\ \A r \in DOMAIN request :
       Len(request[r].data) <= Size /\ Len(request[r].got) <= Limit
  /\ loading \subseteq Client
  /\ shown \in [Client -> Seq(Entry)]
  /\ state \in [Client -> {"runs", "suspended", "ended"}]

(* Which request the server is about. *)
Serves ==
  /\ server.at = "create" => serving = None
  /\ serving = None => server.at \in {"create", "connect"}
  /\ serving # None => serving \in DOMAIN request /\ request[serving].pipe # "none"
  /\ agent = "down" => serving = None
  /\ server.at # "snapshot" => server.entries = <<>>
  /\ server.at \in {"snapshot", "write"} => request[serving].at # "ask"
  /\ server.at = "close" => request[serving].pipe = "lost"

(* Steps of the server before it takes a request up. *)
Begun == {"connect", "read", "snapshot"}

(* Who has the pipe. *)
PipeHeld ==
  \A r \in DOMAIN request :
    /\ request[r].pipe = "none" <=> request[r].at \in {"open", "wait"}
    /\ request[r].pipe = "open" => serving = r
    /\ request[r].at \in {"open", "wait", "ask"} =>
         ~request[r].asked /\ request[r].got = <<>>
    /\ request[r].at \notin Reading => request[r].data = <<>>
    /\ request[r].at \in {"closed", "loaded"} => request[r].pipe = "lost"
    /\ serving = r /\ server.at \in Begun =>
         \/ state[request[r].by] = "ended"
         \/ /\ request[r].at \in {"ask", "length"} /\ request[r].pipe = "open"
            /\ request[r].data = <<>>

(* Parts of its answer a request has read. *)
Position(x) == IF x.at = "length" THEN 0 ELSE 1 + Len(x.got)

(* What a request has read is the beginning of its answer. *)
ReadSoFar(x) ==
  /\ x.at = "length" => x.got = <<>>
  /\ x.at = "body" => /\ x.length = Len(Chunks(x.answer)) /\ Len(x.got) < x.length
                      /\ \A i \in 1 .. Len(x.got) : x.got[i] = Chunks(x.answer)[i]
  /\ x.at = "ok" => x.got = Chunks(x.answer)

(* What comes next in the pipe. *)
InPipe(x) ==
  \A i \in 1 .. Len(x.data) :
    /\ Position(x) + i <= Len(Response(x.answer))
    /\ x.data[i] = Response(x.answer)[Position(x) + i]

(* What the server has not written yet is the rest of the answer. *)
ToCome(x, parts) ==
  /\ Position(x) + Len(x.data) + Len(parts) = Len(Response(x.answer))
  /\ \A i \in 1 .. Len(parts) :
       parts[i] = Response(x.answer)[Position(x) + Len(x.data) + i]

(* While a request reads, what it has, what is in the pipe and, as long as the
   server writes, what is still to come are one answer, in order. *)
Transfer ==
  \A r \in DOMAIN request :
    request[r].at \in Reading =>
      /\ ReadSoFar(request[r])
      /\ InPipe(request[r])
      /\ serving = r /\ server.at = "write" /\ request[r].pipe = "open" =>
           ToCome(request[r], server.parts)

(* One request at a time. *)
OneLoads ==
  \A r \in DOMAIN request :
    /\ state[request[r].by] = "ended" =>
         request[r].at \in {"closed", "loaded"} /\ ~request[r].ok
    /\ state[request[r].by] # "ended" /\ request[r].at # "loaded" =>
         /\ request[r].by \in loading
         /\ \A q \in DOMAIN request :
              request[q].by = request[r].by /\ request[q].at # "loaded" => q = r

(* What may be shown after a list: files once each, as they have become at most, and
   none as it was before. *)
Successors(list, counts) ==
  {e \in Seq(Entry) :
     /\ Len(e) <= Limit
     /\ \A i, j \in DOMAIN e : e[i].file = e[j].file => i = j
     /\ \A i \in DOMAIN e : e[i].change <= counts[e[i].file]
     /\ \A i \in DOMAIN list, j \in DOMAIN e :
          list[i].file = e[j].file => list[i].change <= e[j].change}

(* Whatever may be shown to a client later (the entries being taken, an answer on
   its way, a result not yet taken over) is a successor of what the client shows
   now. *)
ShownInOrder ==
  /\ \A c \in Client : shown[c] \in Successors(shown[c], changes)
  /\ server.at = "snapshot" =>
       /\ server.entries \in Successors(shown[request[serving].by], changes)
       /\ \A i \in DOMAIN server.entries : server.entries[i].file \notin server.todo
  /\ \A r \in DOMAIN request :
       /\ state[request[r].by] # "ended" /\ request[r].at # "loaded" =>
            request[r].answer \in Successors(shown[request[r].by], changes)
       /\ request[r].at = "closed" /\ request[r].ok =>
            \E e \in Successors(shown[request[r].by], changes) :
              request[r].got = Chunks(e)

(* The inductive invariant. *)
Inv == Typed /\ Serves /\ PipeHeld /\ Transfer /\ OneLoads /\ ShownInOrder

-----------------------------------------------------------------------------
(* Constants, lists and answers. *)

(* The constants are numbers. *)
LEMMA Bounds ==
  /\ Limit \in Nat \ {0} /\ Size \in Nat \ {0}
  /\ MaxRequests \in Nat /\ MaxChanges \in Nat /\ MaxStarts \in Nat
  /\ None \notin Nat
BY SnapshotAssumption DEF SnapshotAssumption

(* The chunks of a list: one for each entry, and one empty chunk if there is none. *)
LEMMA ChunksAre ==
  ASSUME NEW e \in Seq(Entry)
  PROVE  /\ Chunks(e) \in Seq(Chunk)
         /\ Len(Chunks(e)) = IF e = <<>> THEN 1 ELSE Len(e)
         /\ e = <<>> => Chunks(e)[1] = <<>>
         /\ e # <<>> => \A i \in 1 .. Len(e) : Chunks(e)[i] = <<e[i]>>
<1>1. <<>> \in Chunk
  BY DEF Chunk, SeqOf
<1>2. ASSUME NEW x \in Entry PROVE <<x>> \in Chunk
  <2>1. <<x>> \in [1 .. 1 -> Entry]
    OBVIOUS
  <2> QED
    BY <2>1 DEF Chunk, SeqOf
<1>3. CASE e = <<>>
  BY <1>1, <1>3 DEF Chunks
<1>4. CASE e # <<>>
  <2> DEFINE f == [i \in 1 .. Len(e) |-> <<e[i]>>]
  <2>1. Len(e) \in Nat /\ DOMAIN e = 1 .. Len(e) /\ \A i \in 1 .. Len(e) : e[i] \in Entry
    BY LenProperties, ElementOfSeq
  <2>2. Chunks(e) = f
    BY <1>4, <2>1 DEF Chunks
  <2>3. f \in [1 .. Len(e) -> Chunk]
    BY <1>2, <2>1
  <2>4. f \in Seq(Chunk) /\ Len(f) = Len(e)
    BY <2>1, <2>3
  <2> QED
    BY <1>4, <2>2, <2>4
<1> QED
  BY <1>3, <1>4

(* An answer, as it is written: the number of chunks and then each of them. *)
LEMMA ResponseIs ==
  ASSUME NEW e \in Seq(Entry), Len(e) <= Limit
  PROVE  /\ Response(e) \in Seq(Part)
         /\ Len(Chunks(e)) \in 1 .. Limit
         /\ Len(Response(e)) = 1 + Len(Chunks(e))
         /\ Response(e)[1] = [length |-> Len(Chunks(e)), entries |-> <<>>]
         /\ \A i \in 1 .. Len(Chunks(e)) :
              Response(e)[1 + i] = [length |-> 0, entries |-> Chunks(e)[i]]
<1> DEFINE c == Chunks(e)
           h == [length |-> Len(c), entries |-> <<>>]
           t == [i \in DOMAIN c |-> [length |-> 0, entries |-> c[i]]]
<1>1. c \in Seq(Chunk) /\ Len(c) \in 1 .. Limit
  <2>1. Len(e) \in Nat /\ (e # <<>> => Len(e) # 0)
    BY LenProperties, EmptySeq
  <2>2. c \in Seq(Chunk) /\ Len(c) = IF e = <<>> THEN 1 ELSE Len(e)
    BY ChunksAre
  <2> HIDE DEF c
  <2> QED
    BY <2>1, <2>2, Bounds
<1>2. DOMAIN c = 1 .. Len(c) /\ \A i \in 1 .. Len(c) : c[i] \in Chunk
  BY <1>1, LenProperties, ElementOfSeq
<1>3. h \in Part
  BY <1>1 DEF Part
<1> HIDE DEF c
<1>4. \A i \in 1 .. Len(c) : [length |-> 0, entries |-> c[i]] \in Part
  BY <1>2 DEF Part, Chunk
<1>5. t \in [1 .. Len(c) -> Part]
      /\ \A i \in 1 .. Len(c) : t[i] = [length |-> 0, entries |-> c[i]]
  BY <1>2, <1>4
<1>6. t \in Seq(Part) /\ Len(t) = Len(c)
  BY <1>1, <1>5
<1>7. <<h>> \in Seq(Part) /\ Len(<<h>>) = 1 /\ <<h>>[1] = h
  BY <1>3
<1>8. Response(e) = <<h>> \o t
  BY DEF Response, c
<1> HIDE DEF h, t
<1>9. /\ Response(e) \in Seq(Part) /\ Len(Response(e)) = 1 + Len(c)
      /\ \A i \in 1 .. Len(<<h>>) + Len(t) :
           Response(e)[i] = IF i <= Len(<<h>>) THEN <<h>>[i] ELSE t[i - Len(<<h>>)]
  BY <1>6, <1>7, <1>8, ConcatProperties
<1>10. Response(e)[1] = h /\ \A i \in 1 .. Len(c) : Response(e)[1 + i] = t[i]
  BY <1>1, <1>6, <1>7, <1>9
<1> QED
  BY <1>1, <1>5, <1>9, <1>10 DEF c, h

(* What write_command_response cuts into chunks, read_command_response puts
   together again. FlattenSeq is a fold: that its partial results are the fronts
   of the list is shown at the least index at which they were not. *)
LEMMA FlattenChunks ==
  ASSUME NEW e \in Seq(Entry)
  PROVE  FlattenSeq(Chunks(e)) = e
<1> DEFINE c == Chunks(e)
<1>1. /\ c \in Seq(Chunk)
      /\ Len(c) = IF e = <<>> THEN 1 ELSE Len(e)
      /\ e = <<>> => c[1] = <<>>
      /\ e # <<>> => \A i \in 1 .. Len(e) : c[i] = <<e[i]>>
  BY ChunksAre
<1>2. /\ Len(e) \in Nat /\ DOMAIN e = 1 .. Len(e) /\ \A i \in 1 .. Len(e) : e[i] \in Entry
      /\ e # <<>> => Len(e) # 0
  BY LenProperties, ElementOfSeq, EmptySeq
<1> HIDE DEF c
<1> DEFINE IsFlatten(f) ==
             f = [i \in 1 .. Len(c) |-> IF i = 1 THEN c[i] ELSE f[i - 1] \o c[i]]
           flatten == CHOOSE f : IsFlatten(f)
           front(i) == IF e = <<>> THEN <<>> ELSE SubSeq(e, 1, i)
           fronts == [i \in 1 .. Len(c) |-> front(i)]
<1>3. FlattenSeq(c) = flatten[Len(c)]
  BY <1>1, <1>2 DEF FlattenSeq
<1>4. front(1) = c[1]
  <2>1. CASE e = <<>>
    BY <1>1, <2>1
  <2>2. CASE e # <<>>
    <3>1. SubSeq(e, 1, 1) = <<e[1]>>
      <4>1. SubSeq(e, 1, 1 - 1) = <<>>
        BY SubSeqEmpty
      <4>2. SubSeq(e, 1, 1) = SubSeq(e, 1, 1 - 1) \o <<e[1]>>
        BY <1>2, <2>2, SubSeqRecursiveSecond
      <4>3. <<e[1]>> \in Seq(Entry)
        BY <1>2, <2>2
      <4>4. <<>> \o <<e[1]>> = <<e[1]>>
        BY <4>3, ConcatEmptySeq
      <4> QED
        BY <4>1, <4>2, <4>4
    <3> QED
      BY <1>1, <1>2, <2>2, <3>1
  <2> QED
    BY <2>1, <2>2
<1>5. ASSUME NEW i \in 2 .. Len(c) PROVE front(i) = front(i - 1) \o c[i]
  <2>1. e # <<>> /\ Len(c) = Len(e) /\ c[i] = <<e[i]>>
    BY <1>1, <1>2
  <2>2. SubSeq(e, 1, i) = SubSeq(e, 1, i - 1) \o <<e[i]>>
    BY <1>2, <2>1, SubSeqRecursiveSecond
  <2> QED
    BY <2>1, <2>2
<1> HIDE DEF front
<1>6. IsFlatten(fronts)
  <2>1. ASSUME NEW i \in 1 .. Len(c)
        PROVE  fronts[i] = IF i = 1 THEN c[i] ELSE fronts[i - 1] \o c[i]
    <3>1. CASE i = 1
      BY <1>4, <3>1
    <3>2. CASE i # 1
      <4>1. i \in 2 .. Len(c) /\ i - 1 \in 1 .. Len(c)
        BY <1>1, <1>2, <3>2
      <4>2. fronts[i] = front(i) /\ fronts[i - 1] = front(i - 1)
        BY <4>1
      <4> HIDE DEF fronts
      <4> QED
        BY <1>5, <3>2, <4>1, <4>2
    <3> QED
      BY <3>1, <3>2
  <2> DEFINE g == [i \in 1 .. Len(c) |-> IF i = 1 THEN c[i] ELSE fronts[i - 1] \o c[i]]
  <2>2. DOMAIN fronts = DOMAIN g /\ \A i \in DOMAIN g : fronts[i] = g[i]
    BY <2>1, Zenon
  <2>3. fronts = g
    BY <2>2
  <2> QED
    BY <2>3, Zenon
<1>7. IsFlatten(flatten)
  BY <1>6
<1> HIDE DEF flatten
<1>8. \A i \in 1 .. Len(c) : flatten[i] = front(i)
  <2> DEFINE T == {i \in 1 .. Len(c) : flatten[i] # front(i)}
  <2>1. SUFFICES ASSUME T # {} PROVE FALSE
    OBVIOUS
  <2>2. T \subseteq Nat
    OBVIOUS
  <2>3. PICK m \in T : \A j \in T : ~ (<<j, m>> \in OpToRel(<, Nat))
    BY <2>1, <2>2, WFMin, NatLessThanWellFounded, Zenon
  <2>4. \A j \in T : ~ (j < m)
    BY <2>2, <2>3 DEF OpToRel
  <2>5. m \in 1 .. Len(c) /\ flatten[m] # front(m)
    OBVIOUS
  <2>6. CASE m = 1
    BY <1>4, <1>7, <2>5, <2>6
  <2>7. CASE m # 1
    <3>1. m - 1 \in 1 .. Len(c) /\ m \in 2 .. Len(c) /\ m - 1 < m
      BY <2>5, <2>7
    <3>2. flatten[m - 1] = front(m - 1)
      BY <2>4, <3>1
    <3>3. flatten[m] = flatten[m - 1] \o c[m]
      BY <1>7, <2>5, <2>7
    <3> QED
      BY <1>5, <2>5, <3>1, <3>2, <3>3
  <2> QED
    BY <2>6, <2>7
<1>9. front(Len(c)) = e
  BY <1>1, <1>2 DEF front
<1> QED
  BY <1>1, <1>2, <1>3, <1>8, <1>9 DEF c

(* The empty list may be shown after any, and what may be shown after some list
   may be shown after itself and after nothing. *)
LEMMA SuccessorsAre ==
  ASSUME NEW list \in Seq(Entry), NEW counts \in [File -> 0 .. MaxChanges]
  PROVE  /\ <<>> \in Successors(list, counts)
         /\ \A e \in Successors(list, counts) :
              /\ e \in Seq(Entry) /\ Len(e) <= Limit
              /\ e \in Successors(e, counts)
              /\ e \in Successors(<<>>, counts)
<1>1. <<>> \in Successors(list, counts)
  BY Bounds, EmptySeq DEF Successors
<1> SUFFICES ASSUME NEW e \in Successors(list, counts)
             PROVE  e \in Successors(e, counts) /\ e \in Successors(<<>>, counts)
  BY <1>1 DEF Successors
<1>2. e \in Seq(Entry) /\ DOMAIN e = 1 .. Len(e)
      /\ \A i \in DOMAIN e : e[i].change \in Nat
  <2>1. e \in Seq(Entry)
    BY DEF Successors
  <2>2. DOMAIN e = 1 .. Len(e) /\ \A i \in DOMAIN e : e[i] \in Entry
    BY <2>1, LenProperties, ElementOfSeq
  <2> QED
    BY <2>1, <2>2, Bounds DEF Entry
<1>3. \A i, j \in DOMAIN e : e[i].file = e[j].file => e[i].change <= e[j].change
  BY <1>2 DEF Successors
<1> QED
  BY <1>3 DEF Successors

(* As contexts change, more may be shown. *)
LEMMA SuccessorsGrow ==
  ASSUME NEW list \in Seq(Entry), NEW counts \in [File -> 0 .. MaxChanges],
         NEW more \in [File -> 0 .. MaxChanges], \A f \in File : counts[f] <= more[f]
  PROVE  Successors(list, counts) \subseteq Successors(list, more)
<1> SUFFICES ASSUME NEW e \in Successors(list, counts) PROVE e \in Successors(list, more)
  OBVIOUS
<1>1. e \in Seq(Entry) /\ DOMAIN e = 1 .. Len(e)
      /\ \A i \in DOMAIN e : e[i].change \in Nat /\ e[i].file \in File
  <2>1. e \in Seq(Entry)
    BY DEF Successors
  <2>2. DOMAIN e = 1 .. Len(e) /\ \A i \in DOMAIN e : e[i] \in Entry
    BY <2>1, LenProperties, ElementOfSeq
  <2> QED
    BY <2>1, <2>2, Bounds DEF Entry
<1>2. ASSUME NEW i \in DOMAIN e PROVE e[i].change <= more[e[i].file]
  <2>1. e[i].change <= counts[e[i].file]
    BY DEF Successors
  <2>2. counts[e[i].file] <= more[e[i].file] /\ counts[e[i].file] \in Nat
        /\ more[e[i].file] \in Nat
    BY <1>1, Bounds
  <2> QED
    BY <1>1, <2>1, <2>2
<1> QED
  BY <1>2 DEF Successors

(* FileContextCache::snapshot adds an entry of a file that is not in the list, as
   the file is now. *)
LEMMA SuccessorsAppend ==
  ASSUME NEW list \in Seq(Entry), NEW counts \in [File -> 0 .. MaxChanges],
         list \in Successors(list, counts),
         NEW e \in Successors(list, counts), Len(e) # Limit,
         NEW f \in File, \A i \in DOMAIN e : e[i].file # f
  PROVE  Append(e, [file |-> f, change |-> counts[f]]) \in Successors(list, counts)
<1> DEFINE x == [file |-> f, change |-> counts[f]]
           t == Append(e, x)
<1>1. x \in Entry /\ x.file = f /\ x.change = counts[f]
  BY DEF Entry
<1>2. e \in Seq(Entry) /\ Len(e) \in Nat /\ Len(e) <= Limit /\ DOMAIN e = 1 .. Len(e)
  <2>1. e \in Seq(Entry) /\ Len(e) <= Limit
    BY DEF Successors
  <2> QED
    BY <2>1, LenProperties
<1> HIDE DEF x
<1>3. /\ t \in Seq(Entry) /\ Len(t) = Len(e) + 1
      /\ DOMAIN t = 1 .. Len(e) + 1
      /\ \A i \in 1 .. Len(e) : t[i] = e[i]
      /\ t[Len(e) + 1] = x
  BY <1>1, <1>2, AppendProperties, LenProperties
<1> HIDE DEF t
<1>4. Len(t) <= Limit
  <2>1. Len(t) = Len(e) + 1 /\ Len(e) \in Nat /\ Len(e) <= Limit /\ Len(e) # Limit
    BY <1>2, <1>3
  <2> QED
    BY <2>1, Bounds
<1>5. \A i \in DOMAIN t : i \in DOMAIN e \/ i = Len(e) + 1
  BY <1>2, <1>3
<1>6. \A i, j \in DOMAIN t : t[i].file = t[j].file => i = j
  BY <1>1, <1>2, <1>3, <1>5 DEF Successors
<1>7. counts[f] \in Nat
  BY Bounds
<1>8. \A i \in DOMAIN t : t[i].change <= counts[t[i].file]
  BY <1>1, <1>2, <1>3, <1>5, <1>7 DEF Successors
<1>9. \A i \in DOMAIN list : list[i].change <= counts[list[i].file]
  BY DEF Successors
<1>10. ASSUME NEW i \in DOMAIN list, NEW j \in DOMAIN t, list[i].file = t[j].file
       PROVE  list[i].change <= t[j].change
  <2>1. CASE j \in DOMAIN e
    <3>1. t[j] = e[j]
      BY <1>2, <1>3, <2>1
    <3> QED
      BY <1>10, <2>1, <3>1 DEF Successors
  <2>2. CASE j = Len(e) + 1
    <3>1. t[j] = x
      BY <1>3, <2>2
    <3> QED
      BY <1>1, <1>9, <1>10, <3>1
  <2> QED
    BY <1>5, <2>1, <2>2
<1>11. t \in Successors(list, counts)
  BY <1>3, <1>4, <1>6, <1>8, <1>10 DEF Successors
<1> QED
  BY <1>11 DEF t, x

-----------------------------------------------------------------------------
(* What a step may make of a request and of the server. *)

(* The requests are numbered from 1, and each is a record of the type. *)
LEMMA RequestIs ==
  ASSUME Typed, NEW r \in DOMAIN request
  PROVE  request[r] \in Asked /\ DOMAIN request = 1 .. Len(request)
         /\ Len(request) \in Nat
         /\ r \in Request
BY LenProperties, ElementOfSeq, Bounds DEF Typed, Request

(* Request r may become x. *)
Fits(r, x) ==
  /\ x \in Asked /\ x.by = request[r].by
  /\ Len(x.data) <= Size /\ Len(x.got) <= Limit
  /\ x.pipe = "none" <=> x.at \in {"open", "wait"}
  /\ x.at \in {"open", "wait", "ask"} => ~x.asked /\ x.got = <<>>
  /\ x.at \notin Reading => x.data = <<>>
  /\ x.at \in {"closed", "loaded"} => x.pipe = "lost"
  /\ x.at \in Reading => ReadSoFar(x) /\ InPipe(x)
  /\ x.at # "loaded" => request[r].at # "loaded"
  /\ state[x.by] = "ended" => x.at \in {"closed", "loaded"} /\ ~x.ok
  /\ state[x.by] # "ended" /\ x.at # "loaded" =>
       x.answer \in Successors(shown[x.by], changes)
  /\ x.at = "closed" /\ x.ok =>
       \E e \in Successors(shown[x.by], changes) : x.got = Chunks(e)

(* The server may be at y with request x. *)
Holds(x, y) ==
  /\ y.at # "create" /\ x.pipe # "none"
  /\ y.at \in {"snapshot", "write"} => x.at # "ask"
  /\ y.at = "close" => x.pipe = "lost"
  /\ y.at \in Begun =>
       \/ state[x.by] = "ended"
       \/ x.at \in {"ask", "length"} /\ x.pipe = "open" /\ x.data = <<>>
  /\ x.at \in Reading /\ y.at = "write" /\ x.pipe = "open" => ToCome(x, y.parts)

ServerFits(x, y) ==
  /\ y \in Served /\ Len(y.entries) <= Limit
  /\ y.at # "snapshot" => y.entries = <<>>
  /\ y.at = "snapshot" =>
       /\ y.entries \in Successors(shown[x.by], changes)
       /\ \A i \in DOMAIN y.entries : y.entries[i].file \notin y.todo

(* A request fits in its own place, and the server goes with the request it
   serves. *)
LEMMA AsItIs ==
  ASSUME Inv, NEW r \in DOMAIN request
  PROVE  /\ Fits(r, request[r])
         /\ request' = request => request' = [request EXCEPT ![r] = request[r]]
         /\ request[r].pipe = "open" => serving = r
         /\ serving = r => Holds(request[r], server) /\ ServerFits(request[r], server)
<1>1. Fits(r, request[r])
  <2>1. request[r] \in Asked /\ Len(request[r].data) <= Size
        /\ Len(request[r].got) <= Limit
    BY RequestIs DEF Inv, Typed
  <2> QED
    BY <2>1 DEF Inv, Fits, PipeHeld, Transfer, OneLoads, ShownInOrder
<1>2. request' = request => request' = [request EXCEPT ![r] = request[r]]
  BY LenProperties DEF Inv, Typed
<1>3. request[r].pipe = "open" => serving = r
  BY DEF Inv, PipeHeld
<1>4. ASSUME serving = r PROVE Holds(request[r], server) /\ ServerFits(request[r], server)
  <2>0. r # None
    BY RequestIs, Bounds DEF Inv, Request
  <2>1. Holds(request[r], server)
    BY <1>4, <2>0 DEF Inv, Holds, Serves, PipeHeld, Transfer
  <2>2. ServerFits(request[r], server)
    BY <1>4 DEF Inv, Typed, ServerFits, Serves, ShownInOrder
  <2> QED
    BY <2>1, <2>2
<1> QED
  BY <1>1, <1>2, <1>3, <1>4

(* A step that changes one request, and the server if it serves that request,
   keeps the invariant when the new request fits and the server goes with it. Most
   steps of both sides are of this kind. *)
LEMMA Exchange ==
  ASSUME Inv, NEW r \in DOMAIN request, NEW x,
         UNCHANGED <<agent, starts, cache, loading, shown, state>>,
         request' = [request EXCEPT ![r] = x], Fits(r, x),
         serving' = serving \/ (Listening /\ serving' = r),
         server' = server \/ serving = r,
         x.pipe = "open" => serving' = r,
         serving' = r => Holds(x, server') /\ ServerFits(x, server')
  PROVE  Inv'
<1>1. /\ request \in Seq(Asked) /\ DOMAIN request = 1 .. Len(request)
      /\ Len(request) \in Nat
      /\ r \in Request /\ r # None
  BY RequestIs, Bounds DEF Inv, Typed, Request
<1>2. /\ request' \in Seq(Asked) /\ Len(request') = Len(request)
      /\ DOMAIN request' = DOMAIN request
      /\ request'[r] = x
      /\ \A q \in DOMAIN request \ {r} : request'[q] = request[q]
  <2>1. x \in Asked
    BY DEF Fits
  <2> QED
    BY <1>1, <2>1, ExceptSeq, LenProperties
<1>3. serving' # r => serving' = serving /\ server' = server
  OBVIOUS
<1>4. /\ UNCHANGED <<agent, starts, changes, made, cached, loading, shown, state>>
      /\ serving' = serving
         \/ (serving = None /\ server.at = "connect" /\ agent = "up" /\ serving' = r)
  BY DEF cache, Listening
<1>5. ServerFits(x, server') \/ (server' = server /\ serving' # r)
  BY <1>3
<1>6. Typed'
  <2>1. server' \in Served /\ Len(server'.entries) <= Limit
    BY <1>5 DEF Inv, Typed, ServerFits
  <2>2. \A q \in DOMAIN request' :
          Len(request'[q].data) <= Size /\ Len(request'[q].got) <= Limit
    BY <1>2 DEF Inv, Typed, Fits
  <2>3. serving' \in Request \cup {None}
    BY <1>1, <1>4 DEF Inv, Typed
  <2> QED
    BY <1>2, <1>4, <2>1, <2>2, <2>3 DEF Inv, Typed
<1>7. Serves'
  <2>1. CASE serving' = r
    BY <1>1, <1>2, <1>4, <2>1 DEF Inv, Serves, Holds, ServerFits
  <2>2. CASE serving' # r
    BY <1>1, <1>2, <1>3, <1>4, <2>2 DEF Inv, Serves
  <2> QED
    BY <2>1, <2>2
<1>8. PipeHeld'
  <2> SUFFICES ASSUME NEW q \in DOMAIN request
               PROVE  /\ request'[q].pipe = "none" <=> request'[q].at \in {"open", "wait"}
                      /\ request'[q].pipe = "open" => serving' = q
                      /\ request'[q].at \in {"open", "wait", "ask"} =>
                           ~request'[q].asked /\ request'[q].got = <<>>
                      /\ request'[q].at \notin Reading => request'[q].data = <<>>
                      /\ request'[q].at \in {"closed", "loaded"} =>
                           request'[q].pipe = "lost"
                      /\ serving' = q /\ server'.at \in Begun =>
                           \/ state'[request'[q].by] = "ended"
                           \/ /\ request'[q].at \in {"ask", "length"}
                              /\ request'[q].pipe = "open"
                              /\ request'[q].data = <<>>
    BY <1>2 DEF PipeHeld
  <2>1. CASE q = r
    BY <1>2, <1>4, <2>1 DEF Fits, Holds
  <2>2. CASE q # r
    <3>1. request'[q] = request[q]
      BY <1>2, <2>2
    <3>2. serving' = q => serving = q /\ server' = server
      BY <1>3, <2>2
    <3>3. serving = q => serving' = q
      BY <1>1, <1>4, Bounds, RequestIs DEF Inv, Request
    <3> QED
      BY <1>4, <3>1, <3>2, <3>3 DEF Inv, PipeHeld
  <2> QED
    BY <2>1, <2>2
<1>9. Transfer'
  <2> SUFFICES ASSUME NEW q \in DOMAIN request, request'[q].at \in Reading
               PROVE  /\ ReadSoFar(request'[q])
                      /\ InPipe(request'[q])
                      /\ serving' = q /\ server'.at = "write"
                         /\ request'[q].pipe = "open" =>
                           ToCome(request'[q], server'.parts)
    BY <1>2 DEF Transfer
  <2>1. CASE q = r
    BY <1>2, <2>1 DEF Fits, Holds
  <2>2. CASE q # r
    <3>1. request'[q] = request[q] /\ (serving' = q => serving = q /\ server' = server)
      BY <1>2, <1>3, <2>2
    <3> QED
      BY <3>1 DEF Inv, Transfer
  <2> QED
    BY <2>1, <2>2
<1>10. OneLoads'
  <2>1. \A q \in DOMAIN request :
          /\ request'[q].by = request[q].by
          /\ request'[q].at # "loaded" => request[q].at # "loaded"
    BY <1>2 DEF Fits
  <2>2. \A q \in DOMAIN request : state[request[q].by] = "ended" =>
          request'[q].at \in {"closed", "loaded"} /\ ~request'[q].ok
    BY <1>2 DEF Inv, OneLoads, Fits
  <2> QED
    BY <1>2, <1>4, <2>1, <2>2 DEF Inv, OneLoads
<1>11. ShownInOrder'
  <2>1. server'.at = "snapshot" =>
          /\ server'.entries \in Successors(shown'[request'[serving'].by], changes')
          /\ \A i \in DOMAIN server'.entries : server'.entries[i].file \notin server'.todo
    <3>1. CASE serving' = r
      BY <1>2, <1>4, <3>1 DEF ServerFits
    <3>2. CASE serving' # r
      <4>1. server.at = "snapshot" => serving \in DOMAIN request \ {r}
        BY <1>3, <3>2 DEF Inv, Serves
      <4> QED
        BY <1>2, <1>3, <1>4, <3>2, <4>1 DEF Inv, ShownInOrder
    <3> QED
      BY <3>1, <3>2
  <2>2. ASSUME NEW q \in DOMAIN request
        PROVE  /\ state'[request'[q].by] # "ended" /\ request'[q].at # "loaded" =>
                    request'[q].answer \in Successors(shown'[request'[q].by], changes')
               /\ request'[q].at = "closed" /\ request'[q].ok =>
                    \E e \in Successors(shown'[request'[q].by], changes') :
                      request'[q].got = Chunks(e)
    <3>1. CASE q = r
      BY <1>2, <1>4, <3>1 DEF Fits
    <3>2. CASE q # r
      <4>1. request'[q] = request[q]
        BY <1>2, <3>2
      <4> QED
        BY <1>4, <4>1 DEF Inv, ShownInOrder
    <3> QED
      BY <3>1, <3>2
  <2> QED
    BY <1>2, <1>4, <2>1, <2>2 DEF Inv, ShownInOrder
<1> QED
  BY <1>6, <1>7, <1>8, <1>9, <1>10, <1>11 DEF Inv

(* A request that fails has no handle and no result. *)
LEMMA FailedIs ==
  ASSUME NEW x, x.by \in Client
  PROVE  LET f == Failed(x) IN
         /\ f \in Asked /\ f.by = x.by /\ f.at = "closed" /\ f.pipe = "lost"
         /\ f.asked = FALSE
         /\ f.data = <<>> /\ f.got = <<>> /\ f.ok = FALSE /\ f.answer = <<>>
<1> DEFINE n == New(x.by)
           f == Failed(x)
<1>1. /\ n \in Asked /\ n.by = x.by /\ n.asked = FALSE
      /\ n.data = <<>> /\ n.got = <<>> /\ n.ok = FALSE /\ n.answer = <<>>
  BY EmptySeq, Bounds DEF New, Asked, RequestAt
<1>2. f = [n EXCEPT !.at = "closed", !.pipe = "lost"]
  BY DEF Failed
<1> HIDE DEF n, f
<1>3. f \in Asked
  BY <1>1, <1>2 DEF Asked, RequestAt
<1>4. /\ f.by = x.by /\ f.at = "closed" /\ f.pipe = "lost" /\ f.asked = FALSE
      /\ f.data = <<>> /\ f.got = <<>> /\ f.ok = FALSE /\ f.answer = <<>>
  BY <1>1, <1>2 DEF Asked
<1> QED
  BY <1>3, <1>4 DEF f

(* What is shown are lists of entries. *)
LEMMA Lists ==
  Inv => /\ \A c \in Client : shown[c] \in Seq(Entry)
         /\ changes \in [File -> 0 .. MaxChanges]
BY DEF Inv, Typed

(* A request of a client that runs may fail. *)
LEMMA FailedFits ==
  ASSUME Inv, NEW r \in DOMAIN request,
         state[request[r].by] = "runs", request[r].at # "loaded"
  PROVE  /\ Fits(r, Failed(request[r]))
         /\ Failed(request[r]).pipe # "open"
         /\ server.at \notin Begun /\ serving = r =>
              Holds(Failed(request[r]), server) /\ ServerFits(Failed(request[r]), server)
<1> DEFINE c == request[r].by
           x == Failed(request[r])
<1>1. c \in Client
  BY RequestIs DEF Inv, Asked
<1>2. /\ x \in Asked /\ x.by = c /\ x.at = "closed" /\ x.pipe = "lost" /\ x.asked = FALSE
      /\ x.data = <<>> /\ x.got = <<>> /\ x.ok = FALSE /\ x.answer = <<>>
  BY <1>1, FailedIs
<1>3. <<>> \in Successors(shown[c], changes)
  BY <1>1, Lists, SuccessorsAre
<1> HIDE DEF x
<1>4. Fits(r, x)
  BY <1>2, <1>3, EmptySeq, Bounds DEF Fits, Reading
<1>5. server.at \notin Begun /\ serving = r => Holds(x, server) /\ ServerFits(x, server)
  <2> SUFFICES ASSUME server.at \notin Begun, serving = r
               PROVE  Holds(x, server) /\ ServerFits(x, server)
    OBVIOUS
  <2>1. Holds(request[r], server) /\ ServerFits(request[r], server)
    BY AsItIs
  <2> QED
    BY <1>2, <2>1 DEF Holds, ServerFits, Reading
<1> QED
  BY <1>2, <1>4, <1>5 DEF x

-----------------------------------------------------------------------------
(* Each action of a request keeps the invariant. *)

(* CreateFileW opens the instance that listens, waits for a busy one, or fails. *)
LEMMA OpenKept ==
  ASSUME Inv, NEW r \in DOMAIN request, Open(r)
  PROVE  Inv'
<1> DEFINE x == [request[r] EXCEPT !.at = "ask", !.pipe = "open"]
           w == [request[r] EXCEPT !.at = "wait"]
<1>1. /\ request[r] \in Asked /\ request[r].at = "open" /\ state[request[r].by] = "runs"
      /\ request[r].pipe = "none" /\ request[r].data = <<>>
      /\ ~request[r].asked /\ request[r].got = <<>>
  BY RequestIs DEF Inv, Open, At, PipeHeld, Reading
<1>2. Fits(r, request[r]) /\ (serving = r => Holds(request[r], server))
  BY AsItIs
<1>3. serving # r
  BY <1>1, <1>2 DEF Holds
<1>4. UNCHANGED <<agent, starts, cache, server, loading, shown, state>>
  BY DEF Open, Becomes
<1>5. CASE Listening
  <2>1. request' = [request EXCEPT ![r] = x] /\ serving' = r
    BY <1>5 DEF Open, Becomes
  <2>2. /\ x \in Asked /\ x.by = request[r].by /\ x.at = "ask" /\ x.pipe = "open"
        /\ ~x.asked
        /\ x.data = <<>> /\ x.got = <<>> /\ x.answer = request[r].answer
        /\ x.ok = request[r].ok
    BY <1>1 DEF Asked, RequestAt
  <2> HIDE DEF x
  <2>3. Fits(r, x)
    BY <1>1, <1>2, <2>2 DEF Fits, Reading
  <2>4. server.at = "connect" /\ server \in Served /\ Len(server.entries) <= Limit
        /\ server.entries = <<>>
    BY <1>5 DEF Listening, Inv, Typed, Serves
  <2>5. Holds(x, server') /\ ServerFits(x, server')
    BY <1>4, <2>2, <2>4 DEF Holds, ServerFits, Reading
  <2> QED
    BY <1>4, <1>5, <2>1, <2>3, <2>5, Exchange
<1>6. CASE ~Listening /\ Instance
  <2>1. request' = [request EXCEPT ![r] = w] /\ serving' = serving
    BY <1>6 DEF Open, Becomes
  <2>2. /\ w \in Asked /\ w.by = request[r].by /\ w.at = "wait" /\ w.pipe = "none"
        /\ ~w.asked
        /\ w.data = <<>> /\ w.got = <<>> /\ w.answer = request[r].answer
        /\ w.ok = request[r].ok
    BY <1>1 DEF Asked, RequestAt
  <2> HIDE DEF w
  <2>3. Fits(r, w)
    BY <1>1, <1>2, <2>2 DEF Fits, Reading
  <2> QED
    BY <1>3, <1>4, <2>1, <2>2, <2>3, Exchange
<1>7. CASE ~Listening /\ ~Instance
  <2>1. request' = [request EXCEPT ![r] = Failed(request[r])] /\ serving' = serving
    BY <1>7 DEF Open, Becomes
  <2>2. Fits(r, Failed(request[r])) /\ Failed(request[r]).pipe # "open"
    BY <1>1, FailedFits
  <2> QED
    BY <1>3, <1>4, <2>1, <2>2, Exchange
<1> QED
  BY <1>5, <1>6, <1>7

(* WaitNamedPipeW ends with an instance that listens, or with a timeout. *)
LEMMA WaitEndsKept ==
  ASSUME Inv, NEW r \in DOMAIN request, WaitEnds(r)
  PROVE  Inv'
<1> DEFINE x == [request[r] EXCEPT !.at = "open"]
<1>1. /\ request[r] \in Asked /\ request[r].at = "wait" /\ state[request[r].by] = "runs"
      /\ request[r].pipe = "none" /\ request[r].data = <<>>
      /\ ~request[r].asked /\ request[r].got = <<>>
  BY RequestIs DEF Inv, WaitEnds, At, PipeHeld, Reading
<1>2. Fits(r, request[r]) /\ (serving = r => Holds(request[r], server))
  BY AsItIs
<1>3. serving # r
  BY <1>1, <1>2 DEF Holds
<1>4. UNCHANGED <<agent, starts, cache, server, serving, loading, shown, state>>
  BY DEF WaitEnds, Becomes
<1>5. CASE request' = [request EXCEPT ![r] = x]
  <2>1. /\ x \in Asked /\ x.by = request[r].by /\ x.at = "open" /\ x.pipe = "none"
        /\ ~x.asked
        /\ x.data = <<>> /\ x.got = <<>> /\ x.answer = request[r].answer
        /\ x.ok = request[r].ok
    BY <1>1 DEF Asked, RequestAt
  <2> HIDE DEF x
  <2>2. Fits(r, x)
    BY <1>1, <1>2, <2>1 DEF Fits, Reading
  <2> QED
    BY <1>3, <1>4, <1>5, <2>1, <2>2, Exchange
<1>6. CASE request' = [request EXCEPT ![r] = Failed(request[r])]
  <2>1. Fits(r, Failed(request[r])) /\ Failed(request[r]).pipe # "open"
    BY <1>1, FailedFits
  <2> QED
    BY <1>3, <1>4, <1>6, <2>1, Exchange
<1> QED
  BY <1>5, <1>6 DEF WaitEnds, Becomes

(* WriteFile asks, or fails. *)
LEMMA AskKept ==
  ASSUME Inv, NEW r \in DOMAIN request, Ask(r)
  PROVE  Inv'
<1> DEFINE x == [request[r] EXCEPT !.at = "length", !.asked = TRUE]
<1>1. /\ request[r] \in Asked /\ request[r].at = "ask" /\ state[request[r].by] = "runs"
      /\ request[r].data = <<>> /\ request[r].got = <<>>
  BY RequestIs DEF Inv, Ask, At, PipeHeld, Reading
<1>2. /\ Fits(r, request[r]) /\ (request[r].pipe = "open" => serving = r)
      /\ serving = r => Holds(request[r], server) /\ ServerFits(request[r], server)
  BY AsItIs
<1>3. UNCHANGED <<agent, starts, cache, server, serving, loading, shown, state>>
  BY DEF Ask, Becomes
<1>4. CASE request[r].pipe = "open"
  <2>1. request' = [request EXCEPT ![r] = x]
    BY <1>4 DEF Ask, Becomes
  <2>2. /\ x \in Asked /\ x.by = request[r].by /\ x.at = "length" /\ x.pipe = "open"
        /\ x.data = <<>> /\ x.got = <<>> /\ x.answer = request[r].answer
        /\ x.ok = request[r].ok
    BY <1>1, <1>4 DEF Asked, RequestAt, Reading
  <2> HIDE DEF x
  <2>3. ReadSoFar(x) /\ InPipe(x)
    BY <2>2, EmptySeq DEF ReadSoFar, InPipe
  <2>4. Fits(r, x)
    BY <1>1, <1>2, <2>2, <2>3 DEF Fits, Reading
  <2>5. Holds(x, server') /\ ServerFits(x, server')
    BY <1>1, <1>2, <1>3, <1>4, <2>2 DEF Holds, ServerFits
  <2> QED
    BY <1>2, <1>3, <1>4, <2>1, <2>4, <2>5, Exchange
<1>5. CASE request[r].pipe # "open"
  <2>1. request' = [request EXCEPT ![r] = Failed(request[r])]
    BY <1>5 DEF Ask, Becomes
  <2>2. serving = r => server.at \notin Begun
    BY <1>1, <1>2, <1>5 DEF Holds
  <2>3. /\ Fits(r, Failed(request[r])) /\ Failed(request[r]).pipe # "open"
        /\ serving = r =>
             Holds(Failed(request[r]), server) /\ ServerFits(Failed(request[r]), server)
    BY <1>1, <2>2, FailedFits
  <2> QED
    BY <1>3, <2>1, <2>3, Exchange
<1> QED
  BY <1>4, <1>5

(* ReadFile fails on a pipe that is empty and disconnected; so does the request. *)
LEMMA ReadFailsKept ==
  ASSUME Inv, NEW r \in DOMAIN request, ReadFails(r)
  PROVE  Inv'
<1>1. /\ request[r] \in Asked /\ request[r].at \in {"length", "body"}
      /\ state[request[r].by] = "runs" /\ request[r].pipe = "lost"
  BY RequestIs DEF Inv, ReadFails, At
<1>2. serving = r => Holds(request[r], server)
  BY AsItIs
<1>3. UNCHANGED <<agent, starts, cache, server, serving, loading, shown, state>>
  BY DEF ReadFails, Becomes
<1>4. request' = [request EXCEPT ![r] = Failed(request[r])]
  BY DEF ReadFails, Becomes, Broken
<1>5. serving = r => server.at \notin Begun
  BY <1>1, <1>2 DEF Holds
<1>6. /\ Fits(r, Failed(request[r])) /\ Failed(request[r]).pipe # "open"
      /\ serving = r =>
           Holds(Failed(request[r]), server) /\ ServerFits(Failed(request[r]), server)
  BY <1>1, <1>5, FailedFits
<1> QED
  BY <1>3, <1>4, <1>6, Exchange

(* CloseHandle: the result of the request is the answer, which is no older than
   what is shown. *)
LEMMA CloseKept ==
  ASSUME Inv, NEW r \in DOMAIN request, Close(r)
  PROVE  Inv'
<1> DEFINE f == Failed(request[r])
           x == [f EXCEPT !.ok = TRUE, !.got = request[r].got]
<1>1. /\ request[r] \in Asked /\ request[r].at = "ok" /\ state[request[r].by] = "runs"
      /\ request[r].by \in Client
  BY RequestIs DEF Inv, Close, At, Asked
<1>2. Fits(r, request[r]) /\ (serving = r => Holds(request[r], server))
  BY AsItIs
<1>3. UNCHANGED <<agent, starts, cache, server, serving, loading, shown, state>>
  BY DEF Close, Becomes
<1>4. request' = [request EXCEPT ![r] = x]
  BY DEF Close, Becomes
<1>5. serving = r => server.at \notin Begun
  BY <1>1, <1>2 DEF Holds
<1>6. /\ Fits(r, f) /\ f.pipe # "open"
      /\ serving = r => Holds(f, server) /\ ServerFits(f, server)
  BY <1>1, <1>5, FailedFits
<1>7. /\ f \in Asked /\ f.by = request[r].by /\ f.at = "closed" /\ f.pipe = "lost"
      /\ f.data = <<>> /\ f.answer = <<>>
  BY <1>1, FailedIs
<1> HIDE DEF f
<1>8. /\ x \in Asked /\ x.by = request[r].by /\ x.at = "closed" /\ x.pipe = "lost"
      /\ x.data = <<>> /\ x.answer = <<>> /\ x.got = request[r].got
  BY <1>1, <1>7 DEF Asked
<1> HIDE DEF x
<1>9. \E e \in Successors(shown[x.by], changes) : x.got = Chunks(e)
  BY <1>1, <1>2, <1>8 DEF Fits, ReadSoFar, Reading
<1>10. x \in Asked /\ Len(x.got) <= Limit
  BY <1>2, <1>8 DEF Fits
<1>11. Fits(r, x)
  BY <1>1, <1>6, <1>7, <1>8, <1>9, <1>10 DEF Fits, Reading
<1>12. serving = r => Holds(x, server) /\ ServerFits(x, server)
  BY <1>5, <1>6, <1>7, <1>8 DEF Holds, ServerFits, Reading
<1> QED
  BY <1>3, <1>4, <1>8, <1>11, <1>12, Exchange

(* read_command_response takes the next part: what it has read stays the beginning
   of the answer and what is in the pipe the continuation. *)
LEMMA TakeIs ==
  ASSUME NEW x \in Asked, x.at \in {"length", "body"}, x.data # <<>>,
         ReadSoFar(x), InPipe(x), Len(x.answer) <= Limit, Len(x.got) <= Limit
  PROVE  LET y == Take([x EXCEPT !.data = Tail(@)], Head(x.data)) IN
         /\ y \in Asked /\ y.at \in {"body", "ok"} /\ Len(y.data) <= Len(x.data)
         /\ y.by = x.by /\ y.pipe = x.pipe /\ y.answer = x.answer /\ Len(y.got) <= Limit
         /\ ReadSoFar(y) /\ InPipe(y)
         /\ \A parts \in Seq(Part) : ToCome(x, parts) => ToCome(y, parts)
<1> DEFINE R == Response(x.answer)
           C == Chunks(x.answer)
           h == Head(x.data)
           t == Tail(x.data)
           z == [x EXCEPT !.data = t]
           y == Take(z, h)
<1>1. /\ x.answer \in Seq(Entry) /\ x.data \in Seq(Part) /\ x.got \in Seq(Chunk)
      /\ Len(x.got) \in Nat
  BY LenProperties DEF Asked
<1>2. /\ h \in Part /\ h = x.data[1] /\ t \in Seq(Part)
      /\ Len(x.data) \in Nat \ {0} /\ Len(t) \in Nat /\ Len(t) = Len(x.data) - 1
      /\ \A i \in 1 .. Len(t) : t[i] = x.data[i + 1]
  BY <1>1, HeadTailProperties, EmptySeq, LenProperties
<1>3. /\ Len(C) \in 1 .. Limit /\ Len(R) = 1 + Len(C)
      /\ R[1] = [length |-> Len(C), entries |-> <<>>]
      /\ \A i \in 1 .. Len(C) : R[1 + i] = [length |-> 0, entries |-> C[i]]
      /\ C \in Seq(Chunk) /\ \A i \in 1 .. Len(C) : C[i] \in Chunk
  BY <1>1, ResponseIs, ChunksAre, ElementOfSeq
<1>4. /\ z \in Asked /\ z.by = x.by /\ z.at = x.at /\ z.pipe = x.pipe /\ z.asked = x.asked
      /\ z.data = t /\ z.length = x.length /\ z.got = x.got /\ z.ok = x.ok
      /\ z.answer = x.answer
  BY <1>2 DEF Asked
<1>5. \A i \in 1 .. Len(x.data) :
        Position(x) + i <= Len(R) /\ x.data[i] = R[Position(x) + i]
  BY DEF InPipe
<1>6. Position(x) \in Nat
  BY <1>1 DEF Position
<1>7. h = R[Position(x) + 1] /\ Position(x) + 1 <= Len(R)
  BY <1>2, <1>5
<1>8. \A i \in 1 .. Len(t) :
        Position(x) + 1 + i <= Len(R) /\ t[i] = R[Position(x) + 1 + i]
  <2> TAKE i \in 1 .. Len(t)
  <2>1. i + 1 \in 1 .. Len(x.data) /\ t[i] = x.data[i + 1]
    BY <1>2
  <2>2. Position(x) + (i + 1) <= Len(R) /\ x.data[i + 1] = R[Position(x) + (i + 1)]
    BY <1>5, <2>1
  <2>3. Position(x) + (i + 1) = Position(x) + 1 + i
    BY <1>6
  <2> QED
    BY <2>1, <2>2, <2>3
<1>9. /\ y \in Asked /\ y.at \in {"body", "ok"} /\ Len(y.got) <= Limit
      /\ y.by = x.by /\ y.pipe = x.pipe /\ y.answer = x.answer /\ y.data = t
      /\ Position(y) = Position(x) + 1 /\ ReadSoFar(y)
  <2>1. CASE x.at = "length"
    <3>1. y = [z EXCEPT !.at = "body", !.length = h.length]
      BY <1>4, <2>1 DEF Take
    <3>2. Position(x) = 0 /\ x.got = <<>>
      BY <2>1 DEF Position, ReadSoFar
    <3>3. h.length = Len(C)
      BY <1>3, <1>7, <3>2
    <3> HIDE DEF y, z, C, h, t, R
    <3>4. y \in Asked /\ y.at = "body" /\ y.length = Len(C) /\ y.got = <<>> /\ y.data = t
          /\ y.by = x.by /\ y.pipe = x.pipe /\ y.answer = x.answer
      <4>1. h.length \in 0 .. Limit /\ "body" \in RequestAt
        BY <1>3, <3>3, Bounds DEF RequestAt, Reading
      <4> QED
        BY <1>4, <3>1, <3>2, <3>3, <4>1 DEF Asked
    <3>5. Position(y) = Position(x) + 1
      BY <3>2, <3>4, EmptySeq DEF Position
    <3>6. ReadSoFar(y)
      BY <1>3, <3>4, EmptySeq DEF ReadSoFar, C
    <3> QED
      BY <3>2, <3>4, <3>5, <3>6, EmptySeq, Bounds
  <2>2. CASE x.at = "body"
    <3>1. y = [z EXCEPT !.got = Append(x.got, h.entries),
                        !.at = IF Len(x.got) + 1 = x.length THEN "ok" ELSE "body"]
      BY <1>4, <2>2 DEF Take
    <3>2. /\ Position(x) = 1 + Len(x.got) /\ x.length = Len(C) /\ Len(x.got) < Len(C)
          /\ \A i \in 1 .. Len(x.got) : x.got[i] = C[i]
      BY <2>2 DEF Position, ReadSoFar
    <3>3. h.entries = C[Len(x.got) + 1] /\ Len(x.got) + 1 \in 1 .. Len(C)
      <4>1. Len(x.got) + 1 \in 1 .. Len(C)
        BY <1>1, <1>3, <3>2
      <4>2. h = R[1 + (Len(x.got) + 1)]
        BY <1>1, <1>7, <3>2
      <4> HIDE DEF h
      <4>3. R[1 + (Len(x.got) + 1)] = [length |-> 0, entries |-> C[Len(x.got) + 1]]
        BY <1>3, <4>1
      <4> QED
        BY <4>1, <4>2, <4>3
    <3> DEFINE g == Append(x.got, h.entries)
    <3>4. /\ g \in Seq(Chunk) /\ Len(g) = Len(x.got) + 1 /\ g[Len(x.got) + 1] = h.entries
          /\ \A i \in 1 .. Len(x.got) : g[i] = x.got[i]
      BY <1>1, <1>3, <3>3, AppendProperties
    <3> HIDE DEF y, z, C, h, t, R, g
    <3>5. /\ y \in Asked /\ y.got = g /\ y.data = t /\ y.length = Len(C)
          /\ y.by = x.by /\ y.pipe = x.pipe /\ y.answer = x.answer
          /\ y.at = IF Len(x.got) + 1 = Len(C) THEN "ok" ELSE "body"
      BY <1>4, <3>1, <3>2, <3>4 DEF Asked, RequestAt, Reading, g
    <3>6. Position(y) = Position(x) + 1
      BY <1>1, <3>2, <3>4, <3>5 DEF Position
    <3>7. ASSUME NEW i \in 1 .. Len(g) PROVE g[i] = C[i]
      <4>1. i \in 1 .. Len(x.got) \/ i = Len(x.got) + 1
        BY <1>1, <3>4
      <4> QED
        BY <3>2, <3>3, <3>4, <4>1
    <3>8. ReadSoFar(y)
      <4>1. Len(x.got) + 1 = Len(C) => g = C
        BY <1>3, <3>4, <3>7, SeqEqual
      <4>2. Len(x.got) + 1 # Len(C) => Len(g) < Len(C)
        BY <1>1, <1>3, <3>2, <3>4
      <4> QED
        BY <3>5, <3>7, <4>1, <4>2 DEF ReadSoFar, C
    <3>9. Len(g) <= Limit
      BY <1>1, <1>3, <3>3, <3>4, Bounds
    <3> QED
      BY <3>5, <3>6, <3>8, <3>9
  <2> QED
    BY <2>1, <2>2
<1> HIDE DEF y, z, h, t, R, C
<1>10. InPipe(y)
  BY <1>8, <1>9 DEF InPipe, R
<1>11. ASSUME NEW parts \in Seq(Part), ToCome(x, parts) PROVE ToCome(y, parts)
  <2>1. /\ Position(x) + Len(x.data) + Len(parts) = Len(R) /\ Len(parts) \in Nat
        /\ \A i \in 1 .. Len(parts) : parts[i] = R[Position(x) + Len(x.data) + i]
    BY <1>11, LenProperties DEF ToCome, R
  <2>2. Position(y) + Len(y.data) = Position(x) + Len(x.data)
    <3>1. Len(y.data) = Len(x.data) - 1 /\ Len(x.data) \in Nat
      BY <1>2, <1>9
    <3> QED
      BY <1>6, <1>9, <3>1
  <2> QED
    BY <1>9, <2>1, <2>2 DEF ToCome, R
<1>12. Len(y.data) <= Len(x.data)
  BY <1>2, <1>9
<1> QED
  BY <1>9, <1>10, <1>11, <1>12 DEF y, z, h, t

(* Taking the next part keeps the invariant. *)
LEMMA ReadKept ==
  ASSUME Inv, NEW r \in DOMAIN request, Read(r)
  PROVE  Inv'
<1> DEFINE y == Take([request[r] EXCEPT !.data = Tail(@)], Head(request[r].data))
<1>1. /\ request[r] \in Asked /\ request[r].at \in {"length", "body"}
      /\ request[r].data # <<>>
      /\ state[request[r].by] = "runs" /\ request[r].by \in Client
      /\ Len(request[r].data) <= Size
  BY RequestIs DEF Inv, Typed, Read, At, Asked
<1>2. /\ Fits(r, request[r]) /\ (request[r].pipe = "open" => serving = r)
      /\ serving = r => Holds(request[r], server) /\ ServerFits(request[r], server)
  BY AsItIs
<1>3. UNCHANGED <<agent, starts, cache, server, serving, loading, shown, state>>
  BY DEF Read, Becomes
<1>4. request' = [request EXCEPT ![r] = y]
  BY DEF Read, Becomes
<1>5. request[r].answer \in Successors(shown[request[r].by], changes)
      /\ ReadSoFar(request[r]) /\ InPipe(request[r]) /\ Len(request[r].got) <= Limit
  BY <1>1, <1>2 DEF Fits, Reading
<1>6. Len(request[r].answer) <= Limit
  BY <1>5 DEF Successors
<1>7. /\ y \in Asked /\ y.at \in {"body", "ok"} /\ Len(y.data) <= Len(request[r].data)
      /\ y.by = request[r].by /\ y.pipe = request[r].pipe /\ y.answer = request[r].answer
      /\ Len(y.got) <= Limit /\ ReadSoFar(y) /\ InPipe(y)
      /\ \A parts \in Seq(Part) : ToCome(request[r], parts) => ToCome(y, parts)
  BY <1>1, <1>5, <1>6, TakeIs
<1> HIDE DEF y
<1>8. Len(y.data) <= Size
  <2>1. Len(y.data) \in Nat /\ Len(request[r].data) \in Nat
    BY <1>1, <1>7, LenProperties DEF Asked
  <2> QED
    BY <1>1, <1>7, <2>1, Bounds
<1>9. Fits(r, y)
  BY <1>1, <1>2, <1>5, <1>7, <1>8 DEF Fits, Reading
<1>10. serving = r => server.at \notin Begun
  BY <1>1, <1>2 DEF Holds
<1>11. server.parts \in Seq(Part)
  BY DEF Inv, Typed, Served
<1>12. serving = r => Holds(y, server) /\ ServerFits(y, server)
  BY <1>1, <1>2, <1>7, <1>10, <1>11 DEF Holds, ServerFits, Reading
<1> QED
  BY <1>2, <1>3, <1>4, <1>7, <1>9, <1>12, Exchange

(* The request that is served. *)
-----------------------------------------------------------------------------
(* Each action of the server. *)

(* While a request is served, it is one of the requests and fits. *)
LEMMA ServedIs ==
  ASSUME Inv, serving # None
  PROVE  /\ serving \in DOMAIN request /\ request[serving] \in Asked
         /\ request[serving].by \in Client
         /\ Fits(serving, request[serving])
         /\ request' = request =>
              request' = [request EXCEPT ![serving] = request[serving]]
         /\ Holds(request[serving], server) /\ ServerFits(request[serving], server)
<1>1. serving \in DOMAIN request
  BY DEF Inv, Serves
<1>2. request[serving] \in Asked
  BY <1>1, RequestIs DEF Inv
<1> QED
  BY <1>1, <1>2, AsItIs DEF Asked

(* A step of the server that only concerns itself. *)
(* A step of the server that leaves the requests alone. *)
LEMMA ServeKept ==
  ASSUME Inv, serving # None, NEW y, Serve(y), UNCHANGED <<serving, request>>,
         Holds(request[serving], y), ServerFits(request[serving], y)
  PROVE  Inv'
<1>1. /\ serving \in DOMAIN request /\ Fits(serving, request[serving])
      /\ request' = [request EXCEPT ![serving] = request[serving]]
  BY ServedIs
<1>2. server' = y /\ UNCHANGED <<agent, starts, cache, loading, shown, state>>
      /\ serving' = serving
  BY DEF Serve
<1> QED
  BY <1>1, <1>2, Exchange

(* The fields of the server, one by one. *)
LEMMA ServerIs ==
  Inv => /\ server \in Served /\ server.at \in ServerStep
         /\ server.todo \subseteq File /\ server.entries \in Seq(Entry)
         /\ server.parts \in Seq(Part) /\ Idle \in Served
BY EmptySeq DEF Inv, Typed, Served, Idle, ServerStep

(* ConnectNamedPipe returns, with the client or without. *)
LEMMA ConnectedKept ==
  ASSUME Inv, Connected
  PROVE  Inv'
<1> DEFINE x == request[serving]
           y == [server EXCEPT !.at = "read"]
           z == [server EXCEPT !.at = "disconnect"]
<1>1. serving # None /\ server.at = "connect" /\ server \in Served
  BY ServerIs DEF Connected
<1>2. Holds(x, server) /\ ServerFits(x, server)
  BY <1>1, ServedIs
<1>3. /\ y \in Served /\ y.at = "read" /\ y.entries = server.entries
      /\ z \in Served /\ z.at = "disconnect" /\ z.entries = server.entries
  BY <1>1 DEF Served, ServerStep
<1> HIDE DEF x, y, z
<1>4. Holds(x, y) /\ ServerFits(x, y)
  BY <1>1, <1>2, <1>3 DEF Holds, ServerFits, Begun
<1>5. Holds(x, z) /\ ServerFits(x, z)
  BY <1>1, <1>2, <1>3 DEF Holds, ServerFits, Begun
<1>6. (Serve(y) \/ Serve(z)) /\ UNCHANGED <<serving, request>>
  BY DEF Connected, y, z
<1> QED
  BY <1>1, <1>4, <1>5, <1>6, ServeKept DEF x

(* The request has been read, or the client has gone before it asked. *)
LEMMA ReadRequestKept ==
  ASSUME Inv, ReadRequest
  PROVE  Inv'
<1> DEFINE x == request[serving]
           y == [server EXCEPT !.at = "snapshot", !.todo = cached]
           z == [server EXCEPT !.at = "disconnect"]
<1>1. serving # None /\ server.at = "read" /\ server \in Served /\ server.entries = <<>>
  BY ServerIs DEF ReadRequest, Inv, Serves
<1>2. /\ Holds(x, server) /\ ServerFits(x, server) /\ Fits(serving, x) /\ x.by \in Client
  BY <1>1, ServedIs
<1>3. /\ y \in Served /\ y.at = "snapshot" /\ y.entries = <<>>
      /\ z \in Served /\ z.at = "disconnect" /\ z.entries = <<>>
  BY <1>1 DEF Served, ServerStep, Inv, Typed
<1>4. <<>> \in Successors(shown[x.by], changes)
  BY <1>2, Lists, SuccessorsAre
<1> HIDE DEF x, y, z
<1>5. ASSUME x.asked PROVE Holds(x, y) /\ ServerFits(x, y)
  <2>1. x.at # "ask"
    BY <1>2, <1>5 DEF Fits
  <2>2. Holds(x, y)
    BY <1>1, <1>2, <1>3, <2>1 DEF Holds, Begun
  <2>3. ServerFits(x, y)
    BY <1>3, <1>4, EmptySeq, Bounds DEF ServerFits
  <2> QED
    BY <2>2, <2>3
<1>6. Holds(x, z) /\ ServerFits(x, z)
  BY <1>1, <1>2, <1>3 DEF Holds, ServerFits, Begun
<1>7. ((x.asked /\ Serve(y)) \/ Serve(z)) /\ UNCHANGED <<serving, request>>
  BY DEF ReadRequest, x, y, z
<1> QED
  BY <1>1, <1>5, <1>6, <1>7, ServeKept DEF x

(* FileContextCache::snapshot takes the context of one file, or leaves it out. *)
LEMMA NextEntryKept ==
  ASSUME Inv, NextEntry
  PROVE  Inv'
<1> DEFINE x == request[serving]
           f == CHOOSE f \in server.todo : TRUE
           e == Append(server.entries, [file |-> f, change |-> changes[f]])
           y == [server EXCEPT !.todo = @ \ {f}, !.entries = e]
           z == [server EXCEPT !.todo = @ \ {f}]
<1>1. /\ serving # None /\ server.at = "snapshot" /\ server \in Served
      /\ server.todo # {} /\ Len(server.entries) # Limit
  BY ServerIs DEF NextEntry, Full, Inv, Serves
<1>2. /\ Holds(x, server) /\ ServerFits(x, server) /\ Fits(serving, x) /\ x.by \in Client
  BY <1>1, ServedIs
<1>3. f \in server.todo /\ f \in File
  <2>1. f \in server.todo
    BY <1>1
  <2> QED
    BY <2>1, ServerIs
<1>4. /\ server.entries \in Successors(shown[x.by], changes)
      /\ \A i \in DOMAIN server.entries : server.entries[i].file \notin server.todo
  BY <1>1, <1>2 DEF ServerFits
<1>5. /\ shown[x.by] \in Seq(Entry) /\ changes \in [File -> 0 .. MaxChanges]
      /\ shown[x.by] \in Successors(shown[x.by], changes)
  BY <1>2 DEF Inv, Typed, ShownInOrder
<1>6. e \in Successors(shown[x.by], changes)
  BY <1>1, <1>3, <1>4, <1>5, SuccessorsAppend
<1>7. /\ e \in Seq(Entry) /\ Len(e) <= Limit
      /\ \A i \in DOMAIN e : e[i].file \notin server.todo \ {f}
  <2>1. e \in Seq(Entry) /\ Len(e) <= Limit
    BY <1>6 DEF Successors
  <2>2. server.entries \in Seq(Entry) /\ [file |-> f, change |-> changes[f]] \in Entry
    BY <1>3, <1>5, ServerIs DEF Entry
  <2>3. ASSUME NEW i \in DOMAIN e PROVE e[i].file \notin server.todo \ {f}
    <3>1. CASE i \in DOMAIN server.entries
      <4>1. e[i] = server.entries[i]
        BY <2>2, <3>1, AppendProperties, LenProperties
      <4> QED
        BY <1>4, <3>1, <4>1
    <3>2. CASE i \notin DOMAIN server.entries
      <4>1. e[i] = [file |-> f, change |-> changes[f]]
        BY <2>2, <2>3, <3>2, AppendProperties, LenProperties
      <4> QED
        BY <4>1
    <3> QED
      BY <3>1, <3>2
  <2> QED
    BY <2>1, <2>3
<1> HIDE DEF f, e
<1>8. /\ y \in Served /\ y.at = "snapshot" /\ y.entries = e /\ y.todo = server.todo \ {f}
      /\ y.parts = server.parts
      /\ z \in Served /\ z.at = "snapshot" /\ z.entries = server.entries
      /\ z.todo = server.todo \ {f} /\ z.parts = server.parts
  BY <1>1, <1>7 DEF Served
<1> HIDE DEF x, y, z
<1>9. Holds(x, y) /\ Holds(x, z)
  BY <1>1, <1>2, <1>8 DEF Holds
<1>10. ServerFits(x, y)
  BY <1>6, <1>7, <1>8 DEF ServerFits
<1>11. ServerFits(x, z)
  BY <1>1, <1>2, <1>8 DEF ServerFits
<1>12. (Serve(y) \/ Serve(z)) /\ UNCHANGED <<serving, request>>
  BY DEF NextEntry, y, z, e, f
<1> QED
  BY <1>1, <1>9, <1>10, <1>11, <1>12, ServeKept DEF x

(* The answer is made of the entries: from here on they are on their way to the
   client. *)
LEMMA AnswerKept ==
  ASSUME Inv, Answer
  PROVE  Inv'
<1> DEFINE x == request[serving]
           n == [x EXCEPT !.answer = server.entries]
           y == [Idle EXCEPT !.at = "write", !.parts = Response(server.entries)]
<1>1. /\ serving # None /\ server.at = "snapshot" /\ server \in Served
      /\ server.entries \in Seq(Entry)
  BY ServerIs DEF Answer, Inv, Serves
<1>2. /\ Holds(x, server) /\ ServerFits(x, server) /\ Fits(serving, x) /\ x.by \in Client
      /\ x \in Asked /\ serving \in DOMAIN request
  BY <1>1, ServedIs
<1>3. server.entries \in Successors(shown[x.by], changes) /\ Len(server.entries) <= Limit
  BY <1>1, <1>2 DEF ServerFits
<1>4. /\ Response(server.entries) \in Seq(Part)
  BY <1>1, <1>3, ResponseIs
<1>5. /\ n \in Asked /\ n.by = x.by /\ n.at = x.at /\ n.pipe = x.pipe /\ n.asked = x.asked
      /\ n.data = x.data /\ n.length = x.length /\ n.got = x.got /\ n.ok = x.ok
      /\ n.answer = server.entries
  BY <1>1, <1>2 DEF Asked
<1>6. /\ y \in Served /\ y.at = "write" /\ y.entries = <<>>
      /\ y.parts = Response(server.entries)
  BY <1>4, EmptySeq DEF Idle, Served, ServerStep
<1>7. /\ request' = [request EXCEPT ![serving] = n]
      /\ server' = y /\ UNCHANGED <<agent, starts, cache, loading, shown, state>>
      /\ serving' = serving
  BY DEF Answer, Serve
<1>8. state[x.by] = "ended"
      \/ (x.at \in {"ask", "length"} /\ x.pipe = "open" /\ x.data = <<>>)
  BY <1>1, <1>2 DEF Holds, Begun
<1>9. x.pipe = "open" => serving' = serving
  BY <1>7
<1> HIDE DEF x, n, y
<1>10. x.at # "ask"
       /\ (x.at \in Reading => x.at = "length" /\ x.data = <<>> /\ x.got = <<>>)
  BY <1>1, <1>2, <1>8 DEF Holds, Fits, Reading, ReadSoFar
<1>11. Fits(serving, n)
  <2>1. n.at \in Reading => ReadSoFar(n) /\ InPipe(n)
    BY <1>5, <1>10, EmptySeq DEF ReadSoFar, InPipe
  <2>2. n.at = "closed" /\ n.ok =>
          \E e \in Successors(shown[n.by], changes) : n.got = Chunks(e)
    BY <1>2, <1>5 DEF Fits
  <2> QED
    BY <1>2, <1>3, <1>5, <2>1, <2>2 DEF Fits
<1>12. n.at \in Reading => ToCome(n, y.parts)
  <2> SUFFICES ASSUME n.at \in Reading PROVE ToCome(n, y.parts)
    OBVIOUS
  <2>1. Position(n) = 0 /\ Len(n.data) = 0
    BY <1>5, <1>10, EmptySeq DEF Position
  <2>2. Len(y.parts) \in Nat
    BY <1>4, <1>6, LenProperties
  <2> QED
    BY <1>5, <1>6, <2>1, <2>2 DEF ToCome
<1>13. Holds(n, y)
  BY <1>2, <1>5, <1>6, <1>10, <1>12 DEF Holds, Begun
<1>14. ServerFits(n, y)
  BY <1>6, EmptySeq, Bounds DEF ServerFits
<1> QED
  BY <1>2, <1>7, <1>9, <1>11, <1>13, <1>14, Exchange

(* write_command_response puts the next part behind those in the pipe, or finds
   that the client has gone. *)
LEMMA WriteKept ==
  ASSUME Inv, Write
  PROVE  Inv'
<1> DEFINE x == request[serving]
           h == Head(server.parts)
           n == [x EXCEPT !.data = Append(@, h)]
           y == [server EXCEPT !.parts = Tail(@)]
           z == [Idle EXCEPT !.at = "disconnect"]
<1>1. /\ serving # None /\ server.at = "write" /\ server \in Served
      /\ server.parts \in Seq(Part) /\ server.parts # <<>>
  BY ServerIs DEF Write, Inv, Serves
<1>2. /\ Holds(x, server) /\ ServerFits(x, server) /\ Fits(serving, x) /\ x.by \in Client
      /\ x \in Asked /\ serving \in DOMAIN request
  BY <1>1, ServedIs
<1>3. CASE x.pipe = "open"
  <2>1. /\ Len(x.data) < Size
        /\ request' = [request EXCEPT ![serving] = n]
        /\ server' = y /\ UNCHANGED <<agent, starts, cache, loading, shown, state>>
        /\ serving' = serving
    BY <1>3 DEF Write, HasClient, Serve
  <2>2. x.at \in Reading /\ state[x.by] # "ended"
    <3>1. x.at \in RequestAt /\ x.at \notin {"open", "wait", "closed", "loaded", "ask"}
      BY <1>1, <1>2, <1>3 DEF Fits, Holds, Asked
    <3> QED
      BY <1>2, <3>1 DEF RequestAt, Fits
  <2>3. /\ InPipe(x) /\ ReadSoFar(x) /\ ToCome(x, server.parts)
    BY <1>1, <1>2, <1>3, <2>2 DEF Fits, Holds
  <2>4. /\ h \in Part /\ h = server.parts[1] /\ Tail(server.parts) \in Seq(Part)
        /\ Len(server.parts) \in Nat \ {0}
        /\ Len(Tail(server.parts)) = Len(server.parts) - 1
        /\ \A i \in 1 .. Len(Tail(server.parts)) :
             Tail(server.parts)[i] = server.parts[i + 1]
    BY <1>1, HeadTailProperties, EmptySeq
  <2>5. /\ x.data \in Seq(Part) /\ Len(x.data) \in Nat /\ x.got \in Seq(Chunk)
        /\ Len(x.got) \in Nat
    BY <1>2, LenProperties DEF Asked
  <2> DEFINE d == Append(x.data, h)
             t == Tail(server.parts)
  <2>6. /\ d \in Seq(Part) /\ Len(d) = Len(x.data) + 1 /\ d[Len(x.data) + 1] = h
        /\ \A i \in 1 .. Len(x.data) : d[i] = x.data[i]
    BY <2>4, <2>5, AppendProperties
  <2> HIDE DEF d, h, t
  <2>7. /\ n \in Asked /\ n.by = x.by /\ n.at = x.at /\ n.pipe = x.pipe
        /\ n.asked = x.asked
        /\ n.data = d /\ n.length = x.length /\ n.got = x.got /\ n.ok = x.ok
        /\ n.answer = x.answer
    BY <1>2, <2>6 DEF Asked, d
  <2>8. /\ y \in Served /\ y.at = "write" /\ y.entries = server.entries /\ y.parts = t
        /\ y.todo = server.todo
    BY <1>1, <2>4 DEF Served, t
  <2> HIDE DEF x, n, y
  <2>9. Position(n) = Position(x) /\ Position(x) \in Nat
    BY <2>5, <2>7 DEF Position
  <2>10. /\ Position(x) + Len(x.data) + Len(server.parts) = Len(Response(x.answer))
         /\ \A i \in 1 .. Len(server.parts) :
              server.parts[i] = Response(x.answer)[Position(x) + Len(x.data) + i]
    BY <2>3 DEF ToCome
  <2>11. InPipe(n)
    <3> SUFFICES ASSUME NEW i \in 1 .. Len(d)
                 PROVE  /\ Position(x) + i <= Len(Response(x.answer))
                        /\ d[i] = Response(x.answer)[Position(x) + i]
      BY <2>7, <2>9 DEF InPipe
    <3>1. CASE i <= Len(x.data)
      BY <2>3, <2>5, <2>6, <3>1 DEF InPipe
    <3>2. CASE ~ (i <= Len(x.data))
      <4>1. i = Len(x.data) + 1
        BY <2>5, <2>6, <3>2
      <4>2. server.parts[1] = Response(x.answer)[Position(x) + Len(x.data) + 1]
        BY <2>4, <2>10
      <4>3. Position(x) + Len(x.data) + 1 = Position(x) + i
        BY <2>5, <2>9, <4>1
      <4>4. Position(x) + i <= Len(Response(x.answer))
        BY <2>4, <2>5, <2>9, <2>10, <4>1
      <4> QED
        BY <2>4, <2>6, <4>1, <4>2, <4>3, <4>4
    <3> QED
      BY <3>1, <3>2
  <2>12. ToCome(n, y.parts)
    <3>3. Len(n.data) = Len(x.data) + 1 /\ Len(y.parts) = Len(server.parts) - 1
      BY <2>4, <2>6, <2>7, <2>8 DEF t
    <3>4. Len(server.parts) \in Nat
      BY <2>4
    <3>1. Position(n) + Len(n.data) + Len(y.parts) = Len(Response(n.answer))
      <4>1. \A p, l, m \in Nat : p + (l + 1) + (m - 1) = p + l + m
        OBVIOUS
      <4>2. Position(x) + (Len(x.data) + 1) + (Len(server.parts) - 1)
              = Position(x) + Len(x.data) + Len(server.parts)
        BY <2>5, <2>9, <3>4, <4>1
      <4>3. Position(n) = Position(x) /\ n.answer = x.answer
        BY <2>7, <2>9
      <4> QED
        BY <2>10, <3>3, <4>2, <4>3
    <3>2. ASSUME NEW i \in 1 .. Len(t)
          PROVE  t[i] = Response(n.answer)[Position(n) + Len(n.data) + i]
      <4>1. i + 1 \in 1 .. Len(server.parts) /\ t[i] = server.parts[i + 1]
        BY <2>4 DEF t
      <4>2. server.parts[i + 1] = Response(x.answer)[Position(x) + Len(x.data) + (i + 1)]
        BY <2>10, <4>1
      <4>3. Position(x) + Len(x.data) + (i + 1) = Position(n) + Len(n.data) + i
        <5>1. i \in Int /\ Len(n.data) = Len(x.data) + 1 /\ Position(n) = Position(x)
          BY <2>9, <3>3
        <5>2. \A p, l \in Nat : \A j \in Int : p + l + (j + 1) = p + (l + 1) + j
          OBVIOUS
        <5>3. Position(x) + Len(x.data) + (i + 1) = Position(x) + (Len(x.data) + 1) + i
          BY <2>5, <2>9, <5>1, <5>2
        <5> QED
          BY <5>1, <5>3
      <4> QED
        BY <2>7, <4>1, <4>2, <4>3
    <3> QED
      BY <2>8, <3>1, <3>2 DEF ToCome
  <2>13. ReadSoFar(n)
    BY <2>3, <2>7 DEF ReadSoFar
  <2>14. Len(d) <= Size
    BY <2>1, <2>5, <2>6, Bounds
  <2>15. Fits(serving, n)
    BY <1>2, <2>2, <2>7, <2>11, <2>13, <2>14 DEF Fits, Reading
  <2>16. Holds(n, y)
    BY <1>1, <1>2, <2>2, <2>7, <2>8, <2>12 DEF Holds, Reading, Begun
  <2>17. ServerFits(n, y)
    BY <1>1, <1>2, <2>7, <2>8 DEF ServerFits
  <2> QED
    BY <1>2, <2>1, <2>15, <2>16, <2>17, Exchange
<1>4. CASE x.pipe # "open"
  <2>1. Serve(z) /\ UNCHANGED <<serving, request>>
    BY <1>4 DEF Write, HasClient
  <2>2. z \in Served /\ z.at = "disconnect" /\ z.entries = <<>>
    BY EmptySeq DEF Idle, Served, ServerStep
  <2> HIDE DEF x, z
  <2>3. Holds(x, z) /\ ServerFits(x, z)
    BY <1>2, <2>2, EmptySeq, Bounds DEF Holds, ServerFits, Begun
  <2> QED
    BY <1>1, <2>1, <2>3, ServeKept DEF x
<1> QED
  BY <1>3, <1>4

(* DisconnectNamedPipe: what has not been read is lost, and the request with it. *)
LEMMA DisconnectKept ==
  ASSUME Inv, Disconnect
  PROVE  Inv'
<1> DEFINE x == request[serving]
           n == [x EXCEPT !.data = <<>>, !.pipe = "lost"]
           y == [Idle EXCEPT !.at = "close"]
<1>1. serving # None
  BY DEF Disconnect, Inv, Serves
<1>2. /\ Holds(x, server) /\ Fits(serving, x) /\ x.by \in Client
      /\ x \in Asked /\ serving \in DOMAIN request
  BY <1>1, ServedIs
<1>3. /\ server' = y /\ UNCHANGED <<agent, starts, cache, loading, shown, state>>
      /\ serving' = serving
  BY DEF Disconnect, Serve
<1>4. request' = [request EXCEPT ![serving] = n]
  BY DEF Disconnect
<1>5. /\ n \in Asked /\ n.by = x.by /\ n.at = x.at /\ n.pipe = "lost" /\ n.asked = x.asked
      /\ n.data = <<>> /\ n.length = x.length /\ n.got = x.got /\ n.ok = x.ok
      /\ n.answer = x.answer
  BY <1>2, EmptySeq DEF Asked
<1>6. y \in Served /\ y.at = "close" /\ y.entries = <<>>
  BY EmptySeq DEF Idle, Served, ServerStep
<1> HIDE DEF x, n, y
<1>7. n.at \in Reading => ReadSoFar(n) /\ InPipe(n)
  BY <1>2, <1>5, EmptySeq DEF Fits, ReadSoFar, InPipe
<1>8. Fits(serving, n)
  BY <1>2, <1>5, <1>7, EmptySeq, Bounds DEF Fits, Holds
<1>9. Holds(n, y) /\ ServerFits(n, y)
  BY <1>5, <1>6, EmptySeq, Bounds DEF Holds, ServerFits, Begun
<1> QED
  BY <1>2, <1>3, <1>4, <1>5, <1>8, <1>9, Exchange

(* What holds of the requests holds on when the server turns to nobody, if nobody has
   the pipe then. *)
(* The server turns to nobody: no pipe is open behind it. *)
LEMMA TurnKept ==
  ASSUME Inv, UNCHANGED <<agent, starts, cache, loading, shown, state, request>>,
         serving' = None, server' \in Served, server'.at \in {"create", "connect"},
         server'.entries = <<>>,
         serving # None => request[serving].pipe # "open"
  PROVE  Inv'
<1>1. \A r \in DOMAIN request : r # None
  BY RequestIs, Bounds DEF Inv, Request
<1>2. Typed'
  BY EmptySeq, Bounds DEF Inv, Typed, cache
<1>3. Serves'
  BY DEF Inv, Serves
<1>4. PipeHeld'
  BY <1>1 DEF Inv, PipeHeld
<1>5. Transfer'
  BY <1>1 DEF Inv, Transfer
<1>6. OneLoads' /\ ShownInOrder'
  BY DEF Inv, OneLoads, ShownInOrder, cache
<1> QED
  BY <1>2, <1>3, <1>4, <1>5, <1>6 DEF Inv

(* CloseHandle of an instance that has been disconnected. *)
LEMMA CloseServerKept ==
  ASSUME Inv, CloseServer
  PROVE  Inv'
<1>1. server' = Idle /\ Idle.at = "create" /\ Idle.entries = <<>>
  BY DEF CloseServer, Serve, Idle
<1>2. request[serving].pipe = "lost"
  BY DEF CloseServer, Inv, Serves
<1> QED
  BY <1>1, <1>2, ServerIs, TurnKept DEF CloseServer, Serve

(* create_command_pipe_instance. *)
LEMMA CreateKept ==
  ASSUME Inv, Create
  PROVE  Inv'
<1> DEFINE y == [server EXCEPT !.at = "connect"]
<1>1. y \in Served /\ y.at = "connect" /\ y.entries = server.entries
  BY ServerIs DEF Served, ServerStep
<1>2. serving = None /\ server.entries = <<>>
  BY DEF Create, Inv, Serves
<1>3. server' = y
      /\ UNCHANGED <<agent, starts, cache, loading, shown, state, request, serving>>
  BY DEF Create, Serve
<1> HIDE DEF y
<1> QED
  BY <1>1, <1>2, <1>3, TurnKept

-----------------------------------------------------------------------------
(* The window, the cache and the processes. *)

(* refresh_file_contexts: a request of a client that has none, for it was not
   loading. *)
LEMMA RefreshKept ==
  ASSUME Inv, NEW c \in Client, Refresh(c)
  PROVE  Inv'
<1> DEFINE n == New(c)
           m == Len(request) + 1
<1>1. /\ n \in Asked /\ n.by = c /\ n.at = "open" /\ n.pipe = "none" /\ ~n.asked
      /\ n.data = <<>> /\ n.got = <<>> /\ ~n.ok /\ n.answer = <<>>
  BY EmptySeq, Bounds DEF New, Asked, RequestAt
<1>2. /\ request \in Seq(Asked) /\ DOMAIN request = 1 .. Len(request)
      /\ Len(request) \in Nat
  BY LenProperties DEF Inv, Typed
<1>3. /\ state[c] = "runs" /\ c \notin loading /\ Len(request) < MaxRequests
      /\ loading' = loading \cup {c} /\ request' = Append(request, n)
      /\ UNCHANGED <<agent, starts, changes, made, cached, server, serving, shown, state>>
  BY DEF Refresh, MayLoad, cache
<1> HIDE DEF n, Refresh
<1>4. /\ request' \in Seq(Asked) /\ Len(request') = m /\ DOMAIN request' = 1 .. m
      /\ request'[m] = n /\ \A r \in DOMAIN request : request'[r] = request[r]
  BY <1>1, <1>2, <1>3, AppendProperties, LenProperties
<1>5. \A r \in DOMAIN request' : r \in DOMAIN request \/ r = m
  BY <1>2, <1>4
<1>6. m \notin DOMAIN request /\ m \in Nat /\ m # None /\ m <= MaxRequests
  BY <1>2, <1>3, Bounds
<1> HIDE DEF m
<1>7. serving # None => serving \in DOMAIN request
  BY DEF Inv, Serves
<1>8. serving # m
  BY <1>6, <1>7
<1>9. Typed'
  <2>1. \A r \in DOMAIN request' :
          Len(request'[r].data) <= Size /\ Len(request'[r].got) <= Limit
    BY <1>1, <1>4, <1>5, EmptySeq, Bounds DEF Inv, Typed
  <2> QED
    BY <1>3, <1>4, <1>6, <2>1 DEF Inv, Typed
<1>10. Serves'
  BY <1>2, <1>3, <1>4, <1>7, <1>5, <1>6 DEF Inv, Serves
<1>11. PipeHeld'
  BY <1>1, <1>3, <1>4, <1>5, <1>8 DEF Inv, PipeHeld, Reading
<1>12. Transfer'
  BY <1>1, <1>3, <1>4, <1>5 DEF Inv, Transfer, Reading
<1>13. OneLoads'
  <2>1. \A r \in DOMAIN request : request[r].by = c => request[r].at = "loaded"
    BY <1>3 DEF Inv, OneLoads
  <2> QED
    BY <1>1, <1>3, <1>4, <1>5, <2>1 DEF Inv, OneLoads
<1>14. ShownInOrder'
  <2>1. <<>> \in Successors(shown[c], changes)
    BY Lists, SuccessorsAre
  <2>2. server.at = "snapshot" => serving \in DOMAIN request
    BY DEF Inv, Serves
  <2> QED
    BY <1>1, <1>3, <1>4, <1>5, <2>1, <2>2 DEF Inv, ShownInOrder
<1> QED
  BY <1>9, <1>10, <1>11, <1>12, <1>13, <1>14 DEF Inv

(* What a request brings to its window when it has been loaded. *)
(* FileContextsLoaded shows a successor of what was shown: the answer, put
   together, or the same as before. *)
LEMMA LoadedIs ==
  ASSUME Inv, NEW r \in DOMAIN request, Loaded(r)
  PROVE  LET c == request[r].by IN
         /\ c \in Client /\ state[c] = "runs" /\ request[r].at = "closed"
         /\ shown'[c] \in Successors(shown[c], changes)
         /\ \A d \in Client \ {c} : shown'[d] = shown[d]
         /\ shown' \in [Client -> Seq(Entry)]
<1> DEFINE c == request[r].by
<1>1. c \in Client /\ state[c] = "runs" /\ request[r].at = "closed"
  BY RequestIs DEF Inv, Asked, Loaded
<1>2. shown \in [Client -> Seq(Entry)] /\ shown[c] \in Successors(shown[c], changes)
  BY <1>1 DEF Inv, Typed, ShownInOrder
<1>3. shown' = [shown EXCEPT ![c] = IF request[r].ok THEN FlattenSeq(request[r].got)
                                    ELSE shown[c]]
  BY DEF Loaded
<1>4. ASSUME request[r].ok
             PROVE FlattenSeq(request[r].got) \in Successors(shown[c], changes)
  <2>1. PICK e \in Successors(shown[c], changes) : request[r].got = Chunks(e)
    BY <1>1, <1>4 DEF Inv, ShownInOrder
  <2>2. e \in Seq(Entry)
    BY DEF Successors
  <2> QED
    BY <2>1, <2>2, FlattenChunks
<1>5. shown'[c] \in Successors(shown[c], changes)
  BY <1>1, <1>2, <1>3, <1>4
<1>6. shown'[c] \in Seq(Entry)
  BY <1>5 DEF Successors
<1> QED
  BY <1>1, <1>2, <1>3, <1>5, <1>6

(* The only request of a client is over; what others may show is not affected. *)
LEMMA LoadedKept ==
  ASSUME Inv, NEW r \in DOMAIN request, Loaded(r)
  PROVE  Inv'
<1> DEFINE c == request[r].by
           f == Failed(request[r])
           n == [f EXCEPT !.at = "loaded"]
<1>1. /\ c \in Client /\ state[c] = "runs" /\ request[r].at = "closed"
      /\ shown'[c] \in Successors(shown[c], changes)
      /\ \A d \in Client \ {c} : shown'[d] = shown[d]
      /\ shown' \in [Client -> Seq(Entry)]
  BY LoadedIs
<1>2. /\ f \in Asked /\ f.by = c /\ f.pipe = "lost" /\ f.data = <<>>
      /\ f.got = <<>> /\ f.ok = FALSE /\ f.answer = <<>>
  BY <1>1, FailedIs
<1> HIDE DEF f
<1>3. /\ n \in Asked /\ n.by = c /\ n.at = "loaded" /\ n.pipe = "lost" /\ n.data = <<>>
      /\ n.got = <<>> /\ n.ok = FALSE /\ n.answer = <<>>
  BY <1>2 DEF Asked, RequestAt
<1>4. /\ request \in Seq(Asked) /\ DOMAIN request = 1 .. Len(request)
      /\ Len(request) \in Nat
      /\ r \in Request /\ r # None
  BY RequestIs, Bounds DEF Inv, Typed, Request
<1>5. /\ request' = [request EXCEPT ![r] = n] /\ loading' = loading \ {c}
      /\ UNCHANGED <<agent, starts, changes, made, cached, server, serving, state>>
  BY DEF Loaded, cache, f
<1> HIDE DEF n, Loaded
<1>6. /\ request' \in Seq(Asked) /\ Len(request') = Len(request)
      /\ DOMAIN request' = DOMAIN request
      /\ request'[r] = n
      /\ \A q \in DOMAIN request \ {r} : request'[q] = request[q]
  BY <1>3, <1>4, <1>5, ExceptSeq, LenProperties
<1>7. \A q \in DOMAIN request \ {r} : request[q].by = c => request[q].at = "loaded"
  BY <1>1 DEF Inv, OneLoads
<1>8. serving = r => server.at \notin Begun
  <2>1. serving = r => Holds(request[r], server)
    BY AsItIs
  <2> QED
    BY <1>1, <2>1 DEF Holds
<1>9. Typed'
  <2>1. \A q \in DOMAIN request' :
          Len(request'[q].data) <= Size /\ Len(request'[q].got) <= Limit
    <3>1. Len(n.data) <= Size /\ Len(n.got) <= Limit
      BY <1>3, EmptySeq, Bounds
    <3>2. \A q \in DOMAIN request :
            Len(request[q].data) <= Size /\ Len(request[q].got) <= Limit
      BY DEF Inv, Typed
    <3> QED
      BY <1>6, <3>1, <3>2
  <2> QED
    BY <1>1, <1>5, <1>6, <2>1 DEF Inv, Typed
<1>10. Serves'
  BY <1>3, <1>5, <1>6 DEF Inv, Serves
<1>11. PipeHeld'
  BY <1>3, <1>5, <1>6, <1>8 DEF Inv, PipeHeld, Reading
<1>12. Transfer'
  BY <1>3, <1>5, <1>6 DEF Inv, Transfer, Reading
<1>13. OneLoads'
  <2>1. \A q \in DOMAIN request : /\ request'[q].by = request[q].by
                                  /\ request'[q].at # "loaded" =>
                                       request[q].at # "loaded" /\ request[q].by # c
    BY <1>1, <1>3, <1>6, <1>7
  <2>2. \A q \in DOMAIN request :
          state[request[q].by] = "ended" => request'[q] = request[q]
    BY <1>1, <1>6
  <2> QED
    BY <1>5, <1>6, <2>1, <2>2 DEF Inv, OneLoads
<1>14. ShownInOrder'
  <2>1. shown'[c] \in Successors(shown'[c], changes)
        /\ <<>> \in Successors(shown'[c], changes)
    BY <1>1, Lists, SuccessorsAre
  <2>2. \A d \in Client : shown'[d] \in Successors(shown'[d], changes)
    BY <1>1, <2>1 DEF Inv, ShownInOrder
  <2>3. server.at = "snapshot" =>
          serving \in DOMAIN request \ {r} /\ request[serving].by \in Client \ {c}
    <3> SUFFICES ASSUME server.at = "snapshot"
                 PROVE  serving \in DOMAIN request \ {r}
                        /\ request[serving].by \in Client \ {c}
      OBVIOUS
    <3>1. serving \in DOMAIN request /\ serving # r
      BY <1>8 DEF Inv, Serves, Begun
    <3>2. Holds(request[serving], server)
      BY <3>1, AsItIs
    <3>3. state[request[serving].by] = "ended" \/ request[serving].at = "length"
      BY <3>2 DEF Holds, Begun
    <3>4. request[serving].by # c
      BY <1>1, <1>7, <3>1, <3>3
    <3> QED
      BY <3>1, <3>4, RequestIs DEF Inv, Asked
  <2>4. ASSUME NEW q \in DOMAIN request
        PROVE  /\ state[request'[q].by] # "ended" /\ request'[q].at # "loaded" =>
                    request'[q].answer \in Successors(shown'[request'[q].by], changes)
               /\ request'[q].at = "closed" /\ request'[q].ok =>
                    \E e \in Successors(shown'[request'[q].by], changes) :
                      request'[q].got = Chunks(e)
    <3>1. CASE q = r
      BY <1>3, <1>6, <2>1, <3>1
    <3>2. CASE q # r /\ request[q].by = c
      BY <1>6, <1>7, <3>2
    <3>3. CASE q # r /\ request[q].by # c
      <4>1. request'[q] = request[q] /\ shown'[request[q].by] = shown[request[q].by]
        BY <1>1, <1>6, <3>3, RequestIs DEF Inv, Asked
      <4> QED
        BY <4>1 DEF Inv, ShownInOrder
    <3> QED
      BY <3>1, <3>2, <3>3
  <2> QED
    BY <1>1, <1>5, <1>6, <2>2, <2>3, <2>4 DEF Inv, ShownInOrder
<1> QED
  BY <1>9, <1>10, <1>11, <1>12, <1>13, <1>14 DEF Inv

(* A change of a context makes nothing on its way newer than the context. *)
LEMMA ChangeKept ==
  ASSUME Inv, NEW f \in File, Change(f)
  PROVE  Inv'
<1>1. /\ made < MaxChanges /\ made' = made + 1
      /\ changes' = [changes EXCEPT ![f] = @ + 1] /\ cached' = cached \cup {f}
      /\ UNCHANGED <<agent, starts, server, serving, request, loading, shown, state>>
  BY DEF Change
<1>2. /\ changes \in [File -> 0 .. MaxChanges] /\ made \in 0 .. MaxChanges
      /\ \A g \in File : changes[g] <= made
  BY DEF Inv, Typed
<1>3. \A g \in File : /\ changes'[g] = IF g = f THEN changes[g] + 1 ELSE changes[g]
                      /\ changes[g] \in Nat /\ changes[g] <= made
  BY <1>1, <1>2, Bounds
<1>4. \A g \in File :
        changes'[g] \in 0 .. MaxChanges /\ changes'[g] <= made'
        /\ changes[g] <= changes'[g]
  BY <1>1, <1>2, <1>3, Bounds
<1>5. changes' \in [File -> 0 .. MaxChanges]
  BY <1>1, <1>2, <1>4
<1>6. \A c \in Client :
        Successors(shown[c], changes) \subseteq Successors(shown[c], changes')
  BY <1>2, <1>4, <1>5, Lists, SuccessorsGrow
<1> HIDE DEF Change
<1>7. Typed'
  BY <1>1, <1>2, <1>4, <1>5, Bounds DEF Inv, Typed
<1>8. Serves' /\ PipeHeld'
  BY <1>1 DEF Inv, Serves, PipeHeld
<1>9. Transfer' /\ OneLoads'
  BY <1>1 DEF Inv, Transfer, OneLoads
<1>10. ShownInOrder'
  <2>1. \A r \in DOMAIN request : request[r].by \in Client
    BY RequestIs DEF Inv, Asked
  <2>2. server.at = "snapshot" => serving \in DOMAIN request
    BY DEF Inv, Serves
  <2> QED
    BY <1>1, <1>6, <2>1, <2>2 DEF Inv, ShownInOrder
<1> QED
  BY <1>7, <1>8, <1>9, <1>10 DEF Inv

(* The end of the agent takes the server and the other end of the pipe with it;
   what is in the pipe can be read, and no more comes. *)
LEMMA AgentStopsKept ==
  ASSUME Inv, AgentStops
  PROVE  Inv'
<1> DEFINE x == request[serving]
           n == [x EXCEPT !.pipe = "lost"]
<1>1. /\ agent' = "down" /\ cached' = {} /\ server' = Idle /\ serving' = None
      /\ UNCHANGED <<starts, changes, made, loading, shown, state>>
  BY DEF AgentStops
<1>2. Idle \in Served /\ Idle.at = "create" /\ Idle.entries = <<>> /\ Len(<<>>) <= Limit
  BY ServerIs, EmptySeq, Bounds DEF Idle
<1>3. /\ DOMAIN request' = DOMAIN request /\ request' \in Seq(Asked)
      /\ Len(request') = Len(request)
      /\ \A r \in DOMAIN request :
           /\ request'[r] \in Asked
           /\ request'[r].by = request[r].by /\ request'[r].at = request[r].at
           /\ request'[r].asked = request[r].asked /\ request'[r].data = request[r].data
           /\ request'[r].length = request[r].length /\ request'[r].got = request[r].got
           /\ request'[r].ok = request[r].ok /\ request'[r].answer = request[r].answer
           /\ request'[r].pipe # "open"
           /\ request'[r].pipe = "none" <=> request[r].pipe = "none"
           /\ request[r].pipe = "lost" => request'[r].pipe = "lost"
  <2>1. /\ request \in Seq(Asked) /\ DOMAIN request = 1 .. Len(request)
        /\ \A r \in DOMAIN request : request[r] \in Asked
        /\ \A r \in DOMAIN request : request[r].pipe = "open" => serving = r
    BY RequestIs, LenProperties DEF Inv, Typed, PipeHeld
  <2>2. CASE serving = None
    <3>1. \A r \in DOMAIN request : request[r].pipe # "open"
      BY <2>1, <2>2, RequestIs, Bounds DEF Inv, Request
    <3>2. request' = request
      BY <2>2 DEF AgentStops
    <3> QED
      BY <2>1, <3>1, <3>2
  <2>3. CASE serving # None
    <3>1. serving \in DOMAIN request /\ x \in Asked /\ x.pipe # "none"
      BY <2>1, <2>3 DEF Inv, Serves
    <3>2. request' = [request EXCEPT ![serving] = n]
      BY <2>3 DEF AgentStops
    <3>3. /\ n \in Asked /\ n.by = x.by /\ n.at = x.at /\ n.pipe = "lost"
          /\ n.asked = x.asked
          /\ n.data = x.data /\ n.length = x.length /\ n.got = x.got /\ n.ok = x.ok
          /\ n.answer = x.answer
      BY <3>1 DEF Asked
    <3> HIDE DEF n
    <3>4. /\ request' \in Seq(Asked) /\ Len(request') = Len(request)
          /\ DOMAIN request' = DOMAIN request
          /\ request'[serving] = n
          /\ \A q \in DOMAIN request \ {serving} : request'[q] = request[q]
      BY <2>1, <3>1, <3>2, <3>3, ExceptSeq, LenProperties
    <3> QED
      BY <2>1, <3>1, <3>3, <3>4
  <2> QED
    BY <2>2, <2>3
<1>4. \A r \in DOMAIN request : r # None
  BY RequestIs, Bounds DEF Inv, Request
<1> HIDE DEF AgentStops
<1>5. Typed'
  BY <1>1, <1>2, <1>3 DEF Inv, Typed
<1>6. Serves'
  BY <1>1, <1>2 DEF Serves
<1>7. PipeHeld'
  BY <1>1, <1>3, <1>4 DEF Inv, PipeHeld
<1>8. Transfer'
  <2> SUFFICES ASSUME NEW r \in DOMAIN request, request[r].at \in Reading
               PROVE  ReadSoFar(request'[r]) /\ InPipe(request'[r])
    BY <1>1, <1>3, <1>4 DEF Transfer
  <2>1. ReadSoFar(request[r]) /\ InPipe(request[r])
    BY DEF Inv, Transfer
  <2>2. /\ request'[r].at = request[r].at /\ request'[r].got = request[r].got
        /\ request'[r].length = request[r].length
        /\ request'[r].answer = request[r].answer /\ request'[r].data = request[r].data
    BY <1>3
  <2>3. ReadSoFar(request'[r])
    BY <2>1, <2>2 DEF ReadSoFar
  <2>4. Position(request'[r]) = Position(request[r])
    BY <2>2 DEF Position
  <2>5. InPipe(request'[r])
    BY <2>1, <2>2, <2>4 DEF InPipe
  <2> QED
    BY <2>3, <2>5
<1>9. OneLoads'
  BY <1>1, <1>3 DEF Inv, OneLoads
<1>10. ShownInOrder'
  BY <1>1, <1>2, <1>3 DEF Inv, ShownInOrder
<1> QED
  BY <1>5, <1>6, <1>7, <1>8, <1>9, <1>10 DEF Inv

(* The end of a client: its window is gone and so are its requests; the server may
   find that out later. *)
LEMMA QuitKept ==
  ASSUME Inv, NEW c \in Client, Quit(c)
  PROVE  Inv'
<1> DEFINE n(r) == [Failed(request[r]) EXCEPT !.asked = request[r].asked]
<1>1. /\ state[c] = "runs" /\ state' = [state EXCEPT ![c] = "ended"]
      /\ loading' = loading \ {c} /\ shown' = [shown EXCEPT ![c] = <<>>]
      /\ UNCHANGED <<agent, starts, changes, made, cached, server, serving>>
      /\ request' = [r \in DOMAIN request |->
                       IF request[r].by = c THEN n(r) ELSE request[r]]
  BY DEF Quit, cache
<1>2. /\ request \in Seq(Asked) /\ DOMAIN request = 1 .. Len(request)
      /\ Len(request) \in Nat
      /\ \A r \in DOMAIN request : request[r] \in Asked /\ request[r].by \in Client
  <2>1. \A r \in DOMAIN request : request[r] \in Asked
    BY RequestIs DEF Inv
  <2> QED
    BY <2>1, LenProperties DEF Inv, Typed, Asked
<1>3. ASSUME NEW r \in DOMAIN request
      PROVE  /\ n(r) \in Asked /\ n(r).by = request[r].by /\ n(r).at = "closed"
             /\ n(r).pipe = "lost" /\ n(r).data = <<>> /\ n(r).got = <<>>
             /\ n(r).ok = FALSE
  <2> DEFINE f == Failed(request[r])
  <2>1. /\ f \in Asked /\ f.by = request[r].by /\ f.at = "closed" /\ f.pipe = "lost"
        /\ f.data = <<>> /\ f.got = <<>> /\ f.ok = FALSE
    BY <1>2, FailedIs
  <2>2. request[r].asked \in BOOLEAN
    BY <1>2 DEF Asked
  <2> HIDE DEF f
  <2>3. LET m == [f EXCEPT !.asked = request[r].asked] IN
        /\ m \in Asked /\ m.by = request[r].by /\ m.at = "closed"
        /\ m.pipe = "lost" /\ m.data = <<>> /\ m.got = <<>> /\ m.ok = FALSE
    BY <2>1, <2>2 DEF Asked
  <2> QED
    BY <2>3 DEF f
<1> HIDE DEF n, Quit
<1>4. /\ request' \in Seq(Asked) /\ Len(request') = Len(request)
      /\ DOMAIN request' = DOMAIN request
      /\ \A r \in DOMAIN request : request[r].by = c => request'[r] = n(r)
      /\ \A r \in DOMAIN request : request[r].by # c => request'[r] = request[r]
  <2> DEFINE g == [r \in 1 .. Len(request) |->
                    IF request[r].by = c THEN n(r) ELSE request[r]]
  <2>1. request' = g
    BY <1>1, <1>2
  <2>2. g \in [1 .. Len(request) -> Asked]
    BY <1>2, <1>3
  <2>3. g \in Seq(Asked) /\ Len(g) = Len(request)
    BY <1>2, <2>2
  <2> QED
    BY <1>2, <2>1, <2>3
<1>5. /\ state' \in [Client -> {"runs", "suspended", "ended"}] /\ state'[c] = "ended"
      /\ \A d \in Client \ {c} : state'[d] = state[d]
      /\ shown' \in [Client -> Seq(Entry)] /\ shown'[c] = <<>>
      /\ \A d \in Client \ {c} : shown'[d] = shown[d]
  BY <1>1, EmptySeq DEF Inv, Typed
<1>6. \A r \in DOMAIN request :
        /\ request'[r].by = request[r].by
        /\ request[r].by = c =>
             /\ request'[r].at = "closed" /\ request'[r].pipe = "lost"
             /\ request'[r].data = <<>> /\ request'[r].got = <<>>
             /\ request'[r].ok = FALSE
  BY <1>3, <1>4
<1>7. Typed'
  <2>1. \A r \in DOMAIN request' :
          Len(request'[r].data) <= Size /\ Len(request'[r].got) <= Limit
    <3> TAKE r \in DOMAIN request'
    <3>1. Len(request[r].data) <= Size /\ Len(request[r].got) <= Limit
      BY <1>4 DEF Inv, Typed
    <3> QED
      BY <1>4, <1>6, <3>1, EmptySeq, Bounds
  <2> QED
    BY <1>1, <1>4, <1>5, <2>1 DEF Inv, Typed
<1>8. Serves'
  BY <1>1, <1>4, <1>6 DEF Inv, Serves
<1>9. PipeHeld'
  <2> SUFFICES ASSUME NEW q \in DOMAIN request
               PROVE  /\ request'[q].pipe = "none" <=> request'[q].at \in {"open", "wait"}
                      /\ request'[q].pipe = "open" => serving' = q
                      /\ request'[q].at \in {"open", "wait", "ask"} =>
                           ~request'[q].asked /\ request'[q].got = <<>>
                      /\ request'[q].at \notin Reading => request'[q].data = <<>>
                      /\ request'[q].at \in {"closed", "loaded"} =>
                           request'[q].pipe = "lost"
                      /\ serving' = q /\ server'.at \in Begun =>
                           \/ state'[request'[q].by] = "ended"
                           \/ /\ request'[q].at \in {"ask", "length"}
                              /\ request'[q].pipe = "open"
                              /\ request'[q].data = <<>>
    BY <1>4 DEF PipeHeld
  <2>1. CASE request[q].by = c
    BY <1>5, <1>6, <2>1
  <2>2. CASE request[q].by # c
    <3>1. request'[q] = request[q] /\ state'[request[q].by] = state[request[q].by]
      BY <1>2, <1>4, <1>5, <2>2
    <3> QED
      BY <1>1, <3>1 DEF Inv, PipeHeld
  <2> QED
    BY <2>1, <2>2
<1>10. Transfer'
  BY <1>1, <1>4, <1>6 DEF Inv, Transfer, Reading
<1>11. OneLoads'
  BY <1>1, <1>2, <1>4, <1>5, <1>6 DEF Inv, OneLoads
<1>12. ShownInOrder'
  <2>1. shown[c] \in Seq(Entry) /\ <<>> \in Seq(Entry)
        /\ changes \in [File -> 0 .. MaxChanges]
    BY Lists, EmptySeq
  <2>2. Successors(shown[c], changes) \subseteq Successors(shown'[c], changes)
    BY <1>5, <2>1, SuccessorsAre
  <2>3. \A d \in Client :
          /\ shown'[d] \in Successors(shown'[d], changes)
          /\ Successors(shown[d], changes) \subseteq Successors(shown'[d], changes)
    <3>1. shown'[c] \in Successors(shown'[c], changes)
      BY <1>5, <2>1, SuccessorsAre
    <3> QED
      BY <1>5, <2>2, <3>1 DEF Inv, ShownInOrder
  <2>4. server.at = "snapshot" => serving \in DOMAIN request
    BY DEF Inv, Serves
  <2>5. server.at = "snapshot" =>
          /\ server.entries \in Successors(shown'[request'[serving].by], changes)
          /\ \A i \in DOMAIN server.entries : server.entries[i].file \notin server.todo
    BY <1>2, <1>6, <2>3, <2>4 DEF Inv, ShownInOrder
  <2>6. ASSUME NEW q \in DOMAIN request
        PROVE  /\ state'[request'[q].by] # "ended" /\ request'[q].at # "loaded" =>
                    request'[q].answer \in Successors(shown'[request'[q].by], changes)
               /\ request'[q].at = "closed" /\ request'[q].ok =>
                    \E e \in Successors(shown'[request'[q].by], changes) :
                      request'[q].got = Chunks(e)
    <3>1. CASE request[q].by = c
      BY <1>5, <1>6, <3>1
    <3>2. CASE request[q].by # c
      <4>1. /\ request'[q] = request[q] /\ state'[request[q].by] = state[request[q].by]
            /\ shown'[request[q].by] = shown[request[q].by]
        BY <1>2, <1>4, <1>5, <3>2
      <4> QED
        BY <4>1 DEF Inv, ShownInOrder
    <3> QED
      BY <3>1, <3>2
  <2> QED
    BY <1>1, <1>4, <2>3, <2>5, <2>6 DEF ShownInOrder
<1> QED
  BY <1>7, <1>8, <1>9, <1>10, <1>11, <1>12 DEF Inv

(* A client that is suspended keeps its handles. *)
LEMMA StallKept ==
  ASSUME Inv, NEW c \in Client, Stall(c)
  PROVE  Inv'
<1>1. /\ state' \in [Client -> {"runs", "suspended", "ended"}]
      /\ \A d \in Client : state'[d] = "ended" <=> state[d] = "ended"
      /\ UNCHANGED <<agent, starts, changes, made, cached, server, serving, request,
                     loading, shown>>
  BY DEF Stall, cache, Inv, Typed
<1>2. \A r \in DOMAIN request : request[r].by \in Client
  BY RequestIs DEF Inv, Asked
<1> HIDE DEF Stall
<1>3. Typed' /\ Serves' /\ Transfer'
  BY <1>1 DEF Inv, Typed, Serves, Transfer
<1>4. PipeHeld'
  BY <1>1, <1>2 DEF Inv, PipeHeld
<1>5. OneLoads'
  BY <1>1, <1>2 DEF Inv, OneLoads
<1>6. ShownInOrder'
  BY <1>1, <1>2 DEF Inv, ShownInOrder
<1> QED
  BY <1>3, <1>4, <1>5, <1>6 DEF Inv

(* The agent starts again, with the server at its beginning. *)
LEMMA AgentStartsKept ==
  ASSUME Inv, AgentStarts
  PROVE  Inv'
<1>1. /\ agent' = "up" /\ starts' = starts + 1 /\ starts < MaxStarts
      /\ UNCHANGED <<changes, made, cached, server, serving, request, loading, shown,
                     state>>
  BY DEF AgentStarts, cache
<1>2. Typed'
  BY <1>1, Bounds DEF Inv, Typed
<1>3. Serves'
  BY <1>1 DEF Inv, Serves
<1>4. PipeHeld' /\ Transfer' /\ OneLoads' /\ ShownInOrder'
  BY <1>1 DEF Inv, PipeHeld, Transfer, OneLoads, ShownInOrder
<1> QED
  BY <1>2, <1>3, <1>4 DEF Inv

-----------------------------------------------------------------------------
(* The theorems. *)

(* The invariant holds initially. *)
LEMMA Initially == Init => Inv
<1> SUFFICES ASSUME Init PROVE Inv
  OBVIOUS
<1>1. Idle \in Served /\ Idle.at = "create" /\ Idle.entries = <<>> /\ Len(<<>>) = 0
  BY EmptySeq DEF Idle, Served, ServerStep
<1>2. request = <<>> /\ DOMAIN request = {} /\ request \in Seq(Asked)
  BY EmptySeq DEF Init
<1>3. Typed
  BY <1>1, <1>2, EmptySeq, Bounds DEF Init, Typed
<1>4. Serves
  BY <1>1 DEF Init, Serves
<1>5. PipeHeld /\ Transfer /\ OneLoads
  BY <1>2 DEF PipeHeld, Transfer, OneLoads
<1>6. \A c \in Client : shown[c] \in Successors(shown[c], changes)
  BY <1>3, SuccessorsAre, EmptySeq DEF Init, Typed
<1>7. ShownInOrder
  BY <1>1, <1>2, <1>6 DEF Init, ShownInOrder
<1> QED
  BY <1>3, <1>4, <1>5, <1>7 DEF Inv

(* Every step keeps it. *)
LEMMA Kept == Inv /\ [Next]_vars => Inv'
<1> SUFFICES ASSUME Inv, [Next]_vars PROVE Inv'
  OBVIOUS
<1>1. ASSUME NEW c \in Client, Refresh(c) \/ Quit(c) \/ Stall(c) PROVE Inv'
  BY <1>1, RefreshKept, QuitKept, StallKept
<1>2. ASSUME NEW r \in DOMAIN request, RequestStep(r) PROVE Inv'
  BY <1>2, OpenKept, WaitEndsKept, AskKept, ReadKept, ReadFailsKept, CloseKept,
     LoadedKept DEF RequestStep
<1>3. CASE Server
  BY <1>3, CreateKept, ConnectedKept, ReadRequestKept, NextEntryKept, AnswerKept,
     WriteKept, DisconnectKept, CloseServerKept DEF Server
<1>4. ASSUME NEW f \in File, Change(f) PROVE Inv'
  BY <1>4, ChangeKept
<1>5. CASE AgentStops \/ AgentStarts
  BY <1>5, AgentStopsKept, AgentStartsKept
<1>6. CASE UNCHANGED vars
  <2>1. Typed' /\ Serves' /\ PipeHeld'
    BY <1>6 DEF Inv, vars, cache, Typed, Serves, PipeHeld
  <2>2. Transfer' /\ OneLoads' /\ ShownInOrder'
    BY <1>6 DEF Inv, vars, cache, Transfer, OneLoads, ShownInOrder
  <2> QED
    BY <2>1, <2>2 DEF Inv
<1> QED
  BY <1>1, <1>2, <1>3, <1>4, <1>5, <1>6 DEF Next

(* So it always holds. *)
LEMMA Invariant == Spec => []Inv
BY Initially, Kept, PTL DEF Spec

(* Type correctness: the pipe holds at most as many parts as fit into it, answers
   and what is shown are at most as long as FILE_CONTEXT_SNAPSHOT_LIMIT, and the
   server serves one of the requests or none. *)
THEOREM TypeCorrect == Spec => []TypeOK
<1>1. Inv => TypeOK
  <2> SUFFICES ASSUME Inv PROVE TypeOK
    OBVIOUS
  <2>1. \A r \in DOMAIN request : request[r] \in Asked
    BY RequestIs DEF Inv
  <2>2. \A c \in Client : shown[c] \in Seq(Entry) /\ Len(shown[c]) <= Limit
    BY DEF Inv, ShownInOrder, Successors
  <2>3. /\ server.at \in ServerStep /\ server.todo \subseteq File
        /\ server.entries \in Seq(Entry) /\ server.parts \in Seq(Part)
    BY ServerIs
  <2> QED
    BY <2>1, <2>2, <2>3 DEF Inv, Typed, TypeOK, Asked, RequestAt, Reading, ServerStep
<1> QED
  BY <1>1, Invariant, PTL

(* A snapshot that read_command_response takes for complete is the answer the
   agent gave to this very request, although the server disconnects the pipe under
   the reader and the agent may stop at any point: a length that has been read is
   that of the answer, and that many chunks are all of it. *)
THEOREM AnswersWhole == Spec => []WholeOrError
<1>1. Inv => WholeOrError
  <2> SUFFICES ASSUME Inv, NEW r \in DOMAIN request, request[r].at = "ok"
               PROVE  FlattenSeq(request[r].got) = request[r].answer
    BY DEF WholeOrError
  <2>1. request[r].answer \in Seq(Entry)
    BY RequestIs DEF Inv, Asked
  <2>2. request[r].got = Chunks(request[r].answer)
    BY DEF Inv, Transfer, Reading, ReadSoFar
  <2> QED
    BY <2>1, <2>2, FlattenChunks
<1> QED
  BY <1>1, Invariant, PTL

(* The action of NeverOlder. *)
NoOlder ==
  \A c \in Client : \A i \in DOMAIN shown[c], j \in DOMAIN shown'[c] :
    shown[c][i].file = shown'[c][j].file => shown[c][i].change <= shown'[c][j].change

(* Every step keeps the order: only FileContextsLoaded changes what a client
   shows, to a successor, until the client ends. *)
LEMMA StepNoOlder == Inv /\ [Next]_vars => NoOlder
<1> SUFFICES ASSUME Inv, [Next]_vars, NEW c \in Client
             PROVE  shown'[c] \in Successors(shown[c], changes) \/ shown'[c] = <<>>
  BY EmptySeq DEF NoOlder, Successors
<1>1. shown[c] \in Successors(shown[c], changes)
  BY DEF Inv, ShownInOrder
<1>2. CASE shown' = shown
  BY <1>1, <1>2
<1>3. ASSUME NEW d \in Client, Quit(d) PROVE shown'[c] = shown[c] \/ shown'[c] = <<>>
  BY <1>3 DEF Quit, Inv, Typed
<1>4. ASSUME NEW r \in DOMAIN request, Loaded(r)
      PROVE  shown'[c] \in Successors(shown[c], changes)
  BY <1>1, <1>4, LoadedIs
<1>5. ASSUME NEW d \in Client, Refresh(d) \/ Stall(d) PROVE shown' = shown
  BY <1>5 DEF Refresh, Stall
<1>6. ASSUME NEW r \in DOMAIN request, RequestStep(r), ~Loaded(r) PROVE shown' = shown
  BY <1>6 DEF RequestStep, Open, WaitEnds, Ask, Read, ReadFails, Close, Becomes
<1>7. ASSUME Server PROVE shown' = shown
  BY <1>7 DEF Server, Create, Connected, ReadRequest, NextEntry, Answer, Write,
     Disconnect, CloseServer, Serve
<1>8. ASSUME AgentStops \/ AgentStarts \/ (\E f \in File : Change(f)) \/ UNCHANGED vars
      PROVE  shown' = shown
  BY <1>8 DEF AgentStops, AgentStarts, Change, vars
<1> QED
  BY <1>1, <1>2, <1>3, <1>4, <1>5, <1>6, <1>7, <1>8 DEF Next

(* A client never shows a context as it was before what it has shown:
   refresh_file_contexts makes one request at a time, and each answer is taken
   from the cache after the previous one was shown. *)
THEOREM OrderShown == Spec => NeverOlder
<1>1. Spec => [][NoOlder]_vars
  BY Invariant, StepNoOlder, PTL DEF Spec
<1> QED
  BY <1>1 DEF NeverOlder, NoOlder
=============================================================================
