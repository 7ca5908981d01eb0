-------------------------- MODULE ClientViewProofs --------------------------
(***************************************************************************)
(* Theorems about detections on their way to the client, for any clients,  *)
(* any instances of the pipe and any bounds on pipes, lists and            *)
(* detections.                                                             *)
(*                                                                         *)
(* The invariant follows a detection from the channel to the window:       *)
(* Served says what is in the pipe of a client, NotAhead and InOrder in    *)
(* which order it arrives, Shown what becomes of it.                       *)
(***************************************************************************)
EXTENDS ClientView, Integers, SequenceTheorems, FiniteSetTheorems,
        WellFoundedInduction, TLAPS

(* A client; one record. *)
Window == [running : BOOLEAN, pipe : Pipe \cup {None}, chan : Seq(Item),
           connected : BOOLEAN, detections : Seq(Event), pending : Seq(Event),
           paused : BOOLEAN, got : SUBSET Event]

(* Where the server is; one record. *)
Loop == [at : {"register", "recv", "write"}, idx : Nat, dead : Seq(Nat)]

(* No handle is twice in a list. *)
Distinct(list) == \A i, j \in DOMAIN list : list[i] = list[j] => i = j

(* What a client shows and holds back are the newest of the detections it has
   received. *)
Shows(g) ==
  /\ Trim(g.pending \o g.detections) = Newest(g.got)
  /\ ~g.paused => g.pending = <<>>

(* The types, fully. *)
Typed ==
  /\ agent \in {"up", "down"}
  /\ sent \in 0 .. MaxEvents /\ last \in 0 .. sent
  /\ listening \in Pipe \cup {None}
  /\ opened \in BOOLEAN
  /\ accepted \in Seq(Pipe) /\ clients \in Seq(Pipe)
  /\ server \in Loop
  /\ buf \in [Pipe -> Seq(Event)] /\ \A p \in Pipe : Len(buf[p]) <= Size
  /\ seen \in [Pipe -> 0 .. MaxEvents]
  /\ failed \in [Pipe -> SUBSET Event]
  /\ gui \in [Client -> Window]
  /\ \A c \in Client :
       Len(gui[c].detections) <= MaxShown /\ Len(gui[c].pending) <= MaxShown
  /\ starts \in 0 .. MaxStarts

(* The server and the accept thread have no handle twice between them, and an
   agent that does not run has none. *)
HandlesApart ==
  /\ Distinct(clients) /\ Distinct(accepted)
  /\ \A i \in DOMAIN clients, j \in DOMAIN accepted : clients[i] # accepted[j]
  /\ listening # None =>
       /\ \A i \in DOMAIN clients : clients[i] # listening
       /\ \A i \in DOMAIN accepted : accepted[i] # listening
  /\ opened => listening # None
  /\ agent = "down" =>
       listening = None /\ accepted = <<>> /\ clients = <<>> /\ server = Top

(* No pipe has two clients, one that is listened on has no client until it is
   opened, and what is in a pipe is gone with its client. *)
OneClient ==
  /\ \A c, d \in Client : gui[c].pipe # None /\ gui[c].pipe = gui[d].pipe => c = d
  /\ listening # None /\ ~opened => ~ClientEnd(listening)
  /\ listening # None => buf[listening] = <<>>
  /\ \A i \in DOMAIN accepted : buf[accepted[i]] = <<>>
  /\ \A p \in Pipe : ~ClientEnd(p) => buf[p] = <<>>
  /\ \A c \in Client : ~gui[c].running => gui[c] = Stopped

(* Where the server is in a round: the dead are those it has passed, in order. *)
Round ==
  /\ server.at # "write" => server = [Top EXCEPT !.at = server.at]
  /\ server.at = "write" =>
       /\ last >= 1
       /\ server.idx \in 1 .. Len(clients) + 1
       /\ \A k \in DOMAIN server.dead : server.dead[k] \in 1 .. server.idx - 1
       /\ \A k, l \in DOMAIN server.dead : k < l => server.dead[k] < server.dead[l]

(* The last detection that has been written to the i-th client. *)
UpTo(i) == IF WrittenTo(i) THEN last ELSE last - 1

(* Data are the detections after a up to b, in order, but for those that failed. *)
Due(data, a, b, f) ==
  /\ a <= b
  /\ ToSet(data) = (a + 1 .. b) \ f
  /\ \A k, l \in DOMAIN data : k < l => data[k] < data[l]
  /\ \A e \in f : e <= b

(* What is in a pipe of a client are the detections after the last one it has
   read, or after the last one before the server took its handle, up to the last
   one the server came to, but for those that failed. *)
Served ==
  \A i \in DOMAIN clients :
    LET p == clients[i] IN
    ClientEnd(p) => Due(buf[p], seen[p], UpTo(i), failed[p])

(* An item of a channel that carries a detection. *)
IsNews(item) == item.of = "Message"

(* What a client has received is older than what is in its channel, in order, and
   that is older than what it has not read. *)
Ordered(g, data) ==
  /\ \A e \in g.got, i \in DOMAIN g.chan : IsNews(g.chan[i]) => e < g.chan[i].event
  /\ \A i, j \in DOMAIN g.chan :
       i < j /\ IsNews(g.chan[i]) /\ IsNews(g.chan[j]) =>
         g.chan[i].event < g.chan[j].event
  /\ \A k \in DOMAIN data :
       /\ \A e \in g.got : e < data[k]
       /\ \A i \in DOMAIN g.chan : IsNews(g.chan[i]) => g.chan[i].event < data[k]

(* Nothing a client has received or has in its channel is newer than n. *)
AtMost(g, n) ==
  /\ \A e \in g.got : e <= n
  /\ \A i \in DOMAIN g.chan : IsNews(g.chan[i]) => g.chan[i].event <= n

(* What is in the pipe of a client. *)
Unread(c) == IF gui[c].pipe = None THEN <<>> ELSE buf[gui[c].pipe]

(* Every client is handed detections in the order they were sent. *)
InOrder == \A c \in Client : Ordered(gui[c], Unread(c))

(* No client is ahead of the server, nor of what the server has written to it. *)
NotAhead ==
  \A c \in Client :
    /\ AtMost(gui[c], last)
    /\ \A k \in DOMAIN Unread(c) : Unread(c)[k] <= last
    /\ \A i \in DOMAIN clients : clients[i] = gui[c].pipe => AtMost(gui[c], UpTo(i))

(* Every client shows the newest it has received. *)
Shown == \A c \in Client : Shows(gui[c])

(* The clients the server is about to remove have gone, for good. *)
DeadGone == \A k \in DOMAIN server.dead : ~ClientEnd(clients[server.dead[k]])

(* The inductive invariant. *)
Inv ==
  /\ Typed /\ HandlesApart /\ OneClient /\ Round /\ Served /\ InOrder /\ NotAhead /\ Shown

-----------------------------------------------------------------------------
(* Lists. *)

(* The constants are numbers. *)
LEMMA Bounds ==
  /\ Size \in Nat \ {0} /\ MaxShown \in Nat /\ MaxEvents \in Nat /\ MaxStarts \in Nat
  /\ None \notin Pipe /\ None \notin Client
  /\ \A e \in Event : e \in Nat \ {0} /\ e <= MaxEvents
BY ConstantsAssumption DEF ConstantsAssumption, Pipe, Event

(* Vec::remove: what comes after the i-th moves down by one. *)
LEMMA RemoveAtIs ==
  ASSUME NEW S, NEW s \in Seq(S), NEW i \in DOMAIN s
  PROVE  /\ RemoveAt(s, i) \in Seq(S)
         /\ Len(RemoveAt(s, i)) = Len(s) - 1
         /\ \A j \in 1 .. Len(s) - 1 : RemoveAt(s, i)[j] = s[IF j < i THEN j ELSE j + 1]
<1>1. /\ Len(s) \in Nat
      /\ DOMAIN s = 1 .. Len(s)
      /\ \A j \in 1 .. Len(s) : s[j] \in S
  BY LenProperties, ElementOfSeq
<1> DEFINE a == SubSeq(s, 1, i - 1)
           b == SubSeq(s, i + 1, Len(s))
<1>2. /\ a \in Seq(S)
      /\ Len(a) = i - 1
      /\ \A j \in 1 .. i - 1 : a[j] = s[j]
  BY <1>1, SubSeqProperties
<1>3. /\ b \in Seq(S)
      /\ Len(b) = Len(s) - i
      /\ \A j \in 1 .. Len(s) - i : b[j] = s[j + i]
  BY <1>1, SubSeqProperties
<1>4. RemoveAt(s, i) = a \o b
  BY DEF RemoveAt
<1> HIDE DEF a, b
<1>5. /\ a \o b \in Seq(S)
      /\ Len(a \o b) = Len(a) + Len(b)
      /\ \A j \in 1 .. Len(a) + Len(b) :
           (a \o b)[j] = IF j <= Len(a) THEN a[j] ELSE b[j - Len(a)]
  BY <1>2, <1>3, ConcatProperties
<1>6. ASSUME NEW j \in 1 .. Len(s) - 1
      PROVE  (a \o b)[j] = s[IF j < i THEN j ELSE j + 1]
  <2>1. CASE j < i
    BY <1>1, <1>2, <1>3, <1>5, <2>1
  <2>2. CASE ~(j < i)
    <3>1. j - (i - 1) \in 1 .. Len(s) - i /\ (j - (i - 1)) + i = j + 1
      BY <1>1, <2>2
    <3>2. (a \o b)[j] = b[j - (i - 1)]
      BY <1>1, <1>2, <1>3, <1>5, <2>2
    <3>3. QED
      BY <1>3, <2>2, <3>1, <3>2
  <2>3. QED
    BY <2>1, <2>2
<1>7. QED
  BY <1>1, <1>2, <1>3, <1>4, <1>5, <1>6

(* Vec::remove takes one handle out of a list and leaves the others. *)
LEMMA RemoveAtKeeps ==
  ASSUME NEW S, NEW s \in Seq(S), Distinct(s), NEW i \in DOMAIN s
  PROVE  /\ RemoveAt(s, i) \in Seq(S)
         /\ Len(RemoveAt(s, i)) = Len(s) - 1
         /\ Distinct(RemoveAt(s, i))
         /\ Range(RemoveAt(s, i)) = Range(s) \ {s[i]}
         /\ \A j \in DOMAIN s : j < i => j \in DOMAIN RemoveAt(s, i)
                                     /\ RemoveAt(s, i)[j] = s[j]
<1> DEFINE t == RemoveAt(s, i)
           at(j) == IF j < i THEN j ELSE j + 1
<1>1. /\ DOMAIN s = 1 .. Len(s) /\ Len(s) \in Nat
      /\ t \in Seq(S)
      /\ Len(t) = Len(s) - 1
      /\ \A j \in 1 .. Len(s) - 1 : t[j] = s[at(j)]
  BY LenProperties, RemoveAtIs
<1>2. DOMAIN t = 1 .. Len(s) - 1
  BY <1>1, LenProperties
<1>3. /\ \A j \in 1 .. Len(s) - 1 : at(j) \in DOMAIN s /\ at(j) # i
      /\ \A j, k \in 1 .. Len(s) - 1 : at(j) = at(k) => j = k
      /\ \A j \in DOMAIN s : j < i => j \in 1 .. Len(s) - 1 /\ at(j) = j
      /\ \A j \in DOMAIN s : j > i => j - 1 \in 1 .. Len(s) - 1 /\ at(j - 1) = j
  BY <1>1
<1> HIDE DEF t, at
<1>4. Distinct(t)
  BY <1>1, <1>2, <1>3 DEF Distinct
<1>5. Range(t) = Range(s) \ {s[i]}
  <2>1. Range(t) \subseteq Range(s) \ {s[i]}
    BY <1>1, <1>2, <1>3 DEF Range, Distinct
  <2>2. ASSUME NEW j \in DOMAIN s, s[j] # s[i] PROVE s[j] \in Range(t)
    <3>1. j < i \/ j > i
      BY <1>1, <2>2
    <3>2. PICK k \in 1 .. Len(s) - 1 : at(k) = j
      BY <1>3, <3>1
    <3> QED
      BY <1>1, <1>2, <3>2 DEF Range
  <2> QED
    BY <2>1, <2>2 DEF Range
<1>6. \A j \in DOMAIN s : j < i => j \in DOMAIN t /\ t[j] = s[j]
  BY <1>1, <1>2, <1>3
<1> QED
  BY <1>1, <1>4, <1>5, <1>6 DEF t

(* An element put behind a list. *)
LEMMA Appended ==
  ASSUME NEW S, NEW s \in Seq(S), NEW x \in S
  PROVE  /\ Len(s) \in Nat /\ DOMAIN s = 1 .. Len(s)
         /\ Append(s, x) \in Seq(S) /\ Len(Append(s, x)) = Len(s) + 1
         /\ DOMAIN Append(s, x) = 1 .. Len(s) + 1
         /\ \A i \in DOMAIN s : Append(s, x)[i] = s[i]
         /\ Append(s, x)[Len(s) + 1] = x
         /\ \A i \in DOMAIN Append(s, x) : i \in DOMAIN s \/ i = Len(s) + 1
         /\ Distinct(s) /\ (\A i \in DOMAIN s : s[i] # x) => Distinct(Append(s, x))
<1> DEFINE t == Append(s, x)
<1>1. /\ Len(s) \in Nat /\ t \in Seq(S) /\ Len(t) = Len(s) + 1 /\ DOMAIN s = 1 .. Len(s)
      /\ \A i \in 1 .. Len(s) : t[i] = s[i]
      /\ t[Len(s) + 1] = x
  BY AppendProperties, LenProperties
<1>2. DOMAIN t = 1 .. Len(s) + 1
  BY <1>1, LenProperties
<1> HIDE DEF t
<1>3. \A i \in DOMAIN t : i \in DOMAIN s \/ i = Len(s) + 1
  BY <1>1, <1>2
<1>4. ASSUME Distinct(s), \A i \in DOMAIN s : s[i] # x PROVE Distinct(t)
  BY <1>1, <1>3, <1>4 DEF Distinct
<1> QED
  BY <1>1, <1>2, <1>3, <1>4 DEF t

(* Two lists of different handles, one behind the other. *)
LEMMA JoinedApart ==
  ASSUME NEW S, NEW s \in Seq(S), NEW t \in Seq(S), Distinct(s), Distinct(t),
         \A i \in DOMAIN s, j \in DOMAIN t : s[i] # t[j]
  PROVE  Distinct(s \o t)
<1> DEFINE u == s \o t
<1>1. /\ Len(s) \in Nat /\ DOMAIN s = 1 .. Len(s)
      /\ Len(t) \in Nat /\ DOMAIN t = 1 .. Len(t)
  BY LenProperties
<1>2. /\ u \in Seq(S) /\ Len(u) = Len(s) + Len(t)
      /\ \A i \in 1 .. Len(s) + Len(t) :
           u[i] = IF i <= Len(s) THEN s[i] ELSE t[i - Len(s)]
  BY ConcatProperties
<1>3. DOMAIN u = 1 .. Len(s) + Len(t)
  BY <1>2, LenProperties
<1> HIDE DEF u
<1>4. \A i \in DOMAIN u :
        \/ i \in DOMAIN s /\ u[i] = s[i]
        \/ i > Len(s) /\ i - Len(s) \in DOMAIN t /\ u[i] = t[i - Len(s)]
  BY <1>1, <1>2, <1>3
<1>5. ASSUME NEW i \in DOMAIN u, NEW j \in DOMAIN u, u[i] = u[j] PROVE i = j
  <2>1. CASE i \in DOMAIN s /\ u[i] = s[i]
    BY <1>4, <1>5, <2>1 DEF Distinct
  <2>2. CASE i > Len(s) /\ i - Len(s) \in DOMAIN t /\ u[i] = t[i - Len(s)]
    <3>1. j > Len(s) /\ j - Len(s) \in DOMAIN t /\ u[j] = t[j - Len(s)]
      BY <1>4, <1>5, <2>2
    <3>2. i - Len(s) = j - Len(s)
      BY <1>5, <2>2, <3>1 DEF Distinct
    <3> QED
      BY <1>1, <1>3, <3>2
  <2> QED
    BY <1>4, <2>1, <2>2
<1> QED
  BY <1>5 DEF Distinct, u

(* A set of numbers has a least element. *)
LEMMA LeastCounter ==
  ASSUME NEW T \in SUBSET Nat, T # {}
  PROVE  \E m \in T : \A j \in T : m <= j
<1>1. PICK m \in T : \A j \in T : ~(<<j, m>> \in OpToRel(<, Nat))
  BY WFMin, NatLessThanWellFounded, Zenon
<1>2. \A j \in T : ~(j < m)
  BY <1>1 DEF OpToRel
<1> QED
  BY <1>2

-----------------------------------------------------------------------------
(* Removing the dead. *)

(* FoldLeft is defined on sets of indices, the largest last. *)
Folded(f, n, handles, d) ==
  f = [t \in SUBSET (1 .. n) |->
         IF t = {} THEN handles ELSE RemoveAt(f[t \ {Max(t)}], d[Max(t)])]

(* FoldLeft, by that definition. *)
LEMMA FoldIs ==
  ASSUME NEW handles, NEW S, NEW d \in Seq(S)
  PROVE  FoldLeft(RemoveAt, handles, d)
           = (CHOOSE f : Folded(f, Len(d), handles, d))[1 .. Len(d)]
<1>1. DOMAIN d = 1 .. Len(d)
  BY LenProperties
<1> QED
  BY <1>1, Zenon DEF FoldLeft, MapThenFoldSet, Folded

(* The largest index. *)
LEMMA MaxIs ==
  ASSUME NEW n \in Nat, NEW t \in SUBSET (1 .. n), n \in t
  PROVE  Max(t) = n
<1>1. \A y \in t : y \in Int /\ n >= y
  OBVIOUS
<1>2. ASSUME NEW x \in t, \A y \in t : x >= y PROVE x = n
  BY <1>1, <1>2
<1>3. (CHOOSE x \in t : \A y \in t : x >= y) = n
  BY <1>1, <1>2
<1> QED
  BY <1>3, Zenon DEF Max

(* There is such a function for lists of any length: at the least length without
   one, the function for the length before it could be extended. *)
LEMMA FoldExists ==
  ASSUME NEW handles, NEW d, NEW n \in Nat
  PROVE  \E f : Folded(f, n, handles, d)
<1> DEFINE T == {k \in Nat : ~\E f : Folded(f, k, handles, d)}
<1>1. SUFFICES ASSUME T # {} PROVE FALSE
  OBVIOUS
<1>2. PICK m \in T : \A j \in T : m <= j
  BY <1>1, LeastCounter
<1>3. m # 0
  <2> DEFINE f == [t \in SUBSET (1 .. 0) |-> handles]
  <2>1. SUBSET (1 .. 0) = {{}}
    OBVIOUS
  <2>2. Folded(f, 0, handles, d)
    BY <2>1 DEF Folded
  <2> QED
    BY <2>2
<1>4. PICK n0 \in Nat : m = n0 + 1 /\ n0 \notin T
  <2>1. m - 1 \in Nat /\ m = (m - 1) + 1 /\ ~(m <= m - 1)
    BY <1>3
  <2> QED
    BY <1>2, <2>1
<1>5. PICK f : Folded(f, n0, handles, d)
  BY <1>4
<1> HIDE DEF T
<1> DEFINE D == SUBSET (1 .. m)
           b(t) == IF m \in t THEN RemoveAt(f[t \ {m}], d[m]) ELSE f[t]
           g == [t \in D |-> b(t)]
           v(t) == IF t = {} THEN handles ELSE RemoveAt(g[t \ {Max(t)}], d[Max(t)])
<1>6. ASSUME NEW t \in D PROVE g[t] = v(t)
  <2>1. CASE m \in t
    <3>1. Max(t) = m
      BY <2>1, <1>4, MaxIs
    <3>2. t \ {m} \in D /\ t # {} /\ m \notin t \ {m}
      BY <2>1
    <3>3. g[t \ {m}] = f[t \ {m}]
      BY <3>2
    <3>4. g[t] = RemoveAt(f[t \ {m}], d[m])
      BY <2>1
    <3> HIDE DEF g
    <3> QED
      BY <3>1, <3>2, <3>3, <3>4
  <2>2. CASE m \notin t
    <3>1. t \in SUBSET (1 .. n0) /\ t \ {Max(t)} \in SUBSET (1 .. n0)
      <4>1. ASSUME NEW y \in t PROVE y \in 1 .. n0
        <5>1. y \in 1 .. m /\ y # m
          BY <2>2
        <5> QED
          BY <5>1, <1>4
      <4> QED
        BY <4>1
    <3>2. t \ {Max(t)} \in D /\ m \notin t \ {Max(t)}
      BY <2>2
    <3>3. g[t] = f[t] /\ g[t \ {Max(t)}] = f[t \ {Max(t)}]
      BY <2>2, <3>2
    <3> HIDE DEF g
    <3>4. f[t] = IF t = {} THEN handles ELSE RemoveAt(f[t \ {Max(t)}], d[Max(t)])
      BY <1>5, <3>1, Zenon DEF Folded
    <3> QED
      BY <3>3, <3>4
  <2> QED
    BY <2>1, <2>2
<1>7. g = [t \in D |-> v(t)]
  <2> DEFINE h == [t \in D |-> v(t)]
  <2> HIDE DEF D, v, b
  <2>1. DOMAIN g = DOMAIN h /\ \A t \in DOMAIN h : g[t] = h[t]
    BY <1>6, Zenon
  <2>2. g = h
    BY <2>1
  <2> QED
    BY <2>2, Zenon
<1>8. Folded(g, m, handles, d)
  BY <1>7, Zenon DEF Folded
<1> QED
  BY <1>2, <1>8 DEF T

(* Removing handles by ascending indices, the last one first, leaves the others and
   no more. At the least number of removals after which that is wrong, it was right
   before the last of them, and all handles before the last one removed were in
   their places. *)
LEMMA WithoutIs ==
  ASSUME NEW S, NEW handles \in Seq(S), Distinct(handles),
         NEW dead \in Seq(Nat),
         \A k \in DOMAIN dead : dead[k] \in DOMAIN handles,
         \A k, l \in DOMAIN dead : k < l => dead[k] < dead[l]
  PROVE  /\ Without(handles, dead) \in Seq(S)
         /\ Distinct(Without(handles, dead))
         /\ Range(Without(handles, dead))
              = {handles[i] : i \in DOMAIN handles \ Range(dead)}
<1> DEFINE d == Reverse(dead)
           n == Len(dead)
<1>1. /\ n \in Nat /\ DOMAIN dead = 1 .. n /\ \A k \in 1 .. n : dead[k] \in Nat
      /\ Len(handles) \in Nat /\ DOMAIN handles = 1 .. Len(handles)
  BY LenProperties, ElementOfSeq
<1>2. d = [k \in 1 .. n |-> dead[(n - k) + 1]]
  BY DEF Reverse
<1>3. \A k \in 1 .. n : (n - k) + 1 \in 1 .. n
  BY <1>1
<1>4. d \in Seq(Nat)
  <2>1. d \in [1 .. n -> Nat]
    BY <1>1, <1>2, <1>3
  <2> HIDE DEF n
  <2> QED
    BY <1>1, <2>1, SeqDef
<1>5. Len(d) = n
  <2>1. DOMAIN d = 1 .. n
    BY <1>2
  <2> QED
    BY <1>1, <1>4, <2>1, LenProperties
<1>6. /\ \A k \in 1 .. n : d[k] \in 1 .. Len(handles)
      /\ \A k, l \in 1 .. n : k < l => d[l] < d[k]
  <2>1. ASSUME NEW k \in 1 .. n PROVE d[k] = dead[(n - k) + 1]
    BY <1>2
  <2>2. ASSUME NEW k \in 1 .. n, NEW l \in 1 .. n, k < l PROVE d[l] < d[k]
    <3>1. (n - l) + 1 \in 1 .. n /\ (n - l) + 1 < (n - k) + 1
      BY <1>1, <2>2
    <3> QED
      BY <1>1, <1>3, <2>1, <2>2, <3>1
  <2> QED
    BY <1>1, <1>3, <2>1, <2>2
<1> HIDE DEF d
<1> DEFINE f == CHOOSE g : Folded(g, n, handles, d)
<1>7. Folded(f, n, handles, d)
  BY <1>1, FoldExists
<1>8. Without(handles, dead) = f[1 .. n]
  <2>1. FoldLeft(RemoveAt, handles, d)
          = (CHOOSE g : Folded(g, Len(d), handles, d))[1 .. Len(d)]
    BY <1>4, FoldIs
  <2> QED
    BY <1>5, <2>1, Zenon DEF Without, d
<1> HIDE DEF f
<1>9. f[1 .. 0] = handles
  <2>1. 1 .. 0 \in SUBSET (1 .. n) /\ 1 .. 0 = {}
    OBVIOUS
  <2> QED
    BY <1>7, <2>1 DEF Folded
<1>10. ASSUME NEW k \in Nat, k + 1 \in 1 .. n
       PROVE  f[1 .. k + 1] = RemoveAt(f[1 .. k], d[k + 1])
  <2>1. 1 .. k + 1 \in SUBSET (1 .. n) /\ 1 .. k + 1 # {}
        /\ (1 .. k + 1) \ {k + 1} = 1 .. k
    BY <1>1, <1>10
  <2>2. Max(1 .. k + 1) = k + 1
    BY MaxIs
  <2> QED
    BY <1>7, <2>1, <2>2 DEF Folded
<1> DEFINE Left(k) == {i \in DOMAIN handles : \A j \in 1 .. k : d[j] # i}
           Good(k) ==
             /\ f[1 .. k] \in Seq(S)
             /\ Distinct(f[1 .. k])
             /\ Range(f[1 .. k]) = {handles[i] : i \in Left(k)}
             /\ \A i \in DOMAIN handles :
                  (\A j \in 1 .. k : i < d[j]) =>
                    i \in DOMAIN f[1 .. k] /\ f[1 .. k][i] = handles[i]
           T == {k \in 0 .. n : ~Good(k)}
<1>11. Good(0)
  <2>1. 1 .. 0 = {}
    OBVIOUS
  <2>2. Left(0) = DOMAIN handles
    BY <2>1, Zenon
  <2> HIDE DEF Left
  <2> QED
    BY <1>9, <2>1, <2>2 DEF Range
<1>12. ASSUME NEW k \in Nat, k + 1 \in 0 .. n, Good(k) PROVE Good(k + 1)
  <2> DEFINE s == f[1 .. k]
             t == f[1 .. k + 1]
             x == d[k + 1]
  <2>1. k + 1 \in 1 .. n /\ k \in Nat /\ \A j \in 1 .. k : j \in 1 .. n /\ j < k + 1
    BY <1>1, <1>12
  <2>2. t = RemoveAt(s, x)
    BY <1>10, <2>1
  <2>3. /\ s \in Seq(S) /\ Distinct(s) /\ Range(s) = {handles[i] : i \in Left(k)}
        /\ \A i \in DOMAIN handles :
             (\A j \in 1 .. k : i < d[j]) => i \in DOMAIN s /\ s[i] = handles[i]
    BY <1>12
  <2>4. x \in DOMAIN handles /\ \A j \in 1 .. k : x < d[j]
    BY <1>1, <1>6, <2>1
  <2>5. /\ \A j \in 1 .. k + 1 : j \in 1 .. k \/ j = k + 1
        /\ \A j \in 1 .. k : j \in 1 .. k + 1
        /\ k + 1 \in 1 .. k + 1
    BY <2>1
  <2>6. Left(k + 1) = Left(k) \ {x}
    BY <2>5
  <2> HIDE DEF s, t, x, Left
  <2>7. x \in DOMAIN s /\ s[x] = handles[x]
    BY <2>3, <2>4
  <2>8. /\ t \in Seq(S) /\ Distinct(t) /\ Range(t) = Range(s) \ {handles[x]}
        /\ \A j \in DOMAIN s : j < x => j \in DOMAIN t /\ t[j] = s[j]
    BY <2>2, <2>3, <2>7, RemoveAtKeeps
  <2>9. Range(t) = {handles[i] : i \in Left(k + 1)}
    <3>1. \A i \in Left(k) : i \in DOMAIN handles
      BY DEF Left
    <3>2. \A i \in Left(k) : handles[i] = handles[x] => i = x
      BY <2>4, <3>1 DEF Distinct
    <3> QED
      BY <2>3, <2>6, <2>8, <3>2
  <2>10. ASSUME NEW i \in DOMAIN handles, \A j \in 1 .. k + 1 : i < d[j]
         PROVE  i \in DOMAIN t /\ t[i] = handles[i]
    <3>1. i < x /\ \A j \in 1 .. k : i < d[j]
      BY <2>5, <2>10 DEF x
    <3> QED
      BY <2>3, <2>8, <3>1
  <2> QED
    BY <2>8, <2>9, <2>10 DEF t
<1> HIDE DEF Good
<1>13. Good(n)
  <2>0. SUFFICES ASSUME ~Good(n) PROVE FALSE
    OBVIOUS
  <2>1. n \in 0 .. n
    BY <1>1
  <2>2. PICK m \in T : \A j \in T : m <= j
    <3>1. n \in T
      BY <2>0, <2>1, Zenon
    <3>2. T \in SUBSET Nat
      BY <1>1
    <3> HIDE DEF T
    <3> QED
      BY <3>1, <3>2, LeastCounter
  <2>3. m # 0 /\ m \in 0 .. n /\ ~Good(m)
    BY <1>11, <2>2
  <2>4. m - 1 \in Nat /\ m - 1 \in 0 .. n /\ (m - 1) + 1 = m /\ ~(m <= m - 1)
    BY <2>3, <1>1
  <2>5. Good(m - 1)
    BY <2>2, <2>4
  <2> HIDE DEF T
  <2>6. Good((m - 1) + 1)
    BY <1>12, <2>3, <2>4, <2>5
  <2> QED
    BY <2>3, <2>4, <2>6
<1>14. Left(n) = DOMAIN handles \ Range(dead)
  <2>1. ASSUME NEW k \in 1 .. n PROVE (n - k) + 1 \in 1 .. n /\ d[(n - k) + 1] = dead[k]
    <3>1. (n - ((n - k) + 1)) + 1 = k
      BY <1>1
    <3> QED
      BY <1>2, <1>3, <3>1 DEF d
  <2>2. \A k \in 1 .. n : d[k] = dead[(n - k) + 1]
    BY <1>2 DEF d
  <2>3. Range(dead) = {dead[k] : k \in 1 .. n}
    BY <1>1 DEF Range
  <2> HIDE DEF d, n
  <2>4. Range(dead) = {d[k] : k \in 1 .. n}
    <3>1. \A k \in 1 .. n : dead[k] \in {d[j] : j \in 1 .. n}
      BY <2>1
    <3>2. \A k \in 1 .. n : d[k] \in {dead[j] : j \in 1 .. n}
      BY <1>3, <2>2
    <3> QED
      BY <2>3, <3>1, <3>2
  <2>5. \A i \in DOMAIN handles : i \notin Range(dead) <=> \A j \in 1 .. n : d[j] # i
    BY <2>4
  <2> QED
    BY <2>5, Zenon
<1> HIDE DEF Left
<1> QED
  BY <1>8, <1>13, <1>14 DEF Good

-----------------------------------------------------------------------------
(* What is to be shown. *)

(* Vec::truncate keeps the front of a list. *)
LEMMA TrimIs ==
  ASSUME NEW S, NEW s \in Seq(S), MaxShown \in Nat
  PROVE  /\ Trim(s) \in Seq(S)
         /\ Len(Trim(s)) = IF Len(s) < MaxShown THEN Len(s) ELSE MaxShown
         /\ Len(Trim(s)) <= MaxShown /\ Len(Trim(s)) <= Len(s)
         /\ \A i \in 1 .. Len(Trim(s)) : Trim(s)[i] = s[i]
<1> DEFINE n == IF Len(s) < MaxShown THEN Len(s) ELSE MaxShown
<1>1. Len(s) \in Nat /\ \A i \in 1 .. Len(s) : s[i] \in S
  BY LenProperties, ElementOfSeq
<1>2. n \in 0 .. Len(s) /\ n <= MaxShown
  BY <1>1
<1>3. Trim(s) = SubSeq(s, 1, n)
  BY DEF Trim
<1> HIDE DEF n
<1>4. /\ SubSeq(s, 1, n) \in Seq(S)
      /\ Len(SubSeq(s, 1, n)) = n
      /\ \A i \in 1 .. n : SubSeq(s, 1, n)[i] = s[i]
  BY <1>1, <1>2, SubSeqProperties
<1> QED
  BY <1>1, <1>2, <1>3, <1>4 DEF n

(* Cutting what a list begins with changes nothing about its front. *)
LEMMA TrimFront ==
  ASSUME NEW S, NEW a \in Seq(S), NEW b \in Seq(S), MaxShown \in Nat
  PROVE  Trim(Trim(a) \o b) = Trim(a \o b)
<1> DEFINE x == Trim(a)
           y == x \o b
           z == a \o b
<1>1. Len(a) \in Nat /\ Len(b) \in Nat
  BY LenProperties
<1>2. /\ x \in Seq(S) /\ \A i \in 1 .. Len(x) : x[i] = a[i]
      /\ Len(x) = IF Len(a) < MaxShown THEN Len(a) ELSE MaxShown
  BY TrimIs
<1> HIDE DEF x
<1>3. /\ y \in Seq(S) /\ Len(y) = Len(x) + Len(b)
      /\ \A i \in 1 .. Len(y) : y[i] = IF i <= Len(x) THEN x[i] ELSE b[i - Len(x)]
  <2>1. x \in Seq(S)
    BY <1>2
  <2> QED
    BY <2>1, ConcatProperties
<1>4. /\ z \in Seq(S) /\ Len(z) = Len(a) + Len(b)
      /\ \A i \in 1 .. Len(z) : z[i] = IF i <= Len(a) THEN a[i] ELSE b[i - Len(a)]
  BY ConcatProperties
<1> HIDE DEF y, z
<1>5. /\ Trim(y) \in Seq(S) /\ \A i \in 1 .. Len(Trim(y)) : Trim(y)[i] = y[i]
      /\ Len(Trim(y)) = IF Len(y) < MaxShown THEN Len(y) ELSE MaxShown
  BY <1>3, TrimIs
<1>6. /\ Trim(z) \in Seq(S) /\ \A i \in 1 .. Len(Trim(z)) : Trim(z)[i] = z[i]
      /\ Len(Trim(z)) = IF Len(z) < MaxShown THEN Len(z) ELSE MaxShown
  BY <1>4, TrimIs
<1>7. Len(Trim(y)) = Len(Trim(z))
  BY <1>1, <1>2, <1>3, <1>4, <1>5, <1>6
<1>8. ASSUME NEW i \in 1 .. Len(Trim(y)) PROVE Trim(y)[i] = Trim(z)[i]
  <2>1. Trim(y)[i] = y[i] /\ Trim(z)[i] = z[i]
    BY <1>5, <1>6, <1>7
  <2>2. i \in 1 .. Len(y) /\ i \in 1 .. Len(z) /\ i <= MaxShown
    BY <1>1, <1>2, <1>3, <1>4, <1>5, <1>7
  <2>3. y[i] = z[i]
    <3>1. y[i] = IF i <= Len(x) THEN x[i] ELSE b[i - Len(x)]
      BY <1>3, <2>2
    <3>2. z[i] = IF i <= Len(a) THEN a[i] ELSE b[i - Len(a)]
      BY <1>4, <2>2
    <3>3. i <= Len(x) => x[i] = a[i] /\ i <= Len(a)
      BY <1>1, <1>2
    <3>4. ~(i <= Len(x)) => Len(x) = Len(a)
      BY <1>1, <1>2, <2>2
    <3> QED
      BY <3>1, <3>2, <3>3, <3>4
  <2> QED
    BY <2>1, <2>3
<1>9. Trim(y) = Trim(z)
  BY <1>5, <1>6, <1>7, <1>8, SeqEqual
<1> QED
  BY <1>9 DEF x, y, z

(* Nor does cutting what it ends with. *)
LEMMA TrimBack ==
  ASSUME NEW S, NEW a \in Seq(S), NEW b \in Seq(S), MaxShown \in Nat
  PROVE  Trim(a \o Trim(b)) = Trim(a \o b)
<1> DEFINE x == Trim(b)
           y == a \o x
           z == a \o b
<1>1. Len(a) \in Nat /\ Len(b) \in Nat
  BY LenProperties
<1>2. /\ x \in Seq(S) /\ \A i \in 1 .. Len(x) : x[i] = b[i]
      /\ Len(x) = IF Len(b) < MaxShown THEN Len(b) ELSE MaxShown
  BY TrimIs
<1> HIDE DEF x
<1>3. /\ y \in Seq(S) /\ Len(y) = Len(a) + Len(x)
      /\ \A i \in 1 .. Len(y) : y[i] = IF i <= Len(a) THEN a[i] ELSE x[i - Len(a)]
  <2>1. x \in Seq(S)
    BY <1>2
  <2> QED
    BY <2>1, ConcatProperties
<1>4. /\ z \in Seq(S) /\ Len(z) = Len(a) + Len(b)
      /\ \A i \in 1 .. Len(z) : z[i] = IF i <= Len(a) THEN a[i] ELSE b[i - Len(a)]
  BY ConcatProperties
<1> HIDE DEF y, z
<1>5. /\ Trim(y) \in Seq(S) /\ \A i \in 1 .. Len(Trim(y)) : Trim(y)[i] = y[i]
      /\ Len(Trim(y)) = IF Len(y) < MaxShown THEN Len(y) ELSE MaxShown
  BY <1>3, TrimIs
<1>6. /\ Trim(z) \in Seq(S) /\ \A i \in 1 .. Len(Trim(z)) : Trim(z)[i] = z[i]
      /\ Len(Trim(z)) = IF Len(z) < MaxShown THEN Len(z) ELSE MaxShown
  BY <1>4, TrimIs
<1>7. Len(Trim(y)) = Len(Trim(z))
  BY <1>1, <1>2, <1>3, <1>4, <1>5, <1>6
<1>8. ASSUME NEW i \in 1 .. Len(Trim(y)) PROVE Trim(y)[i] = Trim(z)[i]
  <2>1. Trim(y)[i] = y[i] /\ Trim(z)[i] = z[i]
    BY <1>5, <1>6, <1>7
  <2>2. i \in 1 .. Len(y) /\ i \in 1 .. Len(z)
    BY <1>1, <1>2, <1>3, <1>4, <1>5, <1>7
  <2>3. y[i] = z[i]
    <3>1. y[i] = IF i <= Len(a) THEN a[i] ELSE x[i - Len(a)]
      BY <1>3, <2>2
    <3>2. z[i] = IF i <= Len(a) THEN a[i] ELSE b[i - Len(a)]
      BY <1>4, <2>2
    <3>3. ~(i <= Len(a)) => i - Len(a) \in 1 .. Len(x)
      BY <1>1, <1>2, <1>3, <2>2
    <3> QED
      BY <1>2, <3>1, <3>2, <3>3
  <2> QED
    BY <2>1, <2>3
<1>9. Trim(y) = Trim(z)
  BY <1>5, <1>6, <1>7, <1>8, SeqEqual
<1> QED
  BY <1>9 DEF x, y, z

(* All of a set of detections, newest first. *)
Full(got) == [k \in 1 .. Cardinality(got) |-> CHOOSE e \in Behind(got, k - 1) : TRUE]

(* What has been received is finite. *)
LEMMA Finite ==
  ASSUME NEW got \in SUBSET Event
  PROVE  IsFiniteSet(got) /\ Cardinality(got) \in Nat
<1>1. IsFiniteSet(Event)
  BY Bounds, FS_Interval DEF Event
<1> QED
  BY <1>1, FS_Subset, FS_CardinalityType

(* A detection newer than all of a set goes in front of them. *)
LEMMA FullGrows ==
  ASSUME NEW got \in SUBSET Event, NEW n \in Event, \A e \in got : e < n
  PROVE  LET S == {Full(got)[k] : k \in 1 .. Cardinality(got)} \cup {n} IN
         /\ Full(got) \in Seq(S)
         /\ <<n>> \in Seq(S)
         /\ Full(got \cup {n}) = <<n>> \o Full(got)
<1> DEFINE S == {Full(got)[k] : k \in 1 .. Cardinality(got)} \cup {n}
           N == Cardinality(got)
           new == got \cup {n}
           f == Full(got)
           g == Full(new)
<1>1. N \in Nat /\ IsFiniteSet(got) /\ n \notin got /\ n \in Nat
      /\ \A e \in got : e \in Nat
  BY Finite, Bounds
<1>2. Cardinality(new) = N + 1
  BY <1>1, FS_AddElement
<1>3. /\ f = [k \in 1 .. N |-> CHOOSE e \in Behind(got, k - 1) : TRUE]
      /\ g = [k \in 1 .. N + 1 |-> CHOOSE e \in Behind(new, k - 1) : TRUE]
  BY <1>2 DEF Full
<1>4. f \in Seq(S) /\ Len(f) = N
  <2>1. f \in [1 .. N -> S]
    BY <1>1, <1>3
  <2> HIDE DEF N, S, f
  <2>2. f \in Seq(S)
    BY <1>1, <2>1, SeqDef
  <2>3. DOMAIN f = 1 .. N
    BY <2>1
  <2> QED
    BY <1>1, <2>2, <2>3, LenProperties
<1>5. <<n>> \in Seq(S)
  OBVIOUS
<1>6. \A e \in got : {d \in new : d > e} = {d \in got : d > e} \cup {n}
  BY <1>1
<1>7. {d \in new : d > n} = {}
  <2>1. \A d \in got : ~(d > n)
    BY <1>1
  <2>2. ~(n > n)
    BY <1>1
  <2> QED
    BY <2>1, <2>2
<1> DEFINE before(e) == Cardinality({d \in got : d > e})
           after(e) == Cardinality({d \in new : d > e})
<1>8. \A e \in got : before(e) \in Nat /\ after(e) = before(e) + 1
  <2> TAKE e \in got
  <2> DEFINE old == {d \in got : d > e}
  <2>1. IsFiniteSet(old) /\ Cardinality(old) \in Nat
    BY <1>1, FS_Subset, FS_CardinalityType
  <2>2. n \notin old
    BY <1>1
  <2>3. Cardinality(old \cup {n}) = Cardinality(old) + 1
    BY <2>1, <2>2, FS_AddElement
  <2> QED
    BY <1>6, <2>1, <2>3
<1>9. after(n) = 0
  BY <1>7, FS_EmptySet
<1>10. \A k : Behind(got, k) = {e \in got : before(e) = k}
              /\ Behind(new, k) = {e \in new : after(e) = k}
  BY DEF Behind
<1> HIDE DEF N, before, after
<1>11. Behind(new, 0) = {n}
  <2>1. \A e \in got : after(e) # 0
    BY <1>8
  <2>2. \A e : e \in Behind(new, 0) <=> e \in new /\ after(e) = 0
    BY <1>10
  <2> QED
    BY <1>9, <2>1, <2>2
<1>12. ASSUME NEW k \in 1 .. N PROVE Behind(new, k) = Behind(got, k - 1)
  <2>1. k \in Nat /\ k # 0
    BY <1>1
  <2>2. \A e \in got : after(e) = k <=> before(e) = k - 1
    BY <1>8, <2>1
  <2> QED
    BY <1>9, <1>10, <2>1, <2>2
<1> DEFINE h == <<n>> \o f
<1> HIDE DEF N, S, f, g, new
<1>13. Len(<<n>>) = 1 /\ <<n>>[1] = n
  OBVIOUS
<1>14. /\ h \in Seq(S) /\ Len(h) = 1 + N
       /\ \A i \in 1 .. 1 + N : h[i] = IF i <= 1 THEN <<n>>[i] ELSE f[i - 1]
  BY <1>4, <1>5, <1>13, ConcatProperties
<1> HIDE DEF h
<1>15. ASSUME NEW i \in 1 .. N + 1 PROVE h[i] = g[i]
  <2>1. CASE i = 1
    <3>1. g[1] = n
      BY <1>1, <1>3, <1>11
    <3> QED
      BY <1>1, <1>13, <1>14, <2>1, <3>1
  <2>2. CASE i # 1
    <3>1. i - 1 \in 1 .. N
      BY <1>1, <2>2
    <3>2. Behind(new, i - 1) = Behind(got, (i - 1) - 1)
      BY <1>12, <3>1
    <3>3. g[i] = CHOOSE e \in Behind(new, i - 1) : TRUE
      BY <1>3
    <3>4. f[i - 1] = CHOOSE e \in Behind(got, (i - 1) - 1) : TRUE
      BY <1>3, <3>1
    <3>5. h[i] = f[i - 1]
      BY <1>1, <1>14, <2>2
    <3> QED
      BY <3>2, <3>3, <3>4, <3>5
  <2> QED
    BY <2>1, <2>2
<1>16. h = g
  <2>1. g \in Seq(S)
    <3>1. \A i \in 1 .. N + 1 : g[i] \in S
      <4>1. DOMAIN h = 1 .. N + 1 /\ \A i \in 1 .. N + 1 : h[i] \in S
        BY <1>1, <1>14, LenProperties, ElementOfSeq
      <4> QED
        BY <1>15, <4>1
    <3>2. g \in [1 .. N + 1 -> S]
      BY <1>3, <3>1
    <3> QED
      BY <1>1, <3>2, SeqDef
  <2>2. Len(g) = N + 1
    <3>1. DOMAIN g = 1 .. N + 1
      BY <1>3
    <3> QED
      BY <1>1, <2>1, <3>1, LenProperties
  <2>3. Len(h) = N + 1
    BY <1>1, <1>14
  <2> QED
    BY <1>14, <1>15, <2>1, <2>2, <2>3, SeqEqual
<1> QED
  BY <1>4, <1>5, <1>16 DEF f, g, h, S, N, new

(* So it does in what is to be shown. *)
LEMMA NewestGrows ==
  ASSUME NEW got \in SUBSET Event, NEW n \in Event, \A e \in got : e < n
  PROVE  Newest(got \cup {n}) = Trim(<<n>> \o Newest(got))
<1> DEFINE S == {Full(got)[k] : k \in 1 .. Cardinality(got)} \cup {n}
<1>1. /\ Full(got) \in Seq(S)
      /\ <<n>> \in Seq(S)
      /\ Full(got \cup {n}) = <<n>> \o Full(got)
  BY FullGrows
<1> HIDE DEF S
<1>2. Trim(<<n>> \o Trim(Full(got))) = Trim(<<n>> \o Full(got))
  BY <1>1, Bounds, TrimBack
<1>3. Newest(got) = Trim(Full(got)) /\ Newest(got \cup {n}) = Trim(Full(got \cup {n}))
  BY DEF Newest, Full
<1> QED
  BY <1>1, <1>2, <1>3

(* A detection newer than all before it may be shown, or held back. *)
LEMMA ReceivedShows ==
  ASSUME NEW g \in Window, NEW n \in Event, \A e \in g.got : e < n, Shows(g)
  PROVE  Shows(Received(g, n))
<1> DEFINE p == g.pending
           d == g.detections
<1>1. p \in Seq(Event) /\ d \in Seq(Event) /\ <<n>> \in Seq(Event) /\ MaxShown \in Nat
      /\ g.got \in SUBSET Event
  BY Bounds DEF Window
<1>2. Newest(g.got \cup {n}) = Trim(<<n>> \o (p \o d))
  <2>1. Newest(g.got \cup {n}) = Trim(<<n>> \o Trim(p \o d))
    BY <1>1, NewestGrows DEF Shows
  <2>2. p \o d \in Seq(Event)
    BY <1>1, ConcatProperties
  <2> QED
    BY <1>1, <2>1, <2>2, TrimBack
<1>3. CASE g.paused
  <2>1. Received(g, n) = [g EXCEPT !.pending = Trim(<<n>> \o @), !.got = @ \cup {n}]
    BY <1>3 DEF Received
  <2>2. /\ Received(g, n).pending = Trim(<<n>> \o p) /\ Received(g, n).detections = d
        /\ Received(g, n).got = g.got \cup {n} /\ Received(g, n).paused
    BY <1>3, <2>1 DEF Window
  <2>3. <<n>> \o p \in Seq(Event) /\ (<<n>> \o p) \o d = <<n>> \o (p \o d)
    <3>1. (<<n>> \o p) \o d = <<n>> \o (p \o d)
      <4> DEFINE one == <<n>>
      <4>1. one \in Seq(Event)
        BY <1>1
      <4> HIDE DEF one, p, d
      <4>2. (one \o p) \o d = one \o (p \o d)
        BY <1>1, <4>1, ConcatAssociative
      <4> QED
        BY <4>2 DEF one
    <3>2. <<n>> \o p \in Seq(Event)
      BY <1>1, ConcatProperties
    <3> QED
      BY <3>1, <3>2
  <2>4. Trim(Trim(<<n>> \o p) \o d) = Trim((<<n>> \o p) \o d)
    BY <1>1, <2>3, TrimFront
  <2> QED
    BY <1>2, <2>2, <2>3, <2>4 DEF Shows
<1>4. CASE ~g.paused
  <2>1. Received(g, n) = [g EXCEPT !.detections = Trim(<<n>> \o @), !.got = @ \cup {n}]
    BY <1>4 DEF Received
  <2>2. /\ Received(g, n).pending = p /\ Received(g, n).detections = Trim(<<n>> \o d)
        /\ Received(g, n).got = g.got \cup {n}
    BY <2>1 DEF Window
  <2>3. p = <<>>
    BY <1>4 DEF Shows
  <2>4. p \o d = d /\ <<>> \o Trim(<<n>> \o d) = Trim(<<n>> \o d)
        /\ <<n>> \o d \in Seq(Event)
    <3>1. <<n>> \o d \in Seq(Event)
      BY <1>1, ConcatProperties
    <3>2. Trim(<<n>> \o d) \in Seq(Event)
      BY <1>1, <3>1, TrimIs
    <3> QED
      BY <1>1, <2>3, <3>1, <3>2, ConcatEmptySeq
  <2>5. Trim(Trim(<<n>> \o d)) = Trim(<<n>> \o d)
    <3>1. <<>> \in Seq(Event)
      OBVIOUS
    <3>2. Trim(<<n>> \o d) \in Seq(Event)
      BY <1>1, <2>4, TrimIs
    <3>3. Trim(Trim(<<n>> \o d) \o <<>>) = Trim((<<n>> \o d) \o <<>>)
      BY <1>1, <2>4, <3>1, TrimFront
    <3> QED
      BY <2>4, <3>2, <3>3, ConcatEmptySeq
  <2> QED
    BY <1>2, <2>2, <2>3, <2>4, <2>5 DEF Shows
<1> QED
  BY <1>3, <1>4

(* What was held back may be put in front of what is shown. *)
LEMMA MergedShows ==
  ASSUME NEW g \in Window, Shows(g)
  PROVE  Trim(<<>> \o Merged(g.pending, g.detections)) = Newest(g.got)
<1> DEFINE s == g.pending \o g.detections
<1>1. s \in Seq(Event) /\ <<>> \in Seq(Event) /\ MaxShown \in Nat
  BY ConcatProperties, Bounds DEF Window
<1>2. Merged(g.pending, g.detections) = Trim(s)
  BY DEF Merged
<1> HIDE DEF s
<1>3. Trim(<<>> \o Trim(s)) = Trim(<<>> \o s)
  BY <1>1, TrimBack
<1>4. <<>> \o s = s
  BY <1>1, ConcatEmptySeq
<1> QED
  BY <1>2, <1>3, <1>4 DEF s, Shows

(* A client that has received nothing shows nothing. *)
LEMMA StoppedShows == Shows(Stopped) /\ Shows([Stopped EXCEPT !.running = TRUE])
<1>1. Cardinality({}) = 0
  BY FS_EmptySet
<1>2. Full({}) = [k \in 1 .. 0 |-> CHOOSE e \in Behind({}, k - 1) : TRUE]
  BY <1>1 DEF Full
<1>3. Full({}) = <<>>
  BY <1>2
<1>4. Newest({}) = Trim(<<>>)
  BY <1>3 DEF Newest, Full
<1>5. <<>> \o <<>> = <<>>
  OBVIOUS
<1> QED
  BY <1>4, <1>5 DEF Shows, Stopped

-----------------------------------------------------------------------------
(* Pipes and windows. *)

(* What is due, when nothing is, when one more is written, when one more fails, and
   when all of it is read. *)
LEMMA NothingDue ==
  ASSUME NEW a \in Nat
  PROVE  Due(<<>>, a, a, {})
<1>1. DOMAIN <<>> = {} /\ a + 1 .. a = {}
  OBVIOUS
<1> QED
  BY <1>1 DEF Due, ToSet

LEMMA OneMoreDue ==
  ASSUME NEW a \in Nat, NEW b \in Nat, NEW f \in SUBSET Nat, NEW data \in Seq(Nat),
         Due(data, a, b, f)
  PROVE  Due(Append(data, b + 1), a, b + 1, f)
<1> DEFINE d == Append(data, b + 1)
<1>1. /\ Len(data) \in Nat /\ DOMAIN data = 1 .. Len(data)
      /\ DOMAIN d = 1 .. Len(data) + 1
      /\ \A k \in 1 .. Len(data) : d[k] = data[k]
      /\ d[Len(data) + 1] = b + 1
  BY AppendProperties, LenProperties
<1> HIDE DEF d
<1>2. \A k \in DOMAIN data : data[k] \in a + 1 .. b /\ data[k] \notin f
  BY DEF Due, ToSet
<1>3. ToSet(d) = ToSet(data) \cup {b + 1}
  <2>1. \A k \in DOMAIN d : k \in DOMAIN data \/ k = Len(data) + 1
    BY <1>1
  <2>2. \A k \in DOMAIN data : k \in DOMAIN d /\ d[k] = data[k]
    BY <1>1
  <2>3. Len(data) + 1 \in DOMAIN d
    BY <1>1
  <2> QED
    BY <1>1, <2>1, <2>2, <2>3 DEF ToSet
<1>4. /\ a <= b + 1 /\ \A e \in f : e <= b
      /\ ToSet(data) = (a + 1 .. b) \ f
  BY DEF Due
<1>5. b + 1 \notin f
  BY <1>4
<1>6. (a + 1 .. b + 1) = (a + 1 .. b) \cup {b + 1}
  BY DEF Due
<1>7. ToSet(d) = (a + 1 .. b + 1) \ f
  BY <1>3, <1>4, <1>5, <1>6
<1>8. ASSUME NEW k \in DOMAIN d, NEW l \in DOMAIN d, k < l
      PROVE  d[k] < d[l]
  <2>1. k \in DOMAIN data /\ d[k] = data[k]
    BY <1>1, <1>8
  <2>2. CASE l \in DOMAIN data
    BY <1>1, <1>8, <2>1, <2>2 DEF Due
  <2>3. CASE l = Len(data) + 1
    BY <1>1, <1>2, <2>1, <2>3
  <2> QED
    BY <1>1, <2>2, <2>3
<1>9. \A e \in f : e <= b + 1
  BY <1>4
<1> QED
  BY <1>4, <1>7, <1>8, <1>9 DEF Due, d

LEMMA OneLessDue ==
  ASSUME NEW a \in Nat, NEW b \in Nat, NEW f \in SUBSET Nat, NEW data, Due(data, a, b, f)
  PROVE  Due(data, a, b + 1, f \cup {b + 1})
<1>1. (a + 1 .. b + 1) = (a + 1 .. b) \cup {b + 1} /\ b + 1 \notin a + 1 .. b
  BY DEF Due
<1>2. ToSet(data) = (a + 1 .. b + 1) \ (f \cup {b + 1})
  BY <1>1 DEF Due
<1>3. a <= b + 1 /\ \A e \in f \cup {b + 1} : e <= b + 1
  BY DEF Due
<1> QED
  BY <1>2, <1>3 DEF Due

LEMMA AllDueRead ==
  ASSUME NEW a \in Nat, NEW b \in Nat, NEW f, NEW data \in Seq(Nat),
         Len(data) \in DOMAIN data, Due(data, a, b, f)
  PROVE  /\ \A k \in DOMAIN data : data[k] <= b
         /\ Due(<<>>, data[Len(data)], b, f)
<1> DEFINE n == data[Len(data)]
<1>1. Len(data) \in Nat /\ DOMAIN data = 1 .. Len(data)
  BY LenProperties
<1>2. \A k \in DOMAIN data : data[k] \in (a + 1 .. b) \ f
  BY DEF Due, ToSet
<1>3. n \in Nat /\ a < n /\ n <= b
  BY <1>2
<1>4. \A k \in DOMAIN data : data[k] <= n
  <2> TAKE k \in DOMAIN data
  <2>1. k < Len(data) \/ k = Len(data)
    BY <1>1
  <2>2. k < Len(data) => data[k] < n
    BY DEF Due
  <2> QED
    BY <1>2, <1>3, <2>1, <2>2
<1>5. \A e \in n + 1 .. b : e \in f
  <2> SUFFICES ASSUME NEW e \in n + 1 .. b, e \notin f PROVE FALSE
    OBVIOUS
  <2>1. e \in (a + 1 .. b) \ f
    BY <1>3
  <2>2. PICK k \in DOMAIN data : data[k] = e
    BY <2>1 DEF Due, ToSet
  <2> QED
    BY <1>3, <1>4, <2>2
<1>6. DOMAIN <<>> = {}
  OBVIOUS
<1>7. ToSet(<<>>) = (n + 1 .. b) \ f
  BY <1>5, <1>6 DEF ToSet
<1>8. \A e \in f : e <= b
  BY DEF Due
<1> HIDE DEF n
<1>9. Due(<<>>, n, b, f)
  BY <1>3, <1>6, <1>7, <1>8 DEF Due
<1> QED
  BY <1>2, <1>9 DEF n

(* A pipe has a server end if it is listened on or in one of the two lists. *)
LEMMA ServerEndIs ==
  ASSUME Typed, NEW p
  PROVE  ServerEnd(p) <=> \/ p = listening
                          \/ \E i \in DOMAIN accepted : accepted[i] = p
                          \/ \E i \in DOMAIN clients : clients[i] = p
<1> DEFINE s == accepted \o clients
<1>1. /\ Len(accepted) \in Nat /\ DOMAIN accepted = 1 .. Len(accepted)
      /\ Len(clients) \in Nat /\ DOMAIN clients = 1 .. Len(clients)
      /\ accepted \in Seq(Pipe) /\ clients \in Seq(Pipe)
  BY LenProperties DEF Typed
<1>2. /\ s \in Seq(Pipe) /\ Len(s) = Len(accepted) + Len(clients)
      /\ \A i \in 1 .. Len(accepted) + Len(clients) :
           s[i] = IF i <= Len(accepted) THEN accepted[i] ELSE clients[i - Len(accepted)]
  BY <1>1, ConcatProperties
<1>3. DOMAIN s = 1 .. Len(accepted) + Len(clients)
  BY <1>2, LenProperties
<1>4. ServerEnd(p) <=> p = listening \/ \E i \in DOMAIN s : s[i] = p
  BY DEF ServerEnd, ToSet
<1> HIDE DEF s
<1>5. \A i \in DOMAIN accepted : i \in DOMAIN s /\ s[i] = accepted[i]
  BY <1>1, <1>2, <1>3
<1>6. \A i \in DOMAIN clients :
        Len(accepted) + i \in DOMAIN s /\ s[Len(accepted) + i] = clients[i]
  BY <1>1, <1>2, <1>3
<1>7. \A i \in DOMAIN s : \/ i \in DOMAIN accepted /\ s[i] = accepted[i]
                          \/ i - Len(accepted) \in DOMAIN clients
                             /\ s[i] = clients[i - Len(accepted)]
  BY <1>1, <1>2, <1>3
<1> QED
  BY <1>4, <1>5, <1>6, <1>7

(* A step that leaves every client at its pipe changes no client end. *)
LEMMA SamePipes ==
  ASSUME \A c \in Client : gui'[c].pipe = gui[c].pipe
  PROVE  \A p : ClientEnd(p)' <=> ClientEnd(p)
BY DEF ClientEnd

(* A step of one client leaves the others alone. *)
LEMMA SetIs ==
  ASSUME gui \in [Client -> Window], NEW c \in Client, NEW g \in Window, Set(c, g)
  PROVE  /\ gui' \in [Client -> Window] /\ gui'[c] = g
         /\ \A d \in Client \ {c} : gui'[d] = gui[d]
BY DEF Set

(* What is shown stays as short as it was. *)
LEMMA SetTyped ==
  ASSUME gui \in [Client -> Window], NEW c \in Client, NEW g \in Window, Set(c, g),
         Len(g.detections) <= MaxShown, Len(g.pending) <= MaxShown,
         \A d \in Client :
           Len(gui[d].detections) <= MaxShown /\ Len(gui[d].pending) <= MaxShown
  PROVE  /\ gui' \in [Client -> Window]
         /\ \A d \in Client :
              Len(gui'[d].detections) <= MaxShown /\ Len(gui'[d].pending) <= MaxShown
<1>1. /\ gui' \in [Client -> Window] /\ gui'[c] = g
      /\ \A d \in Client \ {c} : gui'[d] = gui[d]
  BY SetIs
<1> QED
  BY <1>1

(* A client that does not run, and one that has just started. *)
LEMMA StoppedIs ==
  /\ Stopped \in Window /\ [Stopped EXCEPT !.running = TRUE] \in Window
  /\ \A g \in {Stopped, [Stopped EXCEPT !.running = TRUE]} :
       /\ g.pipe = None /\ g.chan = <<>> /\ g.got = {}
       /\ g.detections = <<>> /\ g.pending = <<>>
  /\ ~Stopped.running /\ [Stopped EXCEPT !.running = TRUE].running
<1>1. <<>> \in Seq(Item) /\ <<>> \in Seq(Event)
  OBVIOUS
<1>2. Stopped \in Window
  BY <1>1 DEF Stopped, Window
<1>3. [Stopped EXCEPT !.running = TRUE] \in Window
  BY <1>2 DEF Window
<1> QED
  BY <1>2, <1>3 DEF Stopped

(* Nothing unread is in order with anything. *)
LEMMA NothingOrdered ==
  /\ \A g, data : Ordered(g, data) => Ordered(g, <<>>)
  /\ \A g, n : g.chan = <<>> /\ g.got = {} => Ordered(g, <<>>) /\ AtMost(g, n)
<1>1. DOMAIN <<>> = {}
  OBVIOUS
<1>2. ASSUME NEW g, NEW data, Ordered(g, data) PROVE Ordered(g, <<>>)
  BY <1>1, <1>2 DEF Ordered
<1>3. ASSUME NEW g, NEW n, g.chan = <<>>, g.got = {}
             PROVE Ordered(g, <<>>) /\ AtMost(g, n)
  BY <1>1, <1>3 DEF Ordered, AtMost
<1> QED
  BY <1>2, <1>3

(* Taking the first item out of a channel keeps the order, if nothing else is
   received. *)
LEMMA Behindhand ==
  ASSUME NEW g, NEW h, NEW data, Ordered(g, data),
         1 \in DOMAIN g.chan, DOMAIN h.chan \subseteq Nat,
         \A i \in DOMAIN h.chan :
           i + 1 \in DOMAIN g.chan /\ h.chan[i] = g.chan[i + 1] /\ 1 < i + 1,
         \A e \in h.got : e \in g.got \/ (IsNews(g.chan[1]) /\ e = g.chan[1].event)
  PROVE  /\ Ordered(h, data)
         /\ \A n : AtMost(g, n) => AtMost(h, n)
<1> USE DEF Ordered
<1>1. \A e \in h.got, i \in DOMAIN h.chan : IsNews(h.chan[i]) => e < h.chan[i].event
  OBVIOUS
<1>2. ASSUME NEW i \in DOMAIN h.chan, NEW j \in DOMAIN h.chan, i < j
      PROVE  IsNews(h.chan[i]) /\ IsNews(h.chan[j]) => h.chan[i].event < h.chan[j].event
  <2>1. i + 1 < j + 1
    BY <1>2
  <2> QED
    BY <2>1
<1>3. \A k \in DOMAIN data : \A e \in h.got : e < data[k]
  OBVIOUS
<1>4. \A k \in DOMAIN data :
        \A i \in DOMAIN h.chan : IsNews(h.chan[i]) => h.chan[i].event < data[k]
  OBVIOUS
<1>5. ASSUME NEW n, AtMost(g, n) PROVE AtMost(h, n)
  BY <1>5 DEF AtMost
<1> QED
  BY <1>1, <1>2, <1>3, <1>4, <1>5

(* What an item is. *)
LEMMA ItemIs ==
  /\ [of |-> "Connected"] \in Item /\ [of |-> "Disconnected"] \in Item
  /\ \A e \in Event : [of |-> "Message", event |-> e] \in Item
  /\ \A x \in Item : IsNews(x) => x.event \in Event
BY DEF Item, IsNews

(* A client at another pipe, and told so. *)
Handed(g, q, x) == [g EXCEPT !.pipe = q, !.chan = Append(@, x)]

(* That hands it no detection. *)
LEMMA NoNews ==
  ASSUME NEW g \in Window, NEW x \in Item, ~IsNews(x), NEW q \in Pipe \cup {None},
         NEW h, h = Handed(g, q, x)
  PROVE  /\ h \in Window /\ h.pipe = q /\ h.detections = g.detections
         /\ h.pending = g.pending
         /\ h.running = g.running /\ (Shows(g) => Shows(h))
         /\ \A data : Ordered(g, data) => Ordered(h, data)
         /\ \A n : AtMost(g, n) => AtMost(h, n)
<1>1. g.chan \in Seq(Item)
  BY DEF Window
<1>2. h.got = g.got /\ h.chan = Append(g.chan, x) /\ h.pipe = q
      /\ h.detections = g.detections /\ h.pending = g.pending /\ h.paused = g.paused
      /\ h.running = g.running
  BY DEF Window, Handed
<1>3. /\ Append(g.chan, x) \in Seq(Item)
      /\ \A i \in DOMAIN g.chan : Append(g.chan, x)[i] = g.chan[i]
      /\ Append(g.chan, x)[Len(g.chan) + 1] = x
      /\ \A i \in DOMAIN Append(g.chan, x) : i \in DOMAIN g.chan \/ i = Len(g.chan) + 1
  BY <1>1, Appended
<1>4. h \in Window
  BY <1>3 DEF Window, Handed
<1>5. \A i \in DOMAIN h.chan :
        IsNews(h.chan[i]) => i \in DOMAIN g.chan /\ h.chan[i] = g.chan[i]
  BY <1>2, <1>3
<1>6. Shows(g) => Shows(h)
  BY <1>2 DEF Shows
<1> HIDE DEF IsNews
<1>7. \A data : Ordered(g, data) => Ordered(h, data)
  BY <1>2, <1>5 DEF Ordered
<1>8. \A n : AtMost(g, n) => AtMost(h, n)
  BY <1>2, <1>5 DEF AtMost
<1> QED
  BY <1>2, <1>4, <1>6, <1>7, <1>8

(* A client whose reader has taken data out of a pipe. *)
Fed(g, data) == [g EXCEPT !.chan = @ \o Parsed(data)]

(* What it is handed then was in the pipe: one detection, or nothing. *)
LEMMA ReadIs ==
  ASSUME NEW g \in Window, NEW data \in Seq(Event), Ordered(g, data),
         NEW h, h = Fed(g, data)
  PROVE  /\ h \in Window /\ h.pipe = g.pipe /\ h.detections = g.detections
         /\ h.pending = g.pending /\ h.running = g.running /\ (Shows(g) => Shows(h))
         /\ Ordered(h, <<>>)
         /\ \A n : AtMost(g, n) /\ (\A k \in DOMAIN data : data[k] <= n) => AtMost(h, n)
<1>1. CASE Len(data) = 1
  <2> DEFINE x == [of |-> "Message", event |-> data[1]]
  <2>1. data[1] \in Event /\ 1 \in DOMAIN data /\ x \in Item /\ x.event = data[1]
    <3>1. data[1] \in Event /\ 1 \in DOMAIN data
      <4>1. data \in [1 .. Len(data) -> Event] /\ DOMAIN data = 1 .. Len(data)
        BY LenProperties
      <4>2. 1 \in 1 .. Len(data)
        BY <1>1
      <4> QED
        BY <4>1, <4>2, Zenon
    <3> QED
      BY <3>1, ItemIs
  <2>2. g.chan \in Seq(Item) /\ Parsed(data) = <<x>>
    BY <1>1 DEF Window, Parsed
  <2> HIDE DEF x
  <2>3. h = [g EXCEPT !.chan = Append(@, x)]
    <3>1. g.chan \o <<x>> = Append(g.chan, x)
      BY <2>1, <2>2, AppendIsConcat
    <3> QED
      BY <2>2, <3>1 DEF Fed
  <2>4. h.got = g.got /\ h.chan = Append(g.chan, x) /\ h.pipe = g.pipe
        /\ h.detections = g.detections /\ h.pending = g.pending /\ h.paused = g.paused
        /\ h.running = g.running
    BY <2>3 DEF Window
  <2>5. /\ Append(g.chan, x) \in Seq(Item)
        /\ Len(g.chan) \in Nat /\ DOMAIN g.chan = 1 .. Len(g.chan)
        /\ \A i \in DOMAIN g.chan : Append(g.chan, x)[i] = g.chan[i]
        /\ Append(g.chan, x)[Len(g.chan) + 1] = x
        /\ \A i \in DOMAIN Append(g.chan, x) : i \in DOMAIN g.chan \/ i = Len(g.chan) + 1
    BY <2>1, <2>2, Appended
  <2>6. h \in Window
    BY <2>3, <2>5 DEF Window
  <2>7. \A i \in DOMAIN h.chan :
          \/ i \in DOMAIN g.chan /\ h.chan[i] = g.chan[i]
          \/ i = Len(g.chan) + 1 /\ h.chan[i].event = data[1]
    BY <2>1, <2>4, <2>5
  <2>8. Ordered(h, <<>>)
    <3>1. \A e \in h.got, i \in DOMAIN h.chan : IsNews(h.chan[i]) => e < h.chan[i].event
      BY <2>1, <2>4, <2>7 DEF Ordered
    <3>2. ASSUME NEW i \in DOMAIN h.chan, NEW j \in DOMAIN h.chan, i < j,
                 IsNews(h.chan[i]), IsNews(h.chan[j])
          PROVE  h.chan[i].event < h.chan[j].event
      <4>1. i \in DOMAIN g.chan /\ h.chan[i] = g.chan[i]
        BY <2>4, <2>5, <2>7, <3>2
      <4> QED
        BY <2>1, <2>7, <3>2, <4>1 DEF Ordered
    <3> QED
      BY <3>1, <3>2 DEF Ordered
  <2>9. \A n : AtMost(g, n) /\ (\A k \in DOMAIN data : data[k] <= n) => AtMost(h, n)
    BY <2>1, <2>4, <2>7 DEF AtMost
  <2> QED
    BY <2>4, <2>6, <2>8, <2>9 DEF Shows
<1>2. CASE Len(data) # 1
  <2>1. g.chan \o Parsed(data) = g.chan
    BY <1>2, ConcatEmptySeq DEF Parsed, Window
  <2>2. h = g
    BY <2>1 DEF Window, Fed
  <2> QED
    BY <2>2, NothingOrdered
<1> QED
  BY <1>1, <1>2

(* A tick: the item is shown or held back, and what is shown is still the newest
   of what was received. *)
LEMMA HandledIs ==
  ASSUME NEW g \in Window, NEW data, Ordered(g, data), Shows(g), g.chan # <<>>,
         Len(g.detections) <= MaxShown, Len(g.pending) <= MaxShown,
         NEW h, h = Handled([g EXCEPT !.chan = Tail(@)], Head(g.chan))
  PROVE  /\ h \in Window /\ h.pipe = g.pipe /\ h.running = g.running
         /\ Len(h.detections) <= MaxShown /\ Len(h.pending) <= MaxShown
         /\ Shows(h) /\ Ordered(h, data)
         /\ \A n : AtMost(g, n) => AtMost(h, n)
<1> DEFINE f == [g EXCEPT !.chan = Tail(@)]
           x == Head(g.chan)
<1>1. /\ g.chan \in Seq(Item) /\ Len(g.chan) \in Nat \ {0}
      /\ DOMAIN g.chan = 1 .. Len(g.chan)
      /\ x = g.chan[1] /\ x \in Item /\ 1 \in DOMAIN g.chan
      /\ Tail(g.chan) \in Seq(Item) /\ Len(Tail(g.chan)) = Len(g.chan) - 1
      /\ \A i \in 1 .. Len(Tail(g.chan)) : Tail(g.chan)[i] = g.chan[i + 1]
  <2>1. g.chan \in Seq(Item)
    BY DEF Window
  <2> QED
    BY <2>1, HeadTailProperties, EmptySeq, LenProperties, ElementOfSeq
<1>2. DOMAIN Tail(g.chan) = 1 .. Len(g.chan) - 1
  BY <1>1, LenProperties
<1>3. \A i \in DOMAIN Tail(g.chan) :
         i + 1 \in DOMAIN g.chan /\ Tail(g.chan)[i] = g.chan[i + 1] /\ 1 < i + 1
  BY <1>1, <1>2
<1>4. /\ f \in Window /\ f.chan = Tail(g.chan) /\ f.got = g.got /\ f.pipe = g.pipe
      /\ f.running = g.running /\ f.detections = g.detections /\ f.pending = g.pending
      /\ f.paused = g.paused
  BY <1>1 DEF Window
<1> HIDE DEF f, x
<1>5. Shows(f)
  BY <1>4 DEF Shows
<1>6. CASE IsNews(x)
  <2> DEFINE n == x.event
  <2>1. h = Received(f, n)
    BY <1>6 DEF Handled, IsNews, f, x
  <2>2. n \in Event /\ MaxShown \in Nat
    BY <1>1, <1>6, ItemIs, Bounds
  <2>3. \A e \in f.got : e < n
    BY <1>1, <1>4, <1>6 DEF Ordered
  <2>4. Shows(h)
    BY <1>4, <1>5, <2>1, <2>2, <2>3, ReceivedShows
  <2>5. \A s \in Seq(Event) :
           Trim(<<n>> \o s) \in Seq(Event) /\ Len(Trim(<<n>> \o s)) <= MaxShown
    <3> TAKE s \in Seq(Event)
    <3>1. <<n>> \o s \in Seq(Event)
      BY <2>2, ConcatProperties
    <3> QED
      BY <2>2, <3>1, TrimIs
  <2> HIDE DEF n
  <2>6. /\ h \in Window /\ h.pipe = f.pipe /\ h.running = f.running /\ h.chan = f.chan
        /\ h.got = f.got \cup {n}
        /\ Len(h.detections) <= MaxShown /\ Len(h.pending) <= MaxShown
    <3>1. f.pending \in Seq(Event) /\ f.detections \in Seq(Event)
      BY <1>4 DEF Window
    <3>2. /\ Trim(<<n>> \o f.pending) \in Seq(Event)
          /\ Len(Trim(<<n>> \o f.pending)) <= MaxShown
          /\ Trim(<<n>> \o f.detections) \in Seq(Event)
          /\ Len(Trim(<<n>> \o f.detections)) <= MaxShown
      BY <2>5, <3>1
    <3>3. f.got \cup {n} \in SUBSET Event
      BY <1>4, <2>2 DEF Window
    <3>4. CASE f.paused
      <4>1. h = [f EXCEPT !.pending = Trim(<<n>> \o @), !.got = @ \cup {n}]
        BY <2>1, <3>4 DEF Received
      <4> QED
        BY <1>4, <3>2, <3>3, <4>1 DEF Window
    <3>5. CASE ~f.paused
      <4>1. h = [f EXCEPT !.detections = Trim(<<n>> \o @), !.got = @ \cup {n}]
        BY <2>1, <3>5 DEF Received
      <4> QED
        BY <1>4, <3>2, <3>3, <4>1 DEF Window
    <3> QED
      BY <3>4, <3>5
  <2>7. Ordered(h, data) /\ \A m : AtMost(g, m) => AtMost(h, m)
    <3>1. /\ DOMAIN h.chan \subseteq Nat
          /\ \A i \in DOMAIN h.chan :
               i + 1 \in DOMAIN g.chan /\ h.chan[i] = g.chan[i + 1] /\ 1 < i + 1
      <4>1. h.chan = Tail(g.chan)
        BY <1>4, <2>6
      <4>2. DOMAIN Tail(g.chan) \subseteq Nat
        BY <1>1, <1>2
      <4> QED
        BY <1>3, <4>1, <4>2, Zenon
    <3>2. \A e \in h.got : e \in g.got \/ (IsNews(g.chan[1]) /\ e = g.chan[1].event)
      <4>1. h.got = g.got \cup {n}
        BY <1>4, <2>6
      <4>2. IsNews(g.chan[1]) /\ n = g.chan[1].event
        BY <1>1, <1>6 DEF n
      <4> QED
        BY <4>1, <4>2
    <3>3. Ordered(g, data) /\ 1 \in DOMAIN g.chan
      BY <1>1
    <3> QED
      BY <3>1, <3>2, <3>3, Behindhand
  <2> QED
    BY <1>4, <2>4, <2>6, <2>7
<1>7. CASE ~IsNews(x)
  <2>1. h = [f EXCEPT !.connected = x.of = "Connected"]
    BY <1>7 DEF Handled, IsNews, f, x
  <2>2. /\ h \in Window /\ h.pipe = f.pipe /\ h.running = f.running /\ h.chan = f.chan
        /\ h.got = f.got /\ h.detections = f.detections /\ h.pending = f.pending
        /\ h.paused = f.paused
    BY <1>4, <2>1 DEF Window
  <2>3. Ordered(h, data) /\ \A m : AtMost(g, m) => AtMost(h, m)
    <3>1. /\ DOMAIN h.chan \subseteq Nat
          /\ \A i \in DOMAIN h.chan :
               i + 1 \in DOMAIN g.chan /\ h.chan[i] = g.chan[i + 1] /\ 1 < i + 1
      <4>1. h.chan = Tail(g.chan)
        BY <1>4, <2>2
      <4>2. DOMAIN Tail(g.chan) \subseteq Nat
        BY <1>1, <1>2
      <4> QED
        BY <1>3, <4>1, <4>2, Zenon
    <3>2. \A e \in h.got : e \in g.got \/ (IsNews(g.chan[1]) /\ e = g.chan[1].event)
      BY <1>4, <2>2
    <3>3. Ordered(g, data) /\ 1 \in DOMAIN g.chan
      BY <1>1
    <3> QED
      BY <3>1, <3>2, <3>3, Behindhand
  <2> QED
    BY <1>4, <1>5, <2>2, <2>3 DEF Shows
<1> QED
  BY <1>6, <1>7

(* The handles of the server and the accept thread. *)
LEMMA Lists ==
  ASSUME Typed
  PROVE  /\ Len(accepted) \in Nat /\ DOMAIN accepted = 1 .. Len(accepted)
         /\ Len(clients) \in Nat /\ DOMAIN clients = 1 .. Len(clients)
         /\ \A i \in DOMAIN accepted : accepted[i] \in Pipe
         /\ \A i \in DOMAIN clients : clients[i] \in Pipe
BY LenProperties, ElementOfSeq DEF Typed

(* The last detection written to a client is the last received, or the one before
   it. *)
LEMMA UpToIs ==
  ASSUME Inv, NEW i \in DOMAIN clients
  PROVE  /\ UpTo(i) \in Nat /\ UpTo(i) <= last /\ last \in Nat
         /\ server.at # "write" => UpTo(i) = last
         /\ server.at = "write" => UpTo(i) = IF i < server.idx THEN last ELSE last - 1
<1>1. last \in Nat
  BY Bounds DEF Inv, Typed
<1> QED
  BY <1>1 DEF Inv, Round, UpTo, WrittenTo

(* A step that changes nothing of the server and of the pipes it writes to. *)
LEMMA SameServed ==
  ASSUME Served, clients' = clients, seen' = seen, failed' = failed,
         \A i \in DOMAIN clients : ClientEnd(clients[i])' => ClientEnd(clients[i]),
         \A i \in DOMAIN clients :
           ClientEnd(clients[i])' => buf'[clients[i]] = buf[clients[i]],
         \A i \in DOMAIN clients : UpTo(i)' = UpTo(i)
  PROVE  Served'
BY DEF Served

(* A client that is not ahead stays so as more is sent. *)
LEMMA AtMostGrows ==
  ASSUME NEW g \in Window, NEW a \in Nat, NEW b \in Nat, a <= b, AtMost(g, a)
  PROVE  AtMost(g, b)
<1>1. /\ \A e \in g.got : e \in Nat
      /\ \A i \in DOMAIN g.chan : IsNews(g.chan[i]) => g.chan[i].event \in Nat
  BY ItemIs, Bounds, ElementOfSeq, LenProperties DEF Window
<1> QED
  BY <1>1 DEF AtMost

(* What is unread are detections. *)
LEMMA UnreadIs ==
  ASSUME Typed, NEW c \in Client
  PROVE  /\ Unread(c) \in Seq(Event)
         /\ \A k \in DOMAIN Unread(c) : Unread(c)[k] \in Nat
<1>1. Unread(c) \in Seq(Event)
  <2>1. <<>> \in Seq(Event)
    OBVIOUS
  <2> QED
    BY <2>1 DEF Unread, Typed, Window
<1> QED
  BY <1>1, Bounds, ElementOfSeq, LenProperties

-----------------------------------------------------------------------------
(* The agent. *)

(* CreateNamedPipeW: an instance nobody has a handle of, with nothing in it. *)
LEMMA ListenKept ==
  ASSUME Inv, Listen
  PROVE  Inv'
<1> USE DEF Inv, Listen
<1>1. PICK p \in Free : listening' = p
  <2>1. Free \in SUBSET Nat
    BY DEF Free, Pipe
  <2>2. PICK m \in Free : \A q \in Free : m <= q
    BY <2>1, LeastCounter
  <2>3. (CHOOSE q \in Free : \A r \in Free : q <= r) \in Free
    BY <2>2
  <2> QED
    BY <2>3
<1>2. p \in Pipe /\ ~ClientEnd(p) /\ p # None /\ buf[p] = <<>>
  BY <1>1, Bounds DEF Free, OneClient
<1>3. /\ \A i \in DOMAIN accepted : accepted[i] # p
      /\ \A i \in DOMAIN clients : clients[i] # p
  BY <1>1, ServerEndIs DEF Free
<1>4. \A q : ClientEnd(q)' <=> ClientEnd(q)
  BY SamePipes
<1>5. Typed'
  BY <1>1, <1>2 DEF Typed, serve
<1>6. HandlesApart'
  BY <1>1, <1>2, <1>3 DEF HandlesApart, serve
<1>7. OneClient'
  <2>1. ~ClientEnd(p)'
    BY <1>2, <1>4
  <2>2. ~ClientEnd(listening)'
    BY <1>1, <2>1 DEF ClientEnd
  <2> QED
    BY <1>1, <1>2, <1>4, <2>2 DEF OneClient
<1>8. Round'
  BY DEF Round, serve
<1>9. Served'
  BY <1>4, SameServed DEF UpTo, WrittenTo, serve
<1>10. InOrder' /\ Shown'
  BY DEF InOrder, Unread, Shown
<1>11. NotAhead'
  BY DEF NotAhead, Unread, UpTo, WrittenTo, serve
<1> QED
  BY <1>5, <1>6, <1>7, <1>8, <1>9, <1>10, <1>11

(* ConnectNamedPipe returns: the handle goes to the list, or is closed. *)
LEMMA AcceptKept ==
  ASSUME Inv, Accept
  PROVE  Inv'
<1> USE DEF Inv, Accept
<1>1. listening \in Pipe /\ opened = TRUE /\ listening # None
  BY Bounds DEF Typed, HandlesApart
<1>2. \A q : ClientEnd(q)' <=> ClientEnd(q)
  BY SamePipes
<1>3. /\ accepted' \in Seq(Pipe)
      /\ Distinct(accepted')
      /\ \A i \in DOMAIN accepted' :
           (\E j \in DOMAIN accepted : accepted'[i] = accepted[j])
           \/ accepted'[i] = listening
  <2>1. CASE accepted' = Append(accepted, listening)
    <3>1. accepted \in Seq(Pipe)
      BY DEF Typed
    <3> QED
      BY <1>1, <2>1, <3>1, Appended DEF HandlesApart
  <2>2. CASE UNCHANGED accepted
    BY <2>2 DEF Typed, HandlesApart
  <2> QED
    BY <2>1, <2>2
<1>4. Typed'
  BY <1>3 DEF Typed, serve
<1>5. HandlesApart'
  <2>1. agent = "up"
    BY <1>1 DEF HandlesApart, Typed
  <2> QED
    BY <1>3, <2>1 DEF HandlesApart, serve
<1>6. OneClient'
  BY <1>1, <1>2, <1>3 DEF OneClient
<1>7. Round'
  BY DEF Round, serve
<1>8. Served'
  BY <1>2, SameServed DEF UpTo, WrittenTo, serve
<1>9. InOrder' /\ Shown'
  BY DEF InOrder, Unread, Shown
<1>10. NotAhead'
  BY DEF NotAhead, Unread, UpTo, WrittenTo, serve
<1> QED
  BY <1>4, <1>5, <1>6, <1>7, <1>8, <1>9, <1>10

(* A detection is sent to the server. *)
LEMMA DetectKept ==
  ASSUME Inv, Detect
  PROVE  Inv'
<1> USE DEF Inv, Detect
<1>1. Typed'
  BY Bounds DEF Typed, serve, accept
<1>2. HandlesApart' /\ Round'
  BY DEF HandlesApart, Round, serve, accept
<1>3. \A q : ClientEnd(q)' <=> ClientEnd(q)
  BY SamePipes
<1>4. OneClient'
  BY <1>3 DEF OneClient, ClientEnd, accept
<1>5. Served'
  BY <1>3, SameServed DEF UpTo, WrittenTo, serve
<1>6. InOrder' /\ Shown'
  BY DEF InOrder, Unread, Shown
<1>7. NotAhead'
  BY DEF NotAhead, Unread, UpTo, WrittenTo, serve
<1> QED
  BY <1>1, <1>2, <1>4, <1>5, <1>6, <1>7

(* The agent starts again. *)
LEMMA AgentStartsKept ==
  ASSUME Inv, AgentStarts
  PROVE  Inv'
<1> USE DEF Inv, AgentStarts
<1>1. Typed'
  BY Bounds DEF Typed, serve, accept
<1>2. HandlesApart' /\ Round'
  BY DEF HandlesApart, Round, serve, accept
<1>3. \A q : ClientEnd(q)' <=> ClientEnd(q)
  BY SamePipes
<1>4. OneClient'
  BY <1>3 DEF OneClient, ClientEnd, accept
<1>5. Served'
  BY <1>3, SameServed DEF UpTo, WrittenTo, serve
<1>6. InOrder' /\ Shown'
  BY DEF InOrder, Unread, Shown
<1>7. NotAhead'
  BY DEF NotAhead, Unread, UpTo, WrittenTo, serve
<1> QED
  BY <1>1, <1>2, <1>4, <1>5, <1>6, <1>7

(* The end of the agent closes every handle it has. *)
LEMMA AgentStopsKept ==
  ASSUME Inv, AgentStops
  PROVE  Inv'
<1> USE DEF Inv, AgentStops
<1>1. DOMAIN clients' = {} /\ DOMAIN accepted' = {} /\ <<>> \in Seq(Pipe)
      /\ <<>> \in Seq(Nat)
  OBVIOUS
<1>2. Typed'
  <2>1. Top \in Loop
    BY <1>1 DEF Top, Loop
  <2>2. seen' \in [Pipe -> 0 .. MaxEvents] /\ failed' \in [Pipe -> SUBSET Event]
    BY Bounds
  <2>3. /\ agent' \in {"up", "down"} /\ sent' \in 0 .. MaxEvents
        /\ listening' \in Pipe \cup {None} /\ opened' \in BOOLEAN
    BY DEF Typed
  <2>4. last' \in 0 .. sent'
    <3>1. sent \in Nat
      BY Bounds DEF Typed
    <3> QED
      BY <3>1
  <2> QED
    BY <1>1, <2>1, <2>2, <2>3, <2>4 DEF Typed
<1>3. HandlesApart'
  BY <1>1 DEF HandlesApart, Distinct
<1>4. Round'
  BY DEF Round, Top
<1>5. \A q : ClientEnd(q)' <=> ClientEnd(q)
  BY SamePipes
<1>6. OneClient'
  BY <1>1, <1>5 DEF OneClient
<1>7. Served'
  BY <1>1 DEF Served
<1>8. InOrder' /\ Shown'
  BY DEF InOrder, Unread, Shown
<1>9. NotAhead'
  <2>1. last <= last' /\ last \in Nat /\ last' \in Nat
    BY Bounds DEF Typed
  <2>2. ASSUME NEW c \in Client PROVE AtMost(gui[c], last')
    BY <2>1, AtMostGrows DEF Typed, NotAhead
  <2>3. ASSUME NEW c \in Client, NEW k \in DOMAIN Unread(c) PROVE Unread(c)[k] <= last'
    <3>1. Unread(c)[k] <= last /\ Unread(c)[k] \in Nat
      BY UnreadIs DEF NotAhead
    <3> QED
      BY <2>1, <3>1
  <2> QED
    BY <1>1, <2>2, <2>3 DEF NotAhead, Unread
<1> QED
  BY <1>2, <1>3, <1>4, <1>6, <1>7, <1>8, <1>9

(* The handles that came are taken over; their clients have read nothing, and
   nothing is in their pipes. *)
LEMMA RegisterKept ==
  ASSUME Inv, Register
  PROVE  Inv'
<1> USE DEF Inv, Register
<1>1. /\ Len(accepted) \in Nat /\ DOMAIN accepted = 1 .. Len(accepted)
      /\ Len(clients) \in Nat /\ DOMAIN clients = 1 .. Len(clients)
      /\ accepted \in Seq(Pipe) /\ clients \in Seq(Pipe)
      /\ \A i \in DOMAIN accepted : accepted[i] \in Pipe
      /\ \A i \in DOMAIN clients : clients[i] \in Pipe
  BY Lists DEF Typed
<1>2. /\ clients' \in Seq(Pipe) /\ Len(clients') = Len(clients) + Len(accepted)
      /\ \A i \in 1 .. Len(clients) + Len(accepted) :
           clients'[i] =
             IF i <= Len(clients) THEN clients[i] ELSE accepted[i - Len(clients)]
  BY <1>1, ConcatProperties
<1>3. DOMAIN clients' = 1 .. Len(clients) + Len(accepted)
  BY <1>2, LenProperties
<1>4. \A i \in DOMAIN clients' :
        \/ i \in DOMAIN clients /\ clients'[i] = clients[i]
        \/ i > Len(clients) /\ i - Len(clients) \in DOMAIN accepted
            /\ clients'[i] = accepted[i - Len(clients)]
  BY <1>1, <1>2, <1>3
<1>5. \A p : p \in ToSet(accepted) <=> \E j \in DOMAIN accepted : accepted[j] = p
  BY DEF ToSet
<1>6. /\ \A i \in DOMAIN clients :
           seen'[clients[i]] = seen[clients[i]] /\ failed'[clients[i]] = failed[clients[i]]
      /\ \A j \in DOMAIN accepted : seen'[accepted[j]] = last /\ failed'[accepted[j]] = {}
  BY <1>1, <1>5 DEF HandlesApart
<1>7. DOMAIN accepted' = {} /\ <<>> \in Seq(Pipe) /\ last \in Nat /\ last <= MaxEvents
  BY Bounds DEF Typed
<1>8. Typed'
  <2>1. seen' \in [Pipe -> 0 .. MaxEvents] /\ failed' \in [Pipe -> SUBSET Event]
    BY <1>7, Bounds DEF Typed
  <2>2. server' \in Loop
    BY DEF Typed, Loop
  <2> QED
    BY <1>2, <1>7, <2>1, <2>2 DEF Typed
<1>9. HandlesApart'
  <2>1. Distinct(clients')
    BY <1>1, JoinedApart DEF HandlesApart
  <2>2. Distinct(accepted')
    BY <1>7 DEF Distinct
  <2>3. listening # None => \A i \in DOMAIN clients' : clients'[i] # listening
    BY <1>4 DEF HandlesApart
  <2> QED
    BY <1>7, <2>1, <2>2, <2>3 DEF HandlesApart
<1>10. \A q : ClientEnd(q)' <=> ClientEnd(q)
  BY SamePipes
<1>11. OneClient'
  BY <1>7, <1>10 DEF OneClient, ClientEnd
<1>12. server'.at = "recv" /\ server' = [Top EXCEPT !.at = "recv"]
  BY DEF Round, Top, Typed, Loop
<1>13. Round'
  BY <1>12 DEF Round, Top
<1>14. \A i : UpTo(i)' = last
  BY <1>12 DEF UpTo, WrittenTo
<1>15. Served'
  <2>1. ASSUME NEW i \in DOMAIN clients', ClientEnd(clients[i])'
        PROVE  Due(buf'[clients'[i]], seen'[clients'[i]], last, failed'[clients'[i]])
    <3>1. CASE i \in DOMAIN clients /\ clients'[i] = clients[i]
      <4>1. ClientEnd(clients[i])
        BY <2>1, <3>1 DEF ClientEnd
      <4>2. UpTo(i) = last
        BY <3>1 DEF UpTo, WrittenTo
      <4>3. Due(buf[clients[i]], seen[clients[i]], last, failed[clients[i]])
        BY <3>1, <4>1, <4>2 DEF Served
      <4>4. /\ buf'[clients'[i]] = buf[clients[i]] /\ seen'[clients'[i]] = seen[clients[i]]
            /\ failed'[clients'[i]] = failed[clients[i]]
        BY <1>6, <3>1
      <4> HIDE DEF Inv, Register
      <4> QED
        BY <4>3, <4>4
    <3>2. CASE i - Len(clients) \in DOMAIN accepted
          /\ clients'[i] = accepted[i - Len(clients)]
      <4>1. seen'[clients'[i]] = last /\ failed'[clients'[i]] = {}
        BY <1>6, <3>2
      <4>2. buf'[clients'[i]] = <<>>
        BY <3>2 DEF OneClient
      <4>3. Due(<<>>, last, last, {})
        BY <1>7, NothingDue
      <4> QED
        BY <1>7, <4>1, <4>2, <4>3
    <3> QED
      BY <1>4, <3>1, <3>2
  <2> QED
    BY <1>14, <2>1 DEF Served
<1>16. InOrder' /\ Shown'
  BY DEF InOrder, Unread, Shown
<1>17. NotAhead'
  <2>1. \A c \in Client : Unread(c)' = Unread(c)
    BY DEF Unread
  <2> QED
    BY <1>14, <2>1 DEF NotAhead
<1> QED
  BY <1>8, <1>9, <1>11, <1>13, <1>15, <1>16, <1>17

(* recv_timeout: a round begins with nothing written, or the server goes back to
   the handles. *)
LEMMA RecvKept ==
  ASSUME Inv, Recv
  PROVE  Inv'
<1> USE DEF Inv, Recv
<1>1. /\ last \in Nat /\ sent \in Nat /\ sent <= MaxEvents /\ last <= sent
      /\ last' \in Nat
      /\ last <= last' /\ last' <= sent
  BY Bounds DEF Typed
<1>2. /\ server' \in Loop
      /\ \/ server' = Top /\ last' = last
         \/ server'.at = "write" /\ server'.idx = 1 /\ server'.dead = <<>>
            /\ last' = last + 1
  <2>1. <<>> \in Seq(Nat)
    OBVIOUS
  <2>2. CASE last < sent
    <3>1. server' = [at |-> "write", idx |-> 1, dead |-> <<>>] /\ last' = last + 1
      BY <2>2
    <3>2. [at |-> "write", idx |-> 1, dead |-> <<>>] \in Loop
      BY <2>1 DEF Loop
    <3> QED
      BY <3>1, <3>2
  <2>3. CASE ~(last < sent)
    <3>1. server' = Top /\ last' = last
      BY <2>3
    <3>2. Top \in Loop
      BY <2>1 DEF Top, Loop
    <3> QED
      BY <3>1, <3>2
  <2> QED
    BY <2>2, <2>3
<1>3. /\ Len(clients) \in Nat /\ DOMAIN clients = 1 .. Len(clients)
  BY Lists
<1>4. \A i \in DOMAIN clients : UpTo(i)' = last /\ UpTo(i) = last
  <2>1. \A i \in DOMAIN clients : ~(i < 1)
    BY <1>3
  <2>2. server.at # "write" /\ Top.at # "write"
    BY DEF Top
  <2>3. \A i : UpTo(i) = last
    BY <2>2 DEF UpTo, WrittenTo
  <2>4. CASE server' = Top /\ last' = last
    BY <2>2, <2>4 DEF UpTo, WrittenTo
  <2>5. CASE server'.at = "write" /\ server'.idx = 1 /\ last' = last + 1
    BY <1>1, <2>1, <2>3, <2>5 DEF UpTo, WrittenTo
  <2> QED
    BY <1>2, <2>3, <2>4, <2>5
<1>5. \A q : ClientEnd(q)' <=> ClientEnd(q)
  BY SamePipes
<1>6. Typed'
  BY <1>1, <1>2 DEF Typed, accept
<1>7. HandlesApart'
  BY <1>2 DEF HandlesApart, Typed, Top, accept
<1>8. OneClient'
  BY <1>5 DEF OneClient, ClientEnd, accept
<1>9. Round'
  <2>1. CASE server' = Top
    BY <2>1 DEF Round, Top
  <2>2. CASE server'.at = "write" /\ server'.idx = 1 /\ server'.dead = <<>>
        /\ last' = last + 1
    <3>1. DOMAIN server'.dead = {}
      BY <2>2
    <3> QED
      BY <1>1, <1>3, <2>2, <3>1 DEF Round
  <2> QED
    BY <1>2, <2>1, <2>2
<1>10. Served'
  BY <1>4, <1>5, SameServed
<1>11. InOrder' /\ Shown'
  BY DEF InOrder, Unread, Shown
<1>12. NotAhead'
  <2>1. \A c \in Client : Unread(c)' = Unread(c)
    BY DEF Unread
  <2>2. \A c \in Client : AtMost(gui[c], last')
    BY <1>1, AtMostGrows DEF NotAhead, Typed
  <2>3. \A c \in Client : \A k \in DOMAIN Unread(c) : Unread(c)[k] <= last'
    <3> TAKE c \in Client
    <3> TAKE k \in DOMAIN Unread(c)
    <3>1. Unread(c)[k] <= last /\ Unread(c)[k] \in Nat
      BY UnreadIs DEF NotAhead
    <3> QED
      BY <1>1, <3>1
  <2> QED
    BY <1>4, <2>1, <2>2, <2>3 DEF NotAhead
<1> QED
  BY <1>6, <1>7, <1>8, <1>9, <1>10, <1>11, <1>12

(* What the server has noted to remove, when it does. *)
LEMMA DeadKnown ==
  ASSUME Inv, RemoveDead
  PROVE  /\ server.dead \in Seq(Nat) /\ clients \in Seq(Pipe) /\ Distinct(clients)
         /\ \A k \in DOMAIN server.dead : server.dead[k] \in DOMAIN clients
         /\ \A k, l \in DOMAIN server.dead : k < l => server.dead[k] < server.dead[l]
<1>1. /\ Len(clients) \in Nat /\ DOMAIN clients = 1 .. Len(clients)
      /\ clients \in Seq(Pipe) /\ Distinct(clients)
  BY Lists DEF Inv, Typed, HandlesApart
<1>2. server \in Loop /\ server.at = "write" /\ server.idx \in 1 .. Len(clients) + 1
  BY DEF Inv, Typed, Round, RemoveDead
<1>3. \A k \in DOMAIN server.dead : server.dead[k] \in DOMAIN clients
  BY <1>1, <1>2 DEF Inv, Round
<1> QED
  BY <1>1, <1>2, <1>3 DEF Inv, Round, Loop

(* The end of a round: the handles that stay have been written to. *)
LEMMA RemoveDeadKept ==
  ASSUME Inv, RemoveDead
  PROVE  Inv'
<1> USE DEF Inv, RemoveDead
<1>1. /\ Len(clients) \in Nat /\ DOMAIN clients = 1 .. Len(clients)
      /\ \A i \in DOMAIN clients : clients[i] \in Pipe
      /\ clients \in Seq(Pipe)
  BY Lists DEF Typed
<1>2. server \in Loop /\ server.idx \in 1 .. Len(clients) + 1
  BY DEF Typed, Round
<1>3. \A i \in DOMAIN clients : UpTo(i) = last
  BY <1>1, <1>2 DEF Writing, UpTo, WrittenTo, Loop
<1>4. /\ clients' \in Seq(Pipe) /\ Distinct(clients')
      /\ Range(clients') = {clients[i] : i \in DOMAIN clients \ Range(server.dead)}
  BY DeadKnown, WithoutIs
<1>5. \A i \in DOMAIN clients' : \E j \in DOMAIN clients : clients'[i] = clients[j]
  BY <1>4 DEF Range
<1>6. \A p \in Pipe : buf'[p] = buf[p] \/ buf'[p] = <<>>
  OBVIOUS
<1>7. \A i \in DOMAIN clients' :
        /\ buf'[clients'[i]] = buf[clients'[i]] /\ seen'[clients'[i]] = seen[clients'[i]]
        /\ failed'[clients'[i]] = failed[clients'[i]]
  BY <1>1, <1>5 DEF ToSet
<1>8. \A q : ClientEnd(q)' <=> ClientEnd(q)
  BY SamePipes
<1>9. <<>> \in Seq(Event) /\ Len(<<>>) = 0 /\ <<>> \in Seq(Nat) /\ DOMAIN <<>> = {}
  OBVIOUS
<1>10. Typed'
  <2>1. Top \in Loop
    BY <1>9 DEF Top, Loop
  <2>2. buf' \in [Pipe -> Seq(Event)]
    BY <1>9 DEF Typed
  <2>3. \A p \in Pipe : Len(buf'[p]) <= Size
    BY <1>6, <1>9, Bounds DEF Typed
  <2>4. seen' \in [Pipe -> 0 .. MaxEvents] /\ failed' \in [Pipe -> SUBSET Event]
    BY Bounds DEF Typed
  <2> QED
    BY <1>4, <2>1, <2>2, <2>3, <2>4 DEF Typed, accept
<1>11. HandlesApart'
  <2>1. agent = "up"
    BY DEF HandlesApart, Typed, Top
  <2> QED
    BY <1>4, <1>5, <2>1 DEF HandlesApart, accept
<1>12. OneClient'
  <2>1. \A p \in Pipe : buf[p] = <<>> => buf'[p] = <<>>
    BY <1>6
  <2>2. \A i \in DOMAIN accepted : accepted[i] \in Pipe
    BY Lists
  <2>3. listening # None => listening \in Pipe
    BY DEF Typed
  <2> QED
    BY <1>8, <2>1, <2>2, <2>3 DEF OneClient, ClientEnd, accept
<1>13. Round'
  BY DEF Round, Top
<1>14. \A i : UpTo(i)' = last
  BY DEF UpTo, WrittenTo, Top
<1>15. Served'
  <2>1. ASSUME NEW i \in DOMAIN clients', ClientEnd(clients[i])'
        PROVE  Due(buf'[clients'[i]], seen'[clients'[i]], last, failed'[clients'[i]])
    <3>1. PICK j \in DOMAIN clients : clients'[i] = clients[j]
      BY <1>5
    <3>2. ClientEnd(clients[j]) /\ UpTo(j) = last
      BY <1>3, <2>1, <3>1 DEF ClientEnd
    <3>3. Due(buf[clients[j]], seen[clients[j]], last, failed[clients[j]])
      BY <3>2 DEF Served
    <3>4. /\ buf'[clients'[i]] = buf[clients[j]] /\ seen'[clients'[i]] = seen[clients[j]]
          /\ failed'[clients'[i]] = failed[clients[j]]
      BY <1>7, <3>1
    <3> HIDE DEF Inv, RemoveDead
    <3> QED
      BY <3>3, <3>4
  <2> QED
    BY <1>14, <2>1 DEF Served
<1>16. \A c \in Client : Unread(c)' = Unread(c) \/ Unread(c)' = <<>>
  <2>1. \A c \in Client : gui[c].pipe \in Pipe \cup {None}
    BY DEF Typed, Window
  <2> QED
    BY <1>6, <2>1 DEF Unread
<1>17. InOrder'
  <2>1. ASSUME NEW c \in Client PROVE Ordered(gui[c], Unread(c)')
    <3>1. Ordered(gui[c], Unread(c))
      BY DEF InOrder
    <3> QED
      BY <1>16, <3>1, NothingOrdered
  <2> QED
    BY <2>1 DEF InOrder
<1>18. Shown'
  BY DEF Shown
<1>19. NotAhead'
  BY <1>9, <1>14, <1>16 DEF NotAhead
<1> QED
  BY <1>10, <1>11, <1>12, <1>13, <1>15, <1>17, <1>18, <1>19

(* Detections are numbers. *)
LEMMA EventSeq ==
  ASSUME NEW data \in Seq(Event)
  PROVE  data \in Seq(Nat)
BY Bounds, SeqDef DEF Event

(* WriteFile to one client. *)
LEMMA WriteKept ==
  ASSUME Inv, Write
  PROVE  Inv'
<1> USE DEF Inv
<1>1. PICK i, p : i = server.idx /\ p = clients[i]
  OBVIOUS
<1>2. /\ Len(clients) \in Nat /\ DOMAIN clients = 1 .. Len(clients)
      /\ \A j \in DOMAIN clients : clients[j] \in Pipe
  BY Lists DEF Typed
<1>3. /\ server \in Loop /\ server.at = "write" /\ i \in DOMAIN clients /\ last >= 1
      /\ i \in Nat /\ p \in Pipe
  BY <1>1, <1>2 DEF Typed, Round, Write, Writing, Loop
<1>4. /\ last \in Nat /\ last - 1 \in Nat /\ last \in Event /\ UpTo(i) = last - 1
  BY <1>1, <1>3, Bounds DEF Typed, UpTo, WrittenTo, Event
<1>5. /\ server' \in Loop /\ server'.at = "write" /\ server'.idx = i + 1
      /\ IF ClientEnd(p)
         THEN /\ buf' = [buf EXCEPT ![p] = Append(@, last)] /\ Len(buf[p]) < Size
              /\ server'.dead = server.dead
         ELSE buf' = buf /\ server'.dead = Append(server.dead, i)
  <2>1. server.dead \in Seq(Nat)
    BY <1>3 DEF Loop
  <2>2. Append(server.dead, i) \in Seq(Nat)
    BY <1>3, <2>1, Appended
  <2>3. CASE ClientEnd(p)
    <3>1. /\ server' = [server EXCEPT !.idx = @ + 1] /\ Len(buf[p]) < Size
          /\ buf' = [buf EXCEPT ![p] = Append(@, last)]
      BY <1>1, <2>3 DEF Write
    <3>2. server' \in Loop /\ server'.at = "write" /\ server'.idx = i + 1
          /\ server'.dead = server.dead
      BY <1>1, <1>3, <3>1 DEF Loop
    <3> QED
      BY <2>3, <3>1, <3>2
  <2>4. CASE ~ClientEnd(p)
    <3>1. server' = [server EXCEPT !.idx = @ + 1, !.dead = Append(@, i)] /\ buf' = buf
      BY <1>1, <2>4 DEF Write
    <3>2. server' = [at |-> "write", idx |-> i + 1, dead |-> Append(server.dead, i)]
      BY <1>1, <1>3, <3>1 DEF Loop
    <3>3. [at |-> "write", idx |-> i + 1, dead |-> Append(server.dead, i)] \in Loop
      BY <1>3, <2>2 DEF Loop
    <3>4. server' \in Loop /\ server'.at = "write" /\ server'.idx = i + 1
          /\ server'.dead = Append(server.dead, i)
      BY <3>2, <3>3
    <3> QED
      BY <2>4, <3>1, <3>4
  <2> QED
    BY <2>3, <2>4
<1>6. /\ agent' = agent /\ sent' = sent /\ last' = last /\ clients' = clients
      /\ seen' = seen /\ failed' = failed
      /\ listening' = listening /\ opened' = opened /\ accepted' = accepted
      /\ gui' = gui /\ starts' = starts
  BY DEF Write, accept
<1>7. buf \in [Pipe -> Seq(Event)] /\ \A q \in Pipe : Len(buf[q]) <= Size
  BY DEF Typed
<1>8. /\ buf' \in [Pipe -> Seq(Event)]
      /\ \A q \in Pipe : Len(buf'[q]) <= Size
      /\ ClientEnd(p) => buf'[p] = Append(buf[p], last)
      /\ \A q \in Pipe : q # p \/ ~ClientEnd(p) => buf'[q] = buf[q]
  <2>1. CASE ClientEnd(p)
    <3>1. /\ Append(buf[p], last) \in Seq(Event)
          /\ Len(Append(buf[p], last)) = Len(buf[p]) + 1
          /\ Len(buf[p]) \in Nat
      BY <1>3, <1>4, <1>7, Appended
    <3>2. Len(Append(buf[p], last)) <= Size
      BY <1>5, <2>1, <3>1, Bounds
    <3>3. buf' = [buf EXCEPT ![p] = Append(buf[p], last)]
      BY <1>5, <2>1
    <3> QED
      BY <1>3, <1>7, <2>1, <3>1, <3>2, <3>3
  <2>2. CASE ~ClientEnd(p)
    BY <1>5, <1>7, <2>2
  <2> QED
    BY <2>1, <2>2
<1>9. \A q : ClientEnd(q)' <=> ClientEnd(q)
  BY <1>6, SamePipes
<1>10. /\ UpTo(i)' = last
      /\ \A j \in DOMAIN clients : j # i => UpTo(j)' = UpTo(j)
  <2>1. \A j \in DOMAIN clients : j < i + 1 <=> j < i \/ j = i
    BY <1>2, <1>3
  <2> QED
    BY <1>1, <1>3, <1>5, <1>6, <2>1 DEF UpTo, WrittenTo
<1>11. Typed'
  BY <1>5, <1>6, <1>8 DEF Typed
<1>12. HandlesApart'
  BY <1>3, <1>5, <1>6 DEF HandlesApart, Top
<1>13. OneClient'
  <2>1. \A q \in Pipe : buf[q] = <<>> /\ (q # p \/ ~ClientEnd(q)) => buf'[q] = <<>>
    BY <1>8
  <2>2. listening # None => listening \in Pipe /\ listening # p
    BY <1>1, <1>3 DEF Typed, HandlesApart
  <2>3. \A j \in DOMAIN accepted : accepted[j] \in Pipe /\ accepted[j] # p
    BY <1>1, <1>3, Lists DEF HandlesApart
  <2>4. \A q \in Pipe : ~ClientEnd(q)' => buf'[q] = <<>>
    BY <1>9, <2>1 DEF OneClient
  <2>5. listening # None /\ ~opened => ~ClientEnd(listening)'
    BY <1>6 DEF OneClient, ClientEnd
  <2> QED
    BY <1>6, <2>1, <2>2, <2>3, <2>4, <2>5 DEF OneClient
<1>14. Round'
  <2>1. i + 1 \in 1 .. Len(clients) + 1
    BY <1>2, <1>3
  <2>2. \A k \in DOMAIN server.dead : server.dead[k] \in 1 .. i - 1
    BY <1>1, <1>3 DEF Round
  <2>3. CASE ClientEnd(p)
    <3>1. server'.dead = server.dead
      BY <1>5, <2>3
    <3>2. \A k \in DOMAIN server.dead : server.dead[k] \in 1 .. (i + 1) - 1
      BY <1>3, <2>2
    <3> QED
      BY <1>3, <1>5, <1>6, <2>1, <3>1, <3>2 DEF Round
  <2>4. CASE ~ClientEnd(p)
    <3>1. server.dead \in Seq(Nat)
      BY <1>3 DEF Loop
    <3>2. /\ server'.dead = Append(server.dead, i)
          /\ Append(server.dead, i) = server'.dead
          /\ Len(server.dead) \in Nat /\ DOMAIN server.dead = 1 .. Len(server.dead)
          /\ \A k \in DOMAIN server.dead : server'.dead[k] = server.dead[k]
          /\ server'.dead[Len(server.dead) + 1] = i
          /\ \A k \in DOMAIN server'.dead :
               k \in DOMAIN server.dead \/ k = Len(server.dead) + 1
      <4>1. server'.dead = Append(server.dead, i)
        BY <1>5, <2>4
      <4> QED
        BY <1>3, <3>1, <4>1, Appended
    <3>3. \A k \in DOMAIN server'.dead : server'.dead[k] \in 1 .. (i + 1) - 1
      BY <1>2, <1>3, <2>2, <3>2
    <3>4. ASSUME NEW k \in DOMAIN server'.dead, NEW l \in DOMAIN server'.dead, k < l
          PROVE  server'.dead[k] < server'.dead[l]
      <4>1. k \in DOMAIN server.dead
        BY <3>2, <3>4
      <4>2. CASE l \in DOMAIN server.dead
        BY <1>3, <3>2, <3>4, <4>1, <4>2 DEF Round
      <4>3. CASE l = Len(server.dead) + 1
        BY <1>3, <2>2, <3>2, <4>1, <4>3
      <4> QED
        BY <3>2, <4>2, <4>3
    <3> QED
      BY <1>3, <1>5, <1>6, <2>1, <3>3, <3>4 DEF Round
  <2> QED
    BY <2>3, <2>4
<1>15. Served'
  <2>1. ASSUME NEW j \in DOMAIN clients, ClientEnd(clients[j])
        PROVE  Due(buf'[clients[j]], seen[clients[j]], UpTo(j)', failed[clients[j]])
    <3>1. Due(buf[clients[j]], seen[clients[j]], UpTo(j), failed[clients[j]])
      BY <2>1 DEF Served
    <3>2. CASE j = i
      <4>1. seen[p] \in Nat /\ buf[p] \in Seq(Nat) /\ failed[p] \in SUBSET Nat
        <5>1. buf[p] \in Seq(Event) /\ seen[p] \in 0 .. MaxEvents /\ failed[p] \subseteq Event
          BY <1>3, <1>7 DEF Typed
        <5> QED
          BY <5>1, Bounds, EventSeq DEF Event
      <4>2. Due(buf[p], seen[p], last - 1, failed[p]) /\ ClientEnd(p)
        BY <1>1, <1>4, <2>1, <3>1, <3>2
      <4>3. Due(Append(buf[p], (last - 1) + 1), seen[p], (last - 1) + 1, failed[p])
        BY <1>4, <4>1, <4>2, OneMoreDue
      <4>4. (last - 1) + 1 = last
        BY <1>4
      <4> QED
        BY <1>1, <1>8, <1>10, <3>2, <4>2, <4>3, <4>4
    <3>3. CASE j # i
      <4>1. clients[j] # p /\ clients[j] \in Pipe
        BY <1>1, <1>2, <1>3, <3>3 DEF HandlesApart, Distinct
      <4> QED
        BY <1>8, <1>10, <3>1, <3>3, <4>1
    <3> QED
      BY <3>2, <3>3
  <2> QED
    BY <1>6, <2>1 DEF Served, ClientEnd
<1>16. ASSUME NEW c \in Client
       PROVE  \/ Unread(c)' = Unread(c)
              \/ /\ gui[c].pipe = p /\ Unread(c)' = Append(Unread(c), last)
                 /\ AtMost(gui[c], last - 1)
  <2>1. gui[c].pipe \in Pipe \cup {None} /\ p # None
    BY <1>3, Bounds DEF Typed, Window
  <2>2. CASE gui[c].pipe = p
    <3>1. ClientEnd(p)
      BY <2>2 DEF ClientEnd
    <3>2. AtMost(gui[c], last - 1)
      BY <1>1, <1>3, <1>4, <2>2 DEF NotAhead
    <3> QED
      BY <1>6, <1>8, <2>1, <2>2, <3>1, <3>2 DEF Unread
  <2>3. CASE gui[c].pipe # p
    BY <1>6, <1>8, <2>1, <2>3 DEF Unread
  <2> QED
    BY <2>2, <2>3
<1>17. ASSUME NEW c \in Client, Unread(c)' = Append(Unread(c), last)
       PROVE  \A k \in DOMAIN Unread(c)' :
                \/ k \in DOMAIN Unread(c) /\ Unread(c)'[k] = Unread(c)[k]
                \/ Unread(c)'[k] = last
  BY <1>4, <1>17, UnreadIs, Appended
<1>18. InOrder'
  <2>1. ASSUME NEW c \in Client PROVE Ordered(gui[c], Unread(c)')
    <3>1. Ordered(gui[c], Unread(c))
      BY DEF InOrder
    <3>2. CASE Unread(c)' = Unread(c)
      BY <3>1, <3>2
    <3>3. CASE Unread(c)' = Append(Unread(c), last) /\ AtMost(gui[c], last - 1)
      <4>1. /\ \A e \in gui[c].got : e < last
            /\ \A k \in DOMAIN gui[c].chan :
                 IsNews(gui[c].chan[k]) => gui[c].chan[k].event < last
        <5>1. gui[c] \in Window
          BY DEF Typed
        <5>2. /\ \A e \in gui[c].got : e \in Nat
              /\ \A k \in DOMAIN gui[c].chan :
                   IsNews(gui[c].chan[k]) => gui[c].chan[k].event \in Nat
          BY <5>1, ItemIs, Bounds, ElementOfSeq, LenProperties DEF Window
        <5> QED
          BY <1>4, <3>3, <5>2 DEF AtMost
      <4> QED
        BY <1>17, <3>1, <3>3, <4>1 DEF Ordered
    <3> QED
      BY <1>16, <3>2, <3>3
  <2> QED
    BY <1>6, <2>1 DEF InOrder
<1>19. Shown'
  BY <1>6 DEF Shown
<1>20. NotAhead'
  <2>1. ASSUME NEW c \in Client, NEW k \in DOMAIN Unread(c)' PROVE Unread(c)'[k] <= last
    BY <1>4, <1>16, <1>17, <2>1 DEF NotAhead
  <2>2. ASSUME NEW c \in Client, NEW j \in DOMAIN clients, clients[j] = gui[c].pipe
        PROVE  AtMost(gui[c], UpTo(j)')
    <3>1. AtMost(gui[c], UpTo(j)) /\ AtMost(gui[c], last)
      BY <2>2 DEF NotAhead
    <3>2. UpTo(j)' = UpTo(j) \/ UpTo(j)' = last
      BY <1>10
    <3> QED
      BY <3>1, <3>2
  <2> QED
    BY <1>6, <2>1, <2>2 DEF NotAhead
<1> QED
  BY <1>11, <1>12, <1>13, <1>14, <1>15, <1>18, <1>19, <1>20

(* WriteFile to one client fails, and the server goes on to the next. *)
LEMMA WriteFailsKept ==
  ASSUME Inv, WriteFails
  PROVE  Inv'
<1> USE DEF Inv
<1>1. PICK i, p : i = server.idx /\ p = clients[i]
  OBVIOUS
<1>2. /\ Len(clients) \in Nat /\ DOMAIN clients = 1 .. Len(clients)
      /\ \A j \in DOMAIN clients : clients[j] \in Pipe
  BY Lists DEF Typed
<1>3. /\ server \in Loop /\ server.at = "write" /\ i \in DOMAIN clients /\ last >= 1
      /\ i \in Nat /\ p \in Pipe
  BY <1>1, <1>2 DEF Typed, Round, WriteFails, Writing, Loop
<1>4. /\ last \in Nat /\ last - 1 \in Nat /\ last \in Event /\ UpTo(i) = last - 1
      /\ (last - 1) + 1 = last
  BY <1>1, <1>3, Bounds DEF Typed, UpTo, WrittenTo, Event
<1>5. /\ server' \in Loop /\ server'.at = "write" /\ server'.idx = i + 1
      /\ server'.dead = server.dead
  BY <1>1, <1>3 DEF WriteFails, Loop
<1>6. /\ agent' = agent /\ sent' = sent /\ last' = last /\ clients' = clients
      /\ seen' = seen /\ buf' = buf
      /\ listening' = listening /\ opened' = opened /\ accepted' = accepted
      /\ gui' = gui /\ starts' = starts
  BY DEF WriteFails, accept
<1>7. /\ failed \in [Pipe -> SUBSET Event] /\ failed' \in [Pipe -> SUBSET Event]
      /\ failed'[p] = failed[p] \cup {last}
      /\ \A q \in Pipe : q # p => failed'[q] = failed[q]
  <2>1. failed \in [Pipe -> SUBSET Event]
    BY DEF Typed
  <2>2. failed' = [failed EXCEPT ![p] = @ \cup {last}]
    BY <1>1 DEF WriteFails
  <2> QED
    BY <1>3, <1>4, <2>1, <2>2
<1>8. \A q : ClientEnd(q)' <=> ClientEnd(q)
  BY <1>6, SamePipes
<1>9. /\ UpTo(i)' = last
      /\ \A j \in DOMAIN clients : j # i => UpTo(j)' = UpTo(j)
  <2>1. \A j \in DOMAIN clients : j < i + 1 <=> j < i \/ j = i
    BY <1>2, <1>3
  <2> QED
    BY <1>1, <1>3, <1>5, <1>6, <2>1 DEF UpTo, WrittenTo
<1>10. Typed'
  BY <1>5, <1>6, <1>7 DEF Typed
<1>11. HandlesApart'
  BY <1>3, <1>5, <1>6 DEF HandlesApart, Top
<1>12. OneClient'
  BY <1>6, <1>8 DEF OneClient, ClientEnd
<1>13. Round'
  <2>1. i + 1 \in 1 .. Len(clients) + 1
    BY <1>2, <1>3
  <2>2. \A k \in DOMAIN server.dead : server.dead[k] \in 1 .. i - 1
    BY <1>1, <1>3 DEF Round
  <2>3. \A k \in DOMAIN server.dead : server.dead[k] \in 1 .. (i + 1) - 1
    BY <1>3, <2>2
  <2> QED
    BY <1>3, <1>5, <1>6, <2>1, <2>3 DEF Round
<1>14. Served'
  <2>1. ASSUME NEW j \in DOMAIN clients, ClientEnd(clients[j])
        PROVE  Due(buf[clients[j]], seen[clients[j]], UpTo(j)', failed'[clients[j]])
    <3>1. Due(buf[clients[j]], seen[clients[j]], UpTo(j), failed[clients[j]])
      BY <2>1 DEF Served
    <3>2. CASE j = i
      <4>1. seen[p] \in Nat /\ failed[p] \in SUBSET Nat
        BY <1>3, <1>7, Bounds DEF Typed, Event
      <4>2. Due(buf[p], seen[p], last - 1, failed[p])
        BY <1>1, <1>4, <3>1, <3>2
      <4>3. Due(buf[p], seen[p], (last - 1) + 1, failed[p] \cup {(last - 1) + 1})
        BY <1>4, <4>1, <4>2, OneLessDue
      <4> QED
        BY <1>1, <1>4, <1>7, <1>9, <3>2, <4>3
    <3>3. CASE j # i
      <4>1. clients[j] # p /\ clients[j] \in Pipe
        BY <1>1, <1>2, <1>3, <3>3 DEF HandlesApart, Distinct
      <4> QED
        BY <1>7, <1>9, <3>1, <3>3, <4>1
    <3> QED
      BY <3>2, <3>3
  <2> QED
    BY <1>6, <2>1 DEF Served, ClientEnd
<1>15. InOrder' /\ Shown'
  BY <1>6 DEF InOrder, Unread, Shown
<1>16. NotAhead'
  <2>1. ASSUME NEW c \in Client, NEW j \in DOMAIN clients, clients[j] = gui[c].pipe
        PROVE  AtMost(gui[c], UpTo(j)')
    <3>1. AtMost(gui[c], UpTo(j)) /\ AtMost(gui[c], last)
      BY <2>1 DEF NotAhead
    <3>2. UpTo(j)' = UpTo(j) \/ UpTo(j)' = last
      BY <1>9
    <3> QED
      BY <3>1, <3>2
  <2> QED
    BY <1>6, <2>1 DEF NotAhead, Unread
<1> QED
  BY <1>10, <1>11, <1>12, <1>13, <1>14, <1>15, <1>16

-----------------------------------------------------------------------------
(* The clients. *)

(* A step of one client changes client ends of its own only. *)
LEMMA ClientEndIs ==
  ASSUME Inv, NEW c \in Client, NEW g \in Window, Set(c, g), NEW q \in Pipe
  PROVE  ClientEnd(q)' <=> g.pipe = q \/ (ClientEnd(q) /\ gui[c].pipe # q)
<1>1. /\ gui' \in [Client -> Window] /\ gui'[c] = g
      /\ \A d \in Client \ {c} : gui'[d] = gui[d]
  BY SetIs DEF Inv, Typed
<1>2. q # None
  BY Bounds
<1>3. \A d \in Client \ {c} : gui[d].pipe = q => gui[c].pipe # q
  BY <1>2 DEF Inv, OneClient
<1> QED
  BY <1>1, <1>3 DEF ClientEnd

(* A step of one client keeps what is said of the windows, if it does for this
   one. *)
LEMMA SetKept ==
  ASSUME Inv, NEW c \in Client, NEW g \in Window, Set(c, g),
         \A q \in Pipe : q # gui[c].pipe => buf'[q] = buf[q],
         clients' = clients, last' = last, server' = server,
         Shows(g), Ordered(g, Unread(c)'), AtMost(g, last),
         \A k \in DOMAIN Unread(c)' : Unread(c)'[k] <= last,
         \A i \in DOMAIN clients : clients[i] = g.pipe => AtMost(g, UpTo(i))
  PROVE  InOrder' /\ NotAhead' /\ Shown' /\ \A i : UpTo(i)' = UpTo(i)
<1> USE DEF Inv
<1>1. /\ gui' \in [Client -> Window] /\ gui'[c] = g
      /\ \A d \in Client \ {c} : gui'[d] = gui[d]
  BY SetIs DEF Typed
<1>2. ASSUME NEW d \in Client \ {c} PROVE Unread(d)' = Unread(d)
  <2>1. gui[d].pipe \in Pipe \cup {None}
    BY DEF Typed, Window
  <2>2. gui[d].pipe # None => gui[d].pipe # gui[c].pipe
    BY DEF OneClient
  <2> QED
    BY <1>1, <2>1, <2>2 DEF Unread
<1>3. \A i : UpTo(i)' = UpTo(i)
  BY DEF UpTo, WrittenTo
<1>4. InOrder'
  BY <1>1, <1>2 DEF InOrder
<1>5. NotAhead'
  <2>1. ASSUME NEW d \in Client
        PROVE  /\ AtMost(gui'[d], last)
               /\ \A k \in DOMAIN Unread(d)' : Unread(d)'[k] <= last
               /\ \A i \in DOMAIN clients :
                    clients[i] = gui'[d].pipe => AtMost(gui'[d], UpTo(i))
    <3>1. CASE d = c
      BY <1>1, <3>1
    <3>2. CASE d # c
      BY <1>1, <1>2, <3>2 DEF NotAhead
    <3> QED
      BY <3>1, <3>2
  <2> QED
    BY <1>3, <2>1 DEF NotAhead
<1>6. Shown'
  BY <1>1 DEF Shown
<1> QED
  BY <1>3, <1>4, <1>5, <1>6

(* A step of one client that leaves the pipes alone. *)
LEMMA WindowKept ==
  ASSUME Inv, NEW c \in Client, NEW g \in Window, Set(c, g),
         UNCHANGED <<agent, sent, serve, accept, buf, seen, failed>>,
         starts' \in 0 .. MaxStarts,
         g.pipe = gui[c].pipe, g.running,
         Len(g.detections) <= MaxShown, Len(g.pending) <= MaxShown,
         Shows(g), Ordered(g, Unread(c)), \A n : AtMost(gui[c], n) => AtMost(g, n)
  PROVE  Inv'
<1> USE DEF Inv
<1>1. /\ gui' \in [Client -> Window] /\ gui'[c] = g
      /\ \A d \in Client \ {c} : gui'[d] = gui[d]
  BY SetIs DEF Typed
<1>2. /\ agent' = agent /\ sent' = sent /\ last' = last /\ clients' = clients
      /\ seen' = seen /\ failed' = failed
      /\ listening' = listening /\ opened' = opened /\ accepted' = accepted
      /\ server' = server /\ buf' = buf
  BY DEF serve, accept
<1>3. \A q : ClientEnd(q)' <=> ClientEnd(q)
  BY <1>1, SamePipes
<1>4. Typed'
  BY <1>1, <1>2 DEF Typed
<1>5. HandlesApart' /\ Round'
  BY <1>2 DEF HandlesApart, Round
<1>6. OneClient'
  <2>1. \A d, e \in Client :
          gui'[d].pipe # None /\ gui'[d].pipe = gui'[e].pipe => d = e
    BY <1>1 DEF OneClient
  <2>2. listening # None /\ ~opened => ~ClientEnd(listening)'
    BY <1>2, <1>3 DEF OneClient, ClientEnd
  <2>3. \A d \in Client : ~gui'[d].running => gui'[d] = Stopped
    BY <1>1 DEF OneClient
  <2> QED
    BY <1>2, <1>3, <2>1, <2>2, <2>3 DEF OneClient
<1>7. Unread(c)' = Unread(c)
  BY <1>1, <1>2 DEF Unread
<1>8. InOrder' /\ NotAhead' /\ Shown' /\ \A i : UpTo(i)' = UpTo(i)
  <2>1. /\ AtMost(g, last)
        /\ \A k \in DOMAIN Unread(c)' : Unread(c)'[k] <= last
        /\ \A i \in DOMAIN clients : clients[i] = g.pipe => AtMost(g, UpTo(i))
    BY <1>7 DEF NotAhead
  <2>2. \A q \in Pipe : q # gui[c].pipe => buf'[q] = buf[q]
    BY <1>2
  <2>3. Ordered(g, Unread(c)')
    BY <1>7
  <2> QED
    BY <1>2, <2>1, <2>2, <2>3, SetKept
<1>9. Served'
  BY <1>2, <1>3, <1>8, SameServed
<1> QED
  BY <1>4, <1>5, <1>6, <1>8, <1>9

(* A client starts. *)
LEMMA StartKept ==
  ASSUME Inv, NEW c \in Client, Start(c)
  PROVE  Inv'
<1> DEFINE g == [Stopped EXCEPT !.running = TRUE]
<1>1. gui[c] = Stopped
  BY DEF Inv, OneClient, Start
<1>2. /\ g \in Window /\ g.running /\ g.pipe = gui[c].pipe /\ g.pipe = None
      /\ Len(g.detections) <= MaxShown /\ Len(g.pending) <= MaxShown
      /\ g.chan = <<>> /\ g.got = {}
  <2>1. Len(<<>>) = 0
    OBVIOUS
  <2> QED
    BY <1>1, <2>1, StoppedIs, Bounds
<1>3. Shows(g)
  BY StoppedShows
<1>4. Set(c, g) /\ UNCHANGED <<agent, sent, serve, accept, buf, seen, failed>>
  BY DEF Start
<1>5. starts' \in 0 .. MaxStarts
  BY Bounds DEF Inv, Typed, Start
<1> HIDE DEF g
<1>6. Unread(c) = <<>>
  BY <1>2 DEF Unread
<1>7. Ordered(g, Unread(c)) /\ \A n : AtMost(g, n)
  BY <1>2, <1>6, NothingOrdered
<1> QED
  BY <1>2, <1>3, <1>4, <1>5, <1>7, WindowKept

(* A tick. *)
LEMMA TickKept ==
  ASSUME Inv, NEW c \in Client, Tick(c)
  PROVE  Inv'
<1> DEFINE g == Handled([gui[c] EXCEPT !.chan = Tail(@)], Head(gui[c].chan))
<1>1. /\ Set(c, g) /\ UNCHANGED <<agent, sent, serve, accept, buf, seen, failed>>
      /\ gui[c].chan # <<>> /\ starts' = starts
  BY DEF Tick
<1>2. /\ gui[c] \in Window /\ starts \in 0 .. MaxStarts /\ Ordered(gui[c], Unread(c))
      /\ Shows(gui[c]) /\ Len(gui[c].detections) <= MaxShown
      /\ Len(gui[c].pending) <= MaxShown
  BY DEF Inv, Typed, InOrder, Shown
<1>3. gui[c].running
  BY <1>1, StoppedIs DEF Inv, OneClient
<1>4. /\ g \in Window /\ g.pipe = gui[c].pipe /\ g.running = gui[c].running
      /\ Len(g.detections) <= MaxShown /\ Len(g.pending) <= MaxShown
      /\ Shows(g) /\ Ordered(g, Unread(c))
      /\ \A n : AtMost(gui[c], n) => AtMost(g, n)
  BY <1>1, <1>2, HandledIs
<1> HIDE DEF g
<1> QED
  BY <1>1, <1>2, <1>3, <1>4, WindowKept

(* A client the user has paused. *)
Paused(g) == [g EXCEPT !.paused = TRUE]

(* Pausing changes nothing else of a client. *)
LEMMA PausedIs ==
  ASSUME NEW g \in Window, Shows(g), NEW h, h = Paused(g)
  PROVE  /\ h \in Window /\ h.pipe = g.pipe /\ h.running = g.running
         /\ h.detections = g.detections /\ h.pending = g.pending
         /\ Shows(h) /\ \A data : Ordered(g, data) => Ordered(h, data)
         /\ \A n : AtMost(g, n) => AtMost(h, n)
<1>1. /\ h \in Window /\ h.pipe = g.pipe /\ h.running = g.running /\ h.got = g.got
      /\ h.detections = g.detections /\ h.pending = g.pending /\ h.chan = g.chan
      /\ h.paused
  BY DEF Window, Paused
<1> QED
  BY <1>1 DEF Shows, Ordered, AtMost

(* Pausing changes nothing that is shown. *)
LEMMA PauseKept ==
  ASSUME Inv, NEW c \in Client, gui[c].running, Set(c, [gui[c] EXCEPT !.paused = TRUE]),
         UNCHANGED <<agent, sent, serve, accept, buf, seen, failed, starts>>
  PROVE  Inv'
<1> DEFINE g == Paused(gui[c])
<1>1. /\ gui[c] \in Window /\ starts' \in 0 .. MaxStarts /\ Ordered(gui[c], Unread(c))
      /\ Shows(gui[c]) /\ Len(gui[c].detections) <= MaxShown
      /\ Len(gui[c].pending) <= MaxShown
  BY DEF Inv, Typed, InOrder, Shown
<1>2. /\ g \in Window /\ g.pipe = gui[c].pipe /\ g.running = gui[c].running
      /\ g.detections = gui[c].detections /\ g.pending = gui[c].pending
      /\ Shows(g) /\ Ordered(g, Unread(c))
      /\ \A n : AtMost(gui[c], n) => AtMost(g, n)
  BY <1>1, PausedIs
<1>3. Set(c, g) /\ UNCHANGED <<agent, sent, serve, accept, buf, seen, failed>>
  BY DEF Paused
<1> HIDE DEF g
<1> QED
  BY <1>1, <1>2, <1>3, WindowKept

(* When the user goes on, what was held back is merged. *)
LEMMA TogglePauseKept ==
  ASSUME Inv, NEW c \in Client, TogglePause(c)
  PROVE  Inv'
<1>1. CASE ~gui[c].paused
  BY <1>1, PauseKept DEF TogglePause
<1>2. CASE gui[c].paused
  <2> DEFINE g == [gui[c] EXCEPT !.paused = FALSE, !.pending = <<>>,
                                 !.detections = Merged(gui[c].pending, @)]
  <2>1. /\ Set(c, g) /\ UNCHANGED <<agent, sent, serve, accept, buf, seen, failed>>
        /\ gui[c].running
    BY <1>2 DEF TogglePause
  <2>2. /\ gui[c] \in Window /\ starts' \in 0 .. MaxStarts /\ Ordered(gui[c], Unread(c))
        /\ Shows(gui[c])
    BY DEF Inv, Typed, InOrder, Shown, TogglePause
  <2> DEFINE m == Merged(gui[c].pending, gui[c].detections)
  <2>3. m \in Seq(Event) /\ Len(m) <= MaxShown
    <3>1. gui[c].pending \in Seq(Event) /\ gui[c].detections \in Seq(Event)
      BY <2>2 DEF Window
    <3>2. gui[c].pending \o gui[c].detections \in Seq(Event)
      BY <3>1, ConcatProperties
    <3> QED
      BY <3>2, TrimIs, Bounds DEF Merged
  <2>4. Trim(<<>> \o m) = Newest(gui[c].got)
    BY <2>2, MergedShows
  <2> HIDE DEF m
  <2>5. g = [gui[c] EXCEPT !.paused = FALSE, !.pending = <<>>, !.detections = m]
    BY <2>2 DEF Window, m
  <2>6. <<>> \in Seq(Event) /\ Len(<<>>) = 0 /\ MaxShown \in Nat
    BY Bounds
  <2> HIDE DEF g
  <2>7. /\ g \in Window /\ g.pipe = gui[c].pipe /\ g.running = gui[c].running
        /\ g.detections = m /\ g.pending = <<>> /\ g.chan = gui[c].chan
        /\ g.got = gui[c].got
    BY <2>2, <2>3, <2>5, <2>6 DEF Window
  <2>8. Shows(g)
    BY <2>4, <2>7 DEF Shows
  <2>9. Ordered(g, Unread(c)) /\ \A n : AtMost(gui[c], n) => AtMost(g, n)
    BY <2>2, <2>7 DEF Ordered, AtMost
  <2>10. Len(g.detections) <= MaxShown /\ Len(g.pending) <= MaxShown
    BY <2>3, <2>6, <2>7
  <2> QED
    BY <2>1, <2>2, <2>7, <2>8, <2>9, <2>10, WindowKept
<1> QED
  BY <1>1, <1>2

(* Expanding an entry pauses. *)
LEMMA ExpandKept ==
  ASSUME Inv, NEW c \in Client, Expand(c)
  PROVE  Inv'
<1>1. gui[c].running
  BY StoppedIs DEF Inv, OneClient, Expand
<1> QED
  BY <1>1, PauseKept DEF Expand

(* CreateFileW opens the instance that is listened on. *)
LEMMA ConnectKept ==
  ASSUME Inv, NEW c \in Client, Connect(c)
  PROVE  Inv'
<1> USE DEF Inv
<1> DEFINE g == [gui[c] EXCEPT !.pipe = listening,
                               !.chan = Append(@, [of |-> "Connected"])]
<1>1. /\ Set(c, g) /\ gui[c].running /\ gui[c].pipe = None /\ listening # None
      /\ opened = FALSE /\ opened' = TRUE
      /\ agent' = agent /\ sent' = sent /\ last' = last /\ clients' = clients
      /\ seen' = seen /\ failed' = failed
      /\ listening' = listening /\ accepted' = accepted /\ server' = server /\ buf' = buf
      /\ starts' = starts
  BY DEF Connect, serve, Typed
<1>2. /\ gui[c] \in Window /\ listening \in Pipe /\ Ordered(gui[c], Unread(c))
      /\ Shows(gui[c]) /\ Len(gui[c].detections) <= MaxShown
      /\ Len(gui[c].pending) <= MaxShown
  BY <1>1 DEF Typed, InOrder, Shown
<1>3. /\ g \in Window /\ g.pipe = listening /\ g.running = gui[c].running
      /\ g.detections = gui[c].detections /\ g.pending = gui[c].pending
      /\ Shows(g)
      /\ \A data : Ordered(gui[c], data) => Ordered(g, data)
      /\ \A n : AtMost(gui[c], n) => AtMost(g, n)
  <2>1. ~IsNews([of |-> "Connected"])
    BY DEF IsNews
  <2>2. [of |-> "Connected"] \in Item
    BY ItemIs
  <2>3. listening \in Pipe \cup {None}
    BY <1>2
  <2>4. g = Handed(gui[c], listening, [of |-> "Connected"])
    BY DEF Handed
  <2> HIDE DEF IsNews, g
  <2> QED
    BY <1>2, <2>1, <2>2, <2>3, <2>4, NoNews
<1> HIDE DEF g
<1>4. /\ gui' \in [Client -> Window] /\ gui'[c] = g
      /\ \A d \in Client \ {c} : gui'[d] = gui[d]
  BY <1>1, <1>3, SetIs DEF Typed
<1>5. \A q \in Pipe : ClientEnd(q)' <=> q = listening \/ ClientEnd(q)
  BY <1>1, <1>3, ClientEndIs, Bounds
<1>6. ~ClientEnd(listening) /\ buf[listening] = <<>>
  BY <1>1 DEF OneClient
<1>7. Typed'
  BY <1>1, <1>2, <1>3, <1>4 DEF Typed
<1>8. HandlesApart' /\ Round'
  BY <1>1 DEF HandlesApart, Round
<1>9. OneClient'
  <2>1. \A d, e \in Client :
          gui'[d].pipe # None /\ gui'[d].pipe = gui'[e].pipe => d = e
    BY <1>3, <1>4, <1>6 DEF OneClient, ClientEnd
  <2>2. \A d \in Client : ~gui'[d].running => gui'[d] = Stopped
    BY <1>1, <1>3, <1>4 DEF OneClient
  <2>3. \A q \in Pipe : ~ClientEnd(q)' => buf'[q] = <<>>
    BY <1>1, <1>5 DEF OneClient
  <2> QED
    BY <1>1, <2>1, <2>2, <2>3 DEF OneClient
<1>10. Unread(c) = <<>> /\ Unread(c)' = <<>>
  BY <1>1, <1>3, <1>4, <1>6 DEF Unread
<1>11. InOrder' /\ NotAhead' /\ Shown' /\ \A i : UpTo(i)' = UpTo(i)
  <2>1. Ordered(g, Unread(c)') /\ AtMost(g, last)
    BY <1>2, <1>3, <1>10 DEF NotAhead
  <2>2. \A k \in DOMAIN Unread(c)' : Unread(c)'[k] <= last
    BY <1>10
  <2>3. \A i \in DOMAIN clients : clients[i] = g.pipe => AtMost(g, UpTo(i))
    BY <1>1, <1>3 DEF HandlesApart
  <2> QED
    BY <1>1, <1>3, <2>1, <2>2, <2>3, SetKept
<1>12. Served'
  <2>1. \A i \in DOMAIN clients : clients[i] \in Pipe /\ clients[i] # listening
    BY <1>1, Lists DEF HandlesApart
  <2>2. \A i \in DOMAIN clients : ClientEnd(clients[i])' => ClientEnd(clients[i])
    BY <1>1, <1>3, <1>4, <2>1, Bounds DEF ClientEnd
  <2> QED
    BY <1>1, <1>11, <2>2, SameServed
<1> QED
  BY <1>7, <1>8, <1>9, <1>11, <1>12

(* ReadFile fails: the pipe is empty and no server is behind it. *)
LEMMA BrokenKept ==
  ASSUME Inv, NEW c \in Client, Broken(c)
  PROVE  Inv'
<1> USE DEF Inv
<1> DEFINE g == [gui[c] EXCEPT !.pipe = None, !.chan = Append(@, [of |-> "Disconnected"])]
           p == gui[c].pipe
<1>1. /\ Set(c, g) /\ p # None /\ buf[p] = <<>> /\ ~ServerEnd(p)
      /\ agent' = agent /\ sent' = sent /\ last' = last /\ clients' = clients
      /\ seen' = seen /\ failed' = failed
      /\ listening' = listening /\ accepted' = accepted /\ server' = server /\ buf' = buf
      /\ opened' = opened /\ starts' = starts
  BY DEF Broken, serve, accept
<1>2. /\ gui[c] \in Window /\ p \in Pipe /\ Ordered(gui[c], Unread(c)) /\ gui[c].running
      /\ Shows(gui[c]) /\ Len(gui[c].detections) <= MaxShown
      /\ Len(gui[c].pending) <= MaxShown
  BY <1>1, StoppedIs DEF Typed, Window, InOrder, Shown, OneClient
<1>3. /\ g \in Window /\ g.pipe = None /\ g.running = gui[c].running
      /\ g.detections = gui[c].detections /\ g.pending = gui[c].pending
      /\ Shows(g)
      /\ \A data : Ordered(gui[c], data) => Ordered(g, data)
      /\ \A n : AtMost(gui[c], n) => AtMost(g, n)
  <2> DEFINE x == [of |-> "Disconnected"]
  <2>1. ~IsNews(x) /\ x \in Item
    BY ItemIs DEF IsNews
  <2>2. gui[c] \in Window /\ Shows(gui[c])
    BY <1>2
  <2>3. None \in Pipe \cup {None}
    OBVIOUS
  <2>4. g = Handed(gui[c], None, x)
    BY DEF Handed
  <2> HIDE DEF IsNews, g, x, p
  <2> QED
    BY <2>1, <2>2, <2>3, <2>4, NoNews
<1> HIDE DEF g, p
<1>4. /\ gui' \in [Client -> Window] /\ gui'[c] = g
      /\ \A d \in Client \ {c} : gui'[d] = gui[d]
  BY <1>1, <1>3, SetIs DEF Typed
<1>5. \A q \in Pipe : ClientEnd(q)' <=> ClientEnd(q) /\ q # p
  BY <1>1, <1>3, ClientEndIs, Bounds DEF p
<1>6. Typed'
  BY <1>1, <1>2, <1>3, <1>4 DEF Typed
<1>7. HandlesApart' /\ Round'
  BY <1>1 DEF HandlesApart, Round
<1>8. OneClient'
  <2>1. \A d, e \in Client :
          gui'[d].pipe # None /\ gui'[d].pipe = gui'[e].pipe => d = e
    BY <1>3, <1>4 DEF OneClient
  <2>2. \A d \in Client : ~gui'[d].running => gui'[d] = Stopped
    BY <1>2, <1>3, <1>4 DEF OneClient
  <2>3. \A q \in Pipe : ~ClientEnd(q)' => buf'[q] = <<>>
    BY <1>1, <1>5 DEF OneClient
  <2>4. listening # None /\ ~opened => ~ClientEnd(listening)'
    <3>1. listening # None /\ ~opened => listening \in Pipe /\ ~ClientEnd(listening)
      BY DEF Typed, OneClient
    <3>2. ASSUME listening \in Pipe, ~ClientEnd(listening) PROVE ~ClientEnd(listening)'
      <4>1. \A d \in Client : gui[d].pipe # listening
        BY <3>2 DEF ClientEnd
      <4>2. \A d \in Client : gui'[d].pipe # listening
        BY <1>3, <1>4, <3>2, <4>1, Bounds
      <4> QED
        BY <1>1, <4>2 DEF ClientEnd
    <3> QED
      BY <3>1, <3>2
  <2> QED
    BY <1>1, <2>1, <2>2, <2>3, <2>4 DEF OneClient
<1>9. Unread(c) = <<>> /\ Unread(c)' = <<>>
  BY <1>1, <1>3, <1>4 DEF Unread, p
<1>10. InOrder' /\ NotAhead' /\ Shown' /\ \A i : UpTo(i)' = UpTo(i)
  <2>1. Ordered(g, Unread(c)') /\ AtMost(g, last)
    BY <1>2, <1>3, <1>9 DEF NotAhead
  <2>2. \A k \in DOMAIN Unread(c)' : Unread(c)'[k] <= last
    BY <1>9
  <2>3. \A i \in DOMAIN clients : clients[i] = g.pipe => AtMost(g, UpTo(i))
    BY <1>3, Bounds, Lists
  <2> QED
    BY <1>1, <1>3, <2>1, <2>2, <2>3, SetKept
<1>11. Served'
  <2>1. \A i \in DOMAIN clients : clients[i] \in Pipe /\ clients[i] # p
    BY <1>1, Lists, ServerEndIs
  <2>2. \A i \in DOMAIN clients : ClientEnd(clients[i])' => ClientEnd(clients[i])
    BY <1>1, <1>3, <1>4, <2>1, Bounds DEF ClientEnd
  <2> QED
    BY <1>1, <1>10, <2>2, SameServed
<1> QED
  BY <1>6, <1>7, <1>8, <1>10, <1>11

(* The end of a client leaves nothing in its pipe. *)
LEMMA QuitKept ==
  ASSUME Inv, NEW c \in Client, Quit(c)
  PROVE  Inv'
<1> USE DEF Inv
<1> DEFINE p == gui[c].pipe
<1>1. /\ Set(c, Stopped) /\ buf' = [q \in Pipe |-> IF q = p THEN <<>> ELSE buf[q]]
      /\ agent' = agent /\ sent' = sent /\ last' = last /\ clients' = clients
      /\ seen' = seen /\ failed' = failed
      /\ listening' = listening /\ accepted' = accepted /\ server' = server
      /\ opened' = opened /\ starts' = starts
  BY DEF Quit, serve, accept
<1>2. /\ Stopped \in Window /\ Stopped.pipe = None /\ Stopped.chan = <<>>
      /\ Stopped.got = {}
      /\ Stopped.detections = <<>> /\ Stopped.pending = <<>> /\ ~Stopped.running
      /\ Shows(Stopped)
  BY StoppedIs, StoppedShows
<1>3. Ordered(Stopped, <<>>) /\ \A n : AtMost(Stopped, n)
  BY <1>2, NothingOrdered
<1>4. /\ gui' \in [Client -> Window] /\ gui'[c] = Stopped
      /\ \A d \in Client \ {c} : gui'[d] = gui[d]
  BY <1>1, <1>2, SetIs DEF Typed
<1>5. \A q \in Pipe : ClientEnd(q)' <=> ClientEnd(q) /\ q # p
  BY <1>1, <1>2, ClientEndIs, Bounds
<1> HIDE DEF p
<1>6. /\ buf' \in [Pipe -> Seq(Event)] /\ \A q \in Pipe : Len(buf'[q]) <= Size
      /\ \A q \in Pipe : q # p => buf'[q] = buf[q]
      /\ \A q \in Pipe : q = p \/ buf[q] = <<>> => buf'[q] = <<>>
  <2>1. <<>> \in Seq(Event) /\ Len(<<>>) <= Size
    BY Bounds
  <2> QED
    BY <1>1, <2>1 DEF Typed
<1>7. Typed'
  <2>1. Len(<<>>) <= MaxShown
    BY Bounds
  <2> QED
    BY <1>1, <1>2, <1>4, <1>6, <2>1 DEF Typed
<1>8. HandlesApart' /\ Round'
  BY <1>1 DEF HandlesApart, Round
<1>9. OneClient'
  <2>1. \A d, e \in Client : gui'[d].pipe # None /\ gui'[d].pipe = gui'[e].pipe => d = e
    BY <1>2, <1>4 DEF OneClient
  <2>2. \A d \in Client : ~gui'[d].running => gui'[d] = Stopped
    BY <1>4 DEF OneClient
  <2>3. \A q \in Pipe : ~ClientEnd(q)' => buf'[q] = <<>>
    BY <1>5, <1>6 DEF OneClient
  <2>4. listening # None /\ ~opened => ~ClientEnd(listening)'
    <3>1. listening # None /\ ~opened => listening \in Pipe /\ ~ClientEnd(listening)
      BY DEF Typed, OneClient
    <3>2. ASSUME listening \in Pipe, ~ClientEnd(listening) PROVE ~ClientEnd(listening)'
      <4>1. \A d \in Client : gui[d].pipe # listening
        BY <3>2 DEF ClientEnd
      <4>2. \A d \in Client : gui'[d].pipe # listening
        BY <1>2, <1>4, <3>2, <4>1, Bounds
      <4> QED
        BY <1>1, <4>2 DEF ClientEnd
    <3> QED
      BY <3>1, <3>2
  <2>5. listening # None => buf'[listening] = <<>>
    BY <1>6 DEF Typed, OneClient
  <2>6. \A i \in DOMAIN accepted : buf'[accepted[i]] = <<>>
    BY <1>6, Lists DEF OneClient
  <2> QED
    BY <1>1, <2>1, <2>2, <2>3, <2>4, <2>5, <2>6 DEF OneClient
<1>10. Unread(c)' = <<>>
  BY <1>2, <1>4 DEF Unread
<1>11. InOrder' /\ NotAhead' /\ Shown' /\ \A i : UpTo(i)' = UpTo(i)
  BY <1>1, <1>2, <1>3, <1>6, <1>10, SetKept DEF p
<1>12. Served'
  <2>1. \A i \in DOMAIN clients : clients[i] \in Pipe
    BY Lists
  <2> QED
    BY <1>1, <1>5, <1>6, <1>11, <2>1, SameServed
<1> QED
  BY <1>7, <1>8, <1>9, <1>11, <1>12

(* ReadFile takes all that is in the pipe: what it read last is the last that was
   written. *)
LEMMA ReadKept ==
  ASSUME Inv, NEW c \in Client, Read(c)
  PROVE  Inv'
<1> USE DEF Inv
<1>1. PICK p, data : p = gui[c].pipe /\ data = buf[p]
  OBVIOUS
<1> DEFINE g == Fed(gui[c], data)
           n == IF ServerEnd(p) THEN Last(data) ELSE 0
<1>2. /\ p # None /\ data # <<>> /\ Set(c, g)
      /\ buf' = [buf EXCEPT ![p] = <<>>] /\ seen' = [seen EXCEPT ![p] = n]
      /\ failed' = failed
      /\ agent' = agent /\ sent' = sent /\ last' = last /\ clients' = clients
      /\ listening' = listening /\ accepted' = accepted /\ server' = server
      /\ opened' = opened /\ starts' = starts
  BY <1>1 DEF Read, Fed, serve, accept
<1>3. /\ gui[c] \in Window /\ p \in Pipe /\ data \in Seq(Event) /\ Ordered(gui[c], data)
      /\ gui[c].running /\ Shows(gui[c])
      /\ Len(gui[c].detections) <= MaxShown /\ Len(gui[c].pending) <= MaxShown
  <2>1. gui[c] \in Window /\ p \in Pipe
    BY <1>1, <1>2 DEF Typed, Window
  <2>2. data \in Seq(Event)
    BY <1>1, <2>1 DEF Typed
  <2>3. Ordered(gui[c], data)
    BY <1>1, <1>2 DEF InOrder, Unread
  <2>4. gui[c].running
    BY <1>1, <1>2, StoppedIs DEF OneClient
  <2> QED
    BY <2>1, <2>2, <2>3, <2>4 DEF Typed, Shown
<1>4. /\ g \in Window /\ g.pipe = p /\ g.running
      /\ g.detections = gui[c].detections /\ g.pending = gui[c].pending
      /\ Shows(g) /\ Ordered(g, <<>>)
      /\ \A m : AtMost(gui[c], m) /\ (\A k \in DOMAIN data : data[k] <= m) => AtMost(g, m)
  <2> HIDE DEF g
  <2>1. g = Fed(gui[c], data)
    BY DEF g
  <2> QED
    BY <1>1, <1>3, <2>1, ReadIs
<1>5. /\ Len(data) \in Nat \ {0} /\ DOMAIN data = 1 .. Len(data)
      /\ Len(data) \in DOMAIN data
      /\ Last(data) = data[Len(data)] /\ Last(data) \in Event
  BY <1>2, <1>3, LenProperties, EmptySeq, ElementOfSeq DEF Last
<1>6. n \in 0 .. MaxEvents
  BY <1>5, Bounds
<1> HIDE DEF g, n
<1>7. /\ gui' \in [Client -> Window] /\ gui'[c] = g
      /\ \A d \in Client \ {c} : gui'[d] = gui[d]
  BY <1>2, <1>4, SetIs DEF Typed
<1>8. \A q : ClientEnd(q)' <=> ClientEnd(q)
  BY <1>1, <1>4, <1>7, SamePipes
<1>9. /\ buf' \in [Pipe -> Seq(Event)] /\ \A q \in Pipe : Len(buf'[q]) <= Size
      /\ buf'[p] = <<>> /\ \A q \in Pipe \ {p} : buf'[q] = buf[q]
      /\ seen' \in [Pipe -> 0 .. MaxEvents] /\ seen'[p] = n
      /\ \A q \in Pipe \ {p} : seen'[q] = seen[q]
  <2>1. <<>> \in Seq(Event) /\ Len(<<>>) <= Size
    BY Bounds
  <2>2. /\ buf \in [Pipe -> Seq(Event)] /\ \A q \in Pipe : Len(buf[q]) <= Size
        /\ seen \in [Pipe -> 0 .. MaxEvents]
    BY DEF Typed
  <2>3. /\ buf' \in [Pipe -> Seq(Event)] /\ buf'[p] = <<>>
        /\ \A q \in Pipe \ {p} : buf'[q] = buf[q]
    BY <1>2, <1>3, <2>1, <2>2
  <2>4. \A q \in Pipe : Len(buf'[q]) <= Size
    BY <2>1, <2>2, <2>3
  <2>5. /\ seen' \in [Pipe -> 0 .. MaxEvents] /\ seen'[p] = n
        /\ \A q \in Pipe \ {p} : seen'[q] = seen[q]
    BY <1>2, <1>3, <1>6, <2>2
  <2> HIDE DEF Inv
  <2> QED
    BY <2>3, <2>4, <2>5, Zenon
<1>10. Typed'
  <2>1. \A d \in Client :
          Len(gui'[d].detections) <= MaxShown /\ Len(gui'[d].pending) <= MaxShown
    <3> TAKE d \in Client
    <3>1. CASE d = c
      BY <1>3, <1>4, <1>7, <3>1
    <3>2. CASE d # c
      BY <1>7, <3>2 DEF Typed
    <3> QED
      BY <3>1, <3>2
  <2> QED
    BY <1>2, <1>7, <1>9, <2>1 DEF Typed
<1>11. HandlesApart' /\ Round'
  BY <1>2 DEF HandlesApart, Round
<1>12. OneClient'
  <2>1. \A d, e \in Client : gui'[d].pipe # None /\ gui'[d].pipe = gui'[e].pipe => d = e
    BY <1>1, <1>4, <1>7 DEF OneClient
  <2>2. \A d \in Client : ~gui'[d].running => gui'[d] = Stopped
    BY <1>4, <1>7 DEF OneClient
  <2>3. \A q \in Pipe : buf[q] = <<>> => buf'[q] = <<>>
    BY <1>9
  <2>4. listening # None /\ ~opened => ~ClientEnd(listening)'
    BY <1>1, <1>2, <1>4, <1>7 DEF OneClient, ClientEnd
  <2>5. listening # None => buf'[listening] = <<>>
    BY <2>3 DEF Typed, OneClient
  <2>6. \A i \in DOMAIN accepted : buf'[accepted[i]] = <<>>
    BY <2>3, Lists DEF OneClient
  <2>7. \A q \in Pipe : ~ClientEnd(q)' => buf'[q] = <<>>
    BY <1>8, <2>3 DEF OneClient
  <2> QED
    BY <1>2, <2>1, <2>2, <2>4, <2>5, <2>6, <2>7 DEF OneClient
<1>13. ASSUME NEW i \in DOMAIN clients, clients[i] = p
       PROVE  /\ UpTo(i) \in Nat
              /\ \A k \in DOMAIN data : data[k] <= UpTo(i)
              /\ Due(<<>>, n, UpTo(i), failed[p])
  <2>1. UpTo(i) \in Nat
    BY UpToIs
  <2>2. seen[p] \in Nat /\ Due(data, seen[p], UpTo(i), failed[p])
    <3>1. ClientEnd(p)
      BY <1>1 DEF ClientEnd
    <3> QED
      BY <1>1, <1>3, <1>13, <3>1, Bounds DEF Typed, Served
  <2>3. data \in Seq(Nat)
    BY <1>3, EventSeq
  <2>4. /\ \A k \in DOMAIN data : data[k] <= UpTo(i)
        /\ Due(<<>>, data[Len(data)], UpTo(i), failed[p])
    BY <1>5, <2>1, <2>2, <2>3, AllDueRead
  <2>5. ServerEnd(p)
    BY <1>13, ServerEndIs
  <2>6. n = data[Len(data)]
    BY <1>5, <2>5 DEF n
  <2> QED
    BY <2>1, <2>4, <2>6
<1>14. Unread(c) = data /\ Unread(c)' = <<>>
  BY <1>1, <1>2, <1>4, <1>7, <1>9 DEF Unread
<1>15. InOrder' /\ NotAhead' /\ Shown' /\ \A i : UpTo(i)' = UpTo(i)
  <2>1. AtMost(g, last)
    BY <1>4, <1>14 DEF NotAhead
  <2>2. \A k \in DOMAIN Unread(c)' : Unread(c)'[k] <= last
    BY <1>14
  <2>3. \A i \in DOMAIN clients : clients[i] = g.pipe => AtMost(g, UpTo(i))
    BY <1>1, <1>4, <1>13 DEF NotAhead
  <2>4. Ordered(g, Unread(c)')
    BY <1>4, <1>14
  <2>5. \A q \in Pipe : q # gui[c].pipe => buf'[q] = buf[q]
    BY <1>1, <1>9
  <2> QED
    BY <1>2, <1>4, <2>1, <2>2, <2>3, <2>4, <2>5, SetKept
<1>16. Served'
  <2> SUFFICES ASSUME NEW i \in DOMAIN clients, ClientEnd(clients[i])
               PROVE  Due(buf'[clients[i]], seen'[clients[i]], UpTo(i), failed[clients[i]])
    BY <1>2, <1>8, <1>15 DEF Served
  <2>1. clients[i] \in Pipe
    BY Lists
  <2>2. CASE clients[i] = p
    <3>1. Due(<<>>, n, UpTo(i), failed[p])
      BY <1>13, <2>2
    <3> QED
      BY <1>9, <2>2, <3>1
  <2>3. CASE clients[i] # p
    BY <1>9, <2>1, <2>3 DEF Served
  <2> QED
    BY <2>2, <2>3
<1> QED
  BY <1>10, <1>11, <1>12, <1>15, <1>16

-----------------------------------------------------------------------------
(* The theorems. *)

(* The invariant holds initially. *)
LEMMA Initially ==
  ASSUME Init
  PROVE  Inv
<1> USE DEF Init
<1>1. \A c \in Client : gui[c] = Stopped
  OBVIOUS
<1>2. /\ Stopped \in Window /\ Stopped.pipe = None /\ Stopped.chan = <<>>
      /\ Stopped.got = {}
      /\ Stopped.detections = <<>> /\ Stopped.pending = <<>> /\ ~Stopped.running
      /\ Shows(Stopped)
  BY StoppedIs, StoppedShows
<1>3. Ordered(Stopped, <<>>) /\ \A n : AtMost(Stopped, n)
  BY <1>2, NothingOrdered
<1>4. /\ <<>> \in Seq(Pipe) /\ <<>> \in Seq(Nat) /\ <<>> \in Seq(Event) /\ Len(<<>>) = 0
      /\ DOMAIN <<>> = {}
  OBVIOUS
<1>5. Typed
  <2>1. Top \in Loop
    BY <1>4 DEF Top, Loop
  <2>2. /\ 0 \in 0 .. MaxEvents /\ 0 \in 0 .. 0 /\ 0 \in 0 .. MaxStarts /\ 0 <= MaxShown
        /\ 0 <= Size
    BY Bounds
  <2>3. /\ buf \in [Pipe -> Seq(Event)] /\ \A p \in Pipe : Len(buf[p]) <= Size
        /\ seen \in [Pipe -> 0 .. MaxEvents] /\ failed \in [Pipe -> SUBSET Event]
    BY <1>4, <2>2
  <2>4. /\ gui \in [Client -> Window]
        /\ \A c \in Client :
             Len(gui[c].detections) <= MaxShown /\ Len(gui[c].pending) <= MaxShown
    BY <1>1, <1>2, <1>4, <2>2
  <2> QED
    BY <1>4, <2>1, <2>2, <2>3, <2>4 DEF Typed
<1>6. HandlesApart /\ Round /\ Served
  BY <1>4 DEF HandlesApart, Distinct, Round, Top, Served
<1>7. OneClient
  BY <1>1, <1>2, <1>4 DEF OneClient
<1>8. InOrder /\ NotAhead /\ Shown
  BY <1>1, <1>2, <1>3, <1>4 DEF InOrder, NotAhead, Shown, Unread
<1> QED
  BY <1>5, <1>6, <1>7, <1>8 DEF Inv

(* It does not depend on anything else. *)
LEMMA Unmoved ==
  ASSUME Inv, UNCHANGED vars
  PROVE  Inv'
<1> USE DEF vars, serve, accept
<1>1. \A q : ClientEnd(q)' <=> ClientEnd(q)
  BY SamePipes
<1>2. Typed' /\ HandlesApart' /\ Round'
  BY DEF Inv, Typed, HandlesApart, Round
<1>3. OneClient' /\ Served'
  BY <1>1 DEF Inv, OneClient, Served, UpTo, WrittenTo, ClientEnd
<1>4. InOrder' /\ NotAhead' /\ Shown'
  BY DEF Inv, InOrder, NotAhead, Shown, Unread, UpTo, WrittenTo
<1> QED
  BY <1>2, <1>3, <1>4 DEF Inv

(* Every step keeps it. *)
LEMMA Kept ==
  ASSUME Inv, [Next]_vars
  PROVE  Inv'
<1>1. ASSUME NEW c \in Client,
             \/ Start(c) \/ Quit(c) \/ Connect(c) \/ Read(c)
             \/ Broken(c) \/ Tick(c) \/ TogglePause(c) \/ Expand(c)
      PROVE  Inv'
  BY <1>1, StartKept, QuitKept, ConnectKept, ReadKept, BrokenKept, TickKept,
     TogglePauseKept, ExpandKept
<1>2. CASE Listen \/ Accept \/ Detect \/ Register \/ Recv \/ Write
           \/ WriteFails \/ RemoveDead \/ AgentStops \/ AgentStarts
  BY <1>2, ListenKept, AcceptKept, DetectKept, RegisterKept, RecvKept, WriteKept,
     WriteFailsKept, RemoveDeadKept, AgentStopsKept, AgentStartsKept
<1>3. CASE UNCHANGED vars
  BY <1>3, Unmoved
<1> QED
  BY <1>1, <1>2, <1>3 DEF Next

(* So it always holds. *)
LEMMA Invariant == Spec => []Inv
<1>1. Inv /\ [Next]_vars => Inv'
  BY Kept
<1> QED
  BY <1>1, Initially, PTL DEF Spec

(* Type correctness: no pipe holds more than fits into it, no list is longer than
   MAX_DETECTIONS, and the server has at most one handle of each instance, so that
   its index and those of the dead are bounded. *)
THEOREM TypeCorrect == Spec => []TypeOK
<1>1. ASSUME Inv PROVE TypeOK
  <2> USE <1>1 DEF Inv
  <2>1. /\ clients \in Seq(Pipe) /\ Len(clients) \in Nat
        /\ DOMAIN clients = 1 .. Len(clients)
        /\ \A i \in DOMAIN clients : clients[i] \in Pipe
    BY Lists DEF Typed
  <2>2. IsFiniteSet(Pipe) /\ Cardinality(Pipe) = Pipes /\ Pipes \in Nat
    <3>1. Pipes \in Nat /\ 1 \in Int /\ Pipes \in Int /\ 0 < Pipes
      BY ConstantsAssumption DEF ConstantsAssumption
    <3>2. IsFiniteSet(1 .. Pipes) /\ Cardinality(1 .. Pipes) = Pipes - 1 + 1
      BY <3>1, FS_Interval
    <3> QED
      BY <3>1, <3>2 DEF Pipe
  <2>3. Len(clients) <= Pipes
    <3>1. Cardinality(DOMAIN clients) = Len(clients)
      BY <2>1, FS_Interval
    <3>2. clients \in Injection(DOMAIN clients, Pipe)
      <4>1. clients \in [DOMAIN clients -> Pipe]
        BY <2>1, LenProperties
      <4>2. \A i, j \in DOMAIN clients : clients[i] = clients[j] => i = j
        BY DEF HandlesApart, Distinct
      <4> QED
        BY <4>1, <4>2 DEF Injection, IsInjective
    <3>3. Cardinality(DOMAIN clients) <= Cardinality(Pipe)
      BY <2>2, <3>2, FS_Injection
    <3> QED
      BY <2>2, <3>1, <3>3
  <2>4. server \in [at : {"register", "recv", "write"}, idx : 0 .. Pipes + 1,
                    dead : Seq(Pipe)]
    <3>1. /\ server \in Loop /\ server.at \in {"register", "recv", "write"}
          /\ server.dead \in Seq(Nat)
      BY DEF Typed, Loop
    <3>2. CASE server.at = "write"
      <4>1. server.idx \in Nat /\ 1 <= server.idx /\ server.idx <= Len(clients) + 1
        BY <2>1, <3>2 DEF Round
      <4>2. server.idx \in 0 .. Pipes + 1
        BY <2>1, <2>2, <2>3, <4>1
      <4>3. \A k \in DOMAIN server.dead : server.dead[k] \in 1 .. server.idx - 1
        BY <3>2 DEF Round
      <4>4. \A k \in DOMAIN server.dead : server.dead[k] \in Pipe
        <5>1. \A m \in 1 .. server.idx - 1 : m \in 1 .. Pipes
          BY <2>1, <2>2, <2>3, <4>1
        <5> QED
          BY <4>3, <5>1 DEF Pipe
      <4>5. server.dead \in Seq(Pipe)
        <5>1. /\ server.dead \in [1 .. Len(server.dead) -> Nat]
              /\ Len(server.dead) \in Nat
              /\ DOMAIN server.dead = 1 .. Len(server.dead)
          BY <3>1, LenProperties
        <5>2. server.dead \in [1 .. Len(server.dead) -> Pipe]
          BY <4>4, <5>1
        <5> QED
          BY <5>1, <5>2, SeqDef
      <4> QED
        BY <3>1, <4>2, <4>5 DEF Loop
    <3>3. CASE server.at # "write"
      <4>1. server = [at |-> server.at, idx |-> 0, dead |-> <<>>]
        BY <3>1, <3>3 DEF Round, Top
      <4>2. 0 \in 0 .. Pipes + 1 /\ <<>> \in Seq(Pipe)
        BY <2>2
      <4> QED
        BY <3>1, <4>1, <4>2
    <3> QED
      BY <3>2, <3>3
  <2>5. /\ \A p \in Pipe : buf[p] \in Seq(Event) /\ Len(buf[p]) <= Size
        /\ \A c \in Client :
             /\ gui[c].pipe \in Pipe \cup {None}
             /\ gui[c].chan \in Seq(Item)
             /\ Len(gui[c].detections) <= MaxShown /\ Len(gui[c].pending) <= MaxShown
    BY DEF Typed, Window
  <2> QED
    BY <2>4, <2>5 DEF Typed, TypeOK
<1> QED
  BY <1>1, Invariant, PTL

(* What is in the pipe of a client are the detections since the last one it read, or
   since the server took its handle, in order: none is left out but those whose own
   write to this pipe failed, and none is there twice, however many clients come, go
   and fail. *)
THEOREM HandedOn == Spec => []NothingSkipped
<1>1. ASSUME Inv PROVE NothingSkipped
  <2> SUFFICES ASSUME NEW i \in DOMAIN clients, ClientEnd(clients[i])
               PROVE  Due(buf[clients[i]], seen[clients[i]], UpTo(i), failed[clients[i]])
    BY DEF NothingSkipped, Due, UpTo
  <2> QED
    BY <1>1 DEF Inv, Served
<1> QED
  BY <1>1, Invariant, PTL

(* However many detections come, and however often the user pauses, the newest
   MAX_DETECTIONS of those received are kept, newest first. *)
THEOREM NewestKept == Spec => []NewestShown
<1>1. ASSUME Inv PROVE NewestShown
  BY <1>1 DEF Inv, Shown, Shows, NewestShown
<1> QED
  BY <1>1, Invariant, PTL

-----------------------------------------------------------------------------
(* Nobody is removed who is there. *)

(* A client opens no instance but the one that is listened on. *)
LEMMA OnlyListened ==
  ASSUME Inv, NEW c \in Client,
         \/ Start(c) \/ Quit(c) \/ Connect(c) \/ Read(c)
         \/ Broken(c) \/ Tick(c) \/ TogglePause(c) \/ Expand(c),
         NEW q \in Pipe, q # listening
  PROVE  ClientEnd(q)' => ClientEnd(q)
<1>1. gui \in [Client -> Window] /\ gui[c] \in Window /\ q # None
  BY Bounds DEF Inv, Typed
<1>2. \A d \in Client \ {c} : gui'[d] = gui[d]
  BY <1>1 DEF Set, Start, Quit, Connect, Read, Broken, Tick, TogglePause, Expand
<1>3. gui'[c].pipe \in {None, listening, gui[c].pipe}
  <2>1. CASE Start(c) \/ Quit(c)
    BY <1>1, <2>1 DEF Set, Start, Quit, Stopped
  <2>2. CASE Connect(c)
    BY <1>1, <2>2 DEF Set, Connect, Window
  <2>3. CASE Read(c) \/ Broken(c)
    BY <1>1, <2>3 DEF Set, Read, Broken, Window
  <2>4. CASE Tick(c)
    <3> DEFINE f == [gui[c] EXCEPT !.chan = Tail(@)]
               h == Handled(f, Head(gui[c].chan))
    <3>1. f.pipe = gui[c].pipe
      BY <1>1 DEF Window
    <3>2. h.pipe = f.pipe
      BY <1>1 DEF Window, Handled, Received
    <3>3. Set(c, h)
      BY <2>4 DEF Tick
    <3> HIDE DEF h, f
    <3> QED
      BY <1>1, <3>1, <3>2, <3>3 DEF Set
  <2>5. CASE TogglePause(c) \/ Expand(c)
    BY <1>1, <2>5 DEF Set, TogglePause, Expand, Window
  <2> QED
    BY <2>1, <2>2, <2>3, <2>4, <2>5
<1> QED
  BY <1>1, <1>2, <1>3 DEF ClientEnd

(* What the server has noted stays so: the instance of a client that has gone is
   not listened on as long as the server has its handle. *)
LEMMA GoneForGood ==
  ASSUME Inv, DeadGone, [Next]_vars
  PROVE  DeadGone'
<1>1. /\ \A i \in DOMAIN clients : clients[i] \in Pipe
      /\ \A i \in DOMAIN clients : clients[i] # listening \/ listening = None
      /\ \A i \in DOMAIN clients : clients[i] # None
  BY Lists, Bounds DEF Inv, HandlesApart
<1>2. \A k \in DOMAIN server.dead : server.dead[k] \in DOMAIN clients
  <2>1. /\ server \in Loop /\ Len(clients) \in Nat /\ DOMAIN clients = 1 .. Len(clients)
        /\ server.at # "write" => server.dead = <<>>
    BY Lists DEF Inv, Typed, Round, Top
  <2> QED
    BY <2>1 DEF Inv, Round, Loop
<1>3. ASSUME NEW c \in Client,
             \/ Start(c) \/ Quit(c) \/ Connect(c) \/ Read(c)
             \/ Broken(c) \/ Tick(c) \/ TogglePause(c) \/ Expand(c)
      PROVE  DeadGone'
  <2>1. server' = server /\ clients' = clients
    BY <1>3 DEF Start, Quit, Connect, Read, Broken, Tick, TogglePause, Expand, serve
  <2>2. ASSUME NEW k \in DOMAIN server.dead, ClientEnd(clients[server.dead[k]])'
        PROVE  FALSE
    BY <1>1, <1>2, <1>3, <2>1, <2>2, OnlyListened DEF DeadGone
  <2> QED
    BY <2>1, <2>2 DEF DeadGone
<1>4. CASE Write
  <2>1. clients' = clients /\ gui' = gui
    BY <1>4 DEF Write
  <2>2. \A q : ClientEnd(q)' <=> ClientEnd(q)
    BY <2>1, SamePipes
  <2>3. server.dead \in Seq(Nat) /\ server.idx \in Nat /\ server \in Loop
    BY DEF Inv, Typed, Loop
  <2>4. \/ server'.dead = server.dead
        \/ /\ server'.dead = Append(server.dead, server.idx)
           /\ ~ClientEnd(clients[server.idx])
    BY <1>4, <2>3 DEF Write, Loop
  <2>5. CASE server'.dead = server.dead
    BY <2>1, <2>2, <2>5 DEF DeadGone, ClientEnd
  <2>6. CASE /\ server'.dead = Append(server.dead, server.idx)
             /\ ~ClientEnd(clients[server.idx])
    <3>1. \A k \in DOMAIN server'.dead :
            server'.dead[k] = server.idx
              \/ (k \in DOMAIN server.dead /\ server'.dead[k] = server.dead[k])
      BY <2>3, <2>6, Appended
    <3> QED
      BY <2>1, <2>2, <2>6, <3>1 DEF DeadGone, ClientEnd
  <2> QED
    BY <2>4, <2>5, <2>6
<1>5. CASE WriteFails
  <2>1. clients' = clients /\ gui' = gui /\ server \in Loop
    BY <1>5 DEF WriteFails, Inv, Typed
  <2>2. server'.dead = server.dead
    BY <1>5, <2>1 DEF WriteFails, Loop
  <2> QED
    BY <2>1, <2>2 DEF DeadGone, ClientEnd
<1>6. CASE Register \/ Recv \/ RemoveDead \/ AgentStops
  <2>1. server'.dead = <<>>
    BY <1>6 DEF Inv, Typed, Round, Loop, Register, Recv, RemoveDead, AgentStops, Top
  <2> QED
    BY <2>1 DEF DeadGone
<1>7. CASE Listen \/ Accept \/ Detect \/ AgentStarts \/ UNCHANGED vars
  <2>1. server' = server /\ clients' = clients /\ gui' = gui
    BY <1>7 DEF Listen, Accept, Detect, AgentStarts, vars, serve
  <2> QED
    BY <2>1 DEF DeadGone, ClientEnd
<1> QED
  BY <1>3, <1>4, <1>5, <1>6, <1>7 DEF Next

(* A step that takes a client out of the list finds it gone. *)
LEMMA StepSpares ==
  ASSUME Inv, DeadGone, [Next]_vars, NEW p \in ToSet(clients), ClientEnd(p)
  PROVE  p \in ToSet(clients') \/ agent' = "down"
<1>1. PICK i \in DOMAIN clients : p = clients[i]
  BY DEF ToSet
<1>2. CASE RemoveDead
  <2>1. /\ server.dead \in Seq(Nat) /\ clients \in Seq(Pipe) /\ Distinct(clients)
        /\ \A k \in DOMAIN server.dead : server.dead[k] \in DOMAIN clients
        /\ \A k, l \in DOMAIN server.dead : k < l => server.dead[k] < server.dead[l]
    BY <1>2, DeadKnown
  <2>2. Range(clients') = {clients[j] : j \in DOMAIN clients \ Range(server.dead)}
    BY <1>2, <2>1, WithoutIs DEF RemoveDead
  <2>3. i \notin Range(server.dead)
    BY <1>1 DEF DeadGone, Range
  <2> QED
    BY <1>1, <2>2, <2>3 DEF Range, ToSet
<1>3. CASE Register
  <2>1. /\ clients \in Seq(Pipe) /\ accepted \in Seq(Pipe)
        /\ Len(clients) \in Nat /\ DOMAIN clients = 1 .. Len(clients)
        /\ Len(accepted) \in Nat
    BY Lists DEF Inv, Typed
  <2>2. clients' = clients \o accepted
    BY <1>3 DEF Register
  <2>3. /\ clients \o accepted \in Seq(Pipe)
        /\ Len(clients \o accepted) = Len(clients) + Len(accepted)
        /\ (clients \o accepted)[i] = clients[i]
    BY <2>1, ConcatProperties
  <2>4. i \in DOMAIN (clients \o accepted)
    BY <2>1, <2>3, LenProperties
  <2> QED
    BY <1>1, <2>2, <2>3, <2>4 DEF ToSet
<1>4. CASE AgentStops
  BY <1>4 DEF AgentStops
<1>5. ASSUME ~RemoveDead, ~Register, ~AgentStops PROVE clients' = clients
  BY <1>5 DEF Next, Listen, Accept, Detect, Recv, Write, WriteFails, AgentStarts, Start,
     Quit, Connect, Read, Broken, Tick, TogglePause, Expand, vars, serve
<1> QED
  BY <1>2, <1>3, <1>4, <1>5

(* However many clients go during a broadcast, and wherever they stand in the list,
   those that are there stay in it: removal by index hits no one else. *)
THEOREM LiveSpared == Spec => LiveStay
<1> DEFINE Spared == \A p \in ToSet(clients) :
                       ClientEnd(p) => p \in ToSet(clients') \/ agent' = "down"
<1>1. Init => DeadGone
  BY DEF Init, DeadGone, Top
<1>2. Inv /\ DeadGone /\ [Next]_vars => DeadGone'
  BY GoneForGood
<1>3. Inv /\ DeadGone /\ [Next]_vars => Spared
  BY StepSpares
<1>4. Spec => [][Spared]_vars
  BY <1>1, <1>2, <1>3, Invariant, PTL DEF Spec
<1> QED
  BY <1>4 DEF LiveStay
=============================================================================
