---------------------------- MODULE EslConnProofs -----------------------------
(***************************************************************************)
(* Theorem about the Event Socket connection of EslConn.  The commands     *)
(* taken, in the channel, held, in transit and on the wire form one line;  *)
(* every step moves one of them to the next place, adds a written command  *)
(* at the end, or puts an event or a notice between them.  The inductive   *)
(* invariant ConnInv says that the replies in the line are the commands    *)
(* written, each once and in order, and that of serial calls nobody gives  *)
(* up only the one that waits has its response under way.                  *)
(***************************************************************************)
EXTENDS EslConn, FiniteSetTheorems, FunctionTheorems, SequenceTheorems, TLAPS

Frame == Replies \cup {Event}

(* Lines: what becomes of positions and members.                           *)
LEMMA Joined ==
  ASSUME NEW s \in Seq(Frame), NEW t \in Seq(Frame)
  PROVE  /\ s \o t \in Seq(Frame) /\ Len(s \o t) = Len(s) + Len(t)
         /\ Len(s) \in Nat /\ Len(t) \in Nat
         /\ DOMAIN s = 1 .. Len(s) /\ DOMAIN t = 1 .. Len(t) /\ DOMAIN (s \o t) = 1 .. Len(s) + Len(t)
         /\ \A i \in 1 .. Len(s) : (s \o t)[i] = s[i]
         /\ \A i \in Len(s) + 1 .. Len(s) + Len(t) : (s \o t)[i] = t[i - Len(s)]
         /\ \A i \in 1 .. Len(t) : (s \o t)[Len(s) + i] = t[i]
         /\ Range(s \o t) = Range(s) \cup Range(t)
         /\ Range(s) \subseteq Frame /\ Range(t) \subseteq Frame
<1>1. Range(s \o t) = Range(s) \cup Range(t)
  BY RangeConcatenation
<1>2. Range(s) \subseteq Frame /\ Range(t) \subseteq Frame
  BY RangeOfSeq
<1> QED BY <1>1, <1>2

LEMMA Regrouped ==
  ASSUME NEW r \in Seq(Frame), NEW s \in Seq(Frame), NEW t \in Seq(Frame)
  PROVE  (r \o s) \o t = r \o (s \o t)
BY ConcatAssociative

LEMMA Joins == \A s, t \in Seq(Frame) : s \o t \in Seq(Frame)
BY Joined

LEMMA Groups == \A r, s, t \in Seq(Frame) : (r \o s) \o t = r \o (s \o t)
BY Regrouped

LEMMA Ends ==
  ASSUME NEW s \in Seq(Frame), NEW x \in Frame
  PROVE  /\ Append(s, x) = s \o <<x>> /\ <<x>> \in Seq(Frame) /\ Range(<<x>>) = {x}
         /\ Append(s, x) \in Seq(Frame) /\ Range(Append(s, x)) = Range(s) \cup {x}
<1> DEFINE e == <<x>>
<1>1. e \in Seq(Frame) /\ DOMAIN e = {1} /\ e[1] = x
  OBVIOUS
<1>2. Range(e) = {x}
  BY <1>1 DEF Range
<1>3. Append(s, x) = s \o e
  BY AppendIsConcat
<1> HIDE DEF e
<1>4. s \o e \in Seq(Frame) /\ Range(s \o e) = Range(s) \cup Range(e)
  BY <1>1, Joined
<1> QED BY <1>1, <1>2, <1>3, <1>4 DEF e

LEMMA Split ==
  ASSUME NEW t \in Seq(Frame), t # <<>>
  PROVE  /\ t = <<Head(t)>> \o Tail(t) /\ Head(t) \in Frame /\ Tail(t) \in Seq(Frame)
         /\ Range(t) = {Head(t)} \cup Range(Tail(t))
<1>1. Head(t) \in Frame /\ Tail(t) \in Seq(Frame) /\ Len(Tail(t)) = Len(t) - 1 /\ Len(t) \in Nat \ {0}
  OBVIOUS
<1> DEFINE u == <<Head(t)>> \o Tail(t)
<1>2. <<Head(t)>> \in Seq(Frame) /\ Len(<<Head(t)>>) = 1 /\ <<Head(t)>>[1] = Head(t)
  BY <1>1
<1>3. /\ u \in Seq(Frame) /\ Len(u) = Len(t) /\ u[1] = Head(t)
      /\ \A i \in 2 .. Len(t) : u[i] = Tail(t)[i - 1]
  BY <1>1, <1>2, Joined
<1>4. Head(t) = t[1] /\ \A i \in 2 .. Len(t) : Tail(t)[i - 1] = t[i]
  BY <1>1
<1>5. u = t
  BY <1>1, <1>3, <1>4, SeqEqual
<1>6. Range(u) = Range(<<Head(t)>>) \cup Range(Tail(t))
  BY <1>1, <1>2, Joined
<1>7. Range(<<Head(t)>>) = {Head(t)}
  BY <1>1, Ends
<1> QED BY <1>1, <1>5, <1>6, <1>7

LEMMA Shifted ==
  ASSUME NEW s \in Seq(Frame), NEW t \in Seq(Frame), t # <<>>
  PROVE  (s \o <<Head(t)>>) \o Tail(t) = s \o t
<1>1. t = <<Head(t)>> \o Tail(t) /\ Head(t) \in Frame /\ Tail(t) \in Seq(Frame)
  BY Split
<1>2. <<Head(t)>> \in Seq(Frame)
  BY <1>1
<1> QED BY <1>1, <1>2, Regrouped

-----------------------------------------------------------------------------
(* The replies in line s are the commands w, each once and in order.       *)
Tracks(s, w) ==
  /\ IsInjective(w) /\ Range(s) \cap Asked = Range(w)
  /\ \A i, j \in DOMAIN s : i < j /\ s[i] \in Asked /\ s[j] \in Asked =>
       \E m, n \in DOMAIN w : m < n /\ w[m] = s[i] /\ w[n] = s[j]

(* A reply is in one of two parts of a line.                               *)
LEMMA OnceInLine ==
  ASSUME NEW s \in Seq(Frame), NEW t \in Seq(Frame), NEW w \in Seq(Asked), Tracks(s \o t, w),
         NEW x \in Asked, x \in Range(s), x \in Range(t)
  PROVE  FALSE
<1>1. PICK i \in 1 .. Len(s) : s[i] = x
  BY Joined DEF Range
<1>2. PICK j \in 1 .. Len(t) : t[j] = x
  BY Joined DEF Range
<1>3. /\ i \in DOMAIN (s \o t) /\ Len(s) + j \in DOMAIN (s \o t) /\ i < Len(s) + j
      /\ (s \o t)[i] = x /\ (s \o t)[Len(s) + j] = x
  BY <1>1, <1>2, Joined
<1>4. PICK m, n \in DOMAIN w : m < n /\ w[m] = x /\ w[n] = x
  BY <1>3 DEF Tracks
<1>5. m = n
  BY <1>4 DEF Tracks, IsInjective
<1>6. m \in Nat
  BY <1>4
<1> QED BY <1>4, <1>5, <1>6

(* An event or a notice in line is no reply.                               *)
LEMMA OthersPass ==
  ASSUME NEW s \in Seq(Frame), NEW t \in Seq(Frame), NEW x \in Frame \ Asked, NEW w \in Seq(Asked)
  PROVE  Tracks((s \o <<x>>) \o t, w) <=> Tracks(s \o t, w)
<1> DEFINE n == Len(s)      k == Len(t)      e == <<x>>      u == s \o e
           a == s \o t      b == u \o t
           At(i) == IF i <= n THEN i ELSE i + 1
<1>1. e \in Seq(Frame) /\ Len(e) = 1 /\ e[1] = x /\ Range(e) = {x}
  BY Ends
<1> HIDE DEF e
<1>2. /\ n \in Nat /\ k \in Nat /\ DOMAIN a = 1 .. n + k
      /\ \A i \in 1 .. n : a[i] = s[i]
      /\ \A i \in n + 1 .. n + k : a[i] = t[i - n]
      /\ Range(a) = Range(s) \cup Range(t)
  BY Joined
<1>3. /\ u \in Seq(Frame) /\ Len(u) = n + 1
      /\ \A i \in 1 .. n : u[i] = s[i]
      /\ u[n + 1] = x
      /\ Range(u) = Range(s) \cup {x}
  BY <1>1, Joined, SMTT(30)
<1> HIDE DEF u
<1>4. /\ DOMAIN b = 1 .. (n + 1) + k
      /\ \A i \in 1 .. n : b[i] = s[i]
      /\ b[n + 1] = x
      /\ \A i \in n + 2 .. n + 1 + k : b[i] = t[i - (n + 1)]
      /\ Range(b) = (Range(s) \cup {x}) \cup Range(t)
  <2>1. /\ DOMAIN b = 1 .. Len(u) + k /\ Range(b) = Range(u) \cup Range(t)
        /\ \A i \in 1 .. Len(u) : b[i] = u[i]
        /\ \A i \in Len(u) + 1 .. Len(u) + k : b[i] = t[i - Len(u)]
    BY <1>3, Joined
  <2> HIDE DEF n, k, b
  <2>2. \A i \in 1 .. n : i \in 1 .. Len(u)
    BY <1>2, <1>3
  <2>3. n + 1 \in 1 .. Len(u) /\ n + 2 = Len(u) + 1
    BY <1>2, <1>3
  <2> QED BY <1>2, <1>3, <2>1, <2>2, <2>3
<1> HIDE DEF n, k, a, b
<1>5. Range(b) \cap Asked = Range(a) \cap Asked
  BY <1>2, <1>4
<1>6. \A i \in DOMAIN a : At(i) \in DOMAIN b /\ b[At(i)] = a[i]
  BY <1>2, <1>4
<1>7. \A i \in DOMAIN b : b[i] \in Asked => \E j \in DOMAIN a : i = At(j)
  <2> SUFFICES ASSUME NEW i \in DOMAIN b, b[i] \in Asked PROVE \E j \in DOMAIN a : i = At(j)
    OBVIOUS
  <2>1. i # n + 1 /\ i \in 1 .. (n + 1) + k
    BY <1>4
  <2>2. CASE i <= n
    BY <1>2, <2>1, <2>2
  <2>3. CASE i > n
    <3>1. i - 1 \in DOMAIN a /\ i = At(i - 1)
      BY <1>2, <2>1, <2>3
    <3> QED BY <3>1
  <2> QED BY <1>2, <2>1, <2>2, <2>3
<1>8. \A i, j \in DOMAIN a : i < j <=> At(i) < At(j)
  BY <1>2
<1> HIDE DEF At
<1>9. Tracks(b, w) => Tracks(a, w)
  BY <1>5, <1>6, <1>8 DEF Tracks
<1>10. Tracks(a, w) => Tracks(b, w)
  <2> SUFFICES ASSUME Tracks(a, w), NEW i \in DOMAIN b, NEW j \in DOMAIN b, i < j,
                      b[i] \in Asked, b[j] \in Asked
               PROVE  \E m, l \in DOMAIN w : m < l /\ w[m] = b[i] /\ w[l] = b[j]
    BY <1>5 DEF Tracks
  <2>1. PICK p \in DOMAIN a : i = At(p)
    BY <1>7
  <2>2. PICK q \in DOMAIN a : j = At(q)
    BY <1>7
  <2>3. p < q /\ a[p] = b[i] /\ a[q] = b[j]
    BY <1>6, <1>8, <2>1, <2>2
  <2> QED BY <2>3 DEF Tracks
<1> QED BY <1>9, <1>10 DEF a, b, u, e

(* A command is written: it is the last in line.                           *)
LEMMA LastInLine ==
  ASSUME NEW s \in Seq(Frame), NEW w \in Seq(Asked), Tracks(s, w), NEW x \in Asked, x \notin Range(w)
  PROVE  Tracks(s \o <<x>>, Append(w, x)) /\ Range(Append(w, x)) = Range(w) \cup {x}
<1> DEFINE n == Len(s)      k == Len(w)      e == <<x>>      b == s \o e      v == Append(w, x)
<1>1. x \in Frame /\ e \in Seq(Frame) /\ Len(e) = 1 /\ e[1] = x /\ Range(e) = {x}
  BY Ends DEF Frame, Replies
<1> HIDE DEF e
<1>2. /\ n \in Nat /\ DOMAIN s = 1 .. n /\ DOMAIN b = 1 .. n + 1 /\ b[n + 1] = x
      /\ \A i \in 1 .. n : b[i] = s[i]
      /\ Range(b) = Range(s) \cup {x}
  <2>1. /\ n \in Nat /\ DOMAIN s = 1 .. n /\ DOMAIN b = 1 .. n + Len(e)
        /\ \A i \in 1 .. n : b[i] = s[i]
        /\ \A i \in 1 .. Len(e) : b[n + i] = e[i]
        /\ Range(b) = Range(s) \cup Range(e)
    BY <1>1, Joined
  <2> HIDE DEF n, b
  <2> QED BY <1>1, <2>1
<1>3. /\ k \in Nat /\ DOMAIN w = 1 .. k /\ DOMAIN v = 1 .. k + 1 /\ v[k + 1] = x
      /\ \A i \in 1 .. k : v[i] = w[i]
  OBVIOUS
<1> HIDE DEF n, k, b, v
<1>4. Range(v) = Range(w) \cup {x}
  <2>1. \A i \in DOMAIN v : i = k + 1 \/ i \in DOMAIN w
    BY <1>3
  <2>2. k + 1 \in DOMAIN v /\ DOMAIN w \subseteq DOMAIN v
    BY <1>3
  <2>3. \A i \in DOMAIN w : v[i] = w[i]
    BY <1>3
  <2> QED BY <1>3, <2>1, <2>2, <2>3 DEF Range
<1>5. IsInjective(v)
  <2> SUFFICES ASSUME NEW i \in DOMAIN v, NEW j \in DOMAIN v, v[i] = v[j] PROVE i = j
    BY DEF IsInjective
  <2>1. \A m \in DOMAIN w : v[m] = w[m] /\ v[m] # x
    BY <1>3 DEF Range
  <2>2. \A m \in DOMAIN v : m = k + 1 \/ m \in DOMAIN w
    BY <1>3
  <2> QED BY <1>3, <2>1, <2>2 DEF Tracks, IsInjective
<1>6. Range(b) \cap Asked = Range(v)
  BY <1>2, <1>4 DEF Tracks
<1>7. ASSUME NEW i \in DOMAIN b, NEW j \in DOMAIN b, i < j, b[i] \in Asked, b[j] \in Asked
      PROVE  \E m, l \in DOMAIN v : m < l /\ v[m] = b[i] /\ v[l] = b[j]
  <2>1. i \in DOMAIN s /\ b[i] = s[i]
    BY <1>2, <1>7
  <2>2. CASE j = n + 1
    <3>1. s[i] \in Range(w)
      BY <1>7, <2>1 DEF Tracks, Range
    <3>2. PICK m \in DOMAIN w : w[m] = s[i]
      BY <3>1 DEF Range
    <3>3. m \in DOMAIN v /\ k + 1 \in DOMAIN v /\ m < k + 1 /\ v[m] = b[i] /\ v[k + 1] = b[j]
      BY <1>2, <1>3, <2>1, <2>2, <3>2
    <3> QED BY <3>3
  <2>3. CASE j # n + 1
    <3>1. j \in DOMAIN s /\ b[j] = s[j]
      BY <1>2, <2>3
    <3>2. PICK m, l \in DOMAIN w : m < l /\ w[m] = s[i] /\ w[l] = s[j]
      BY <1>7, <2>1, <3>1 DEF Tracks
    <3>3. m \in DOMAIN v /\ l \in DOMAIN v /\ v[m] = w[m] /\ v[l] = w[l]
      BY <1>3
    <3> QED BY <2>1, <3>1, <3>2, <3>3
  <2> QED BY <2>2, <2>3
<1> QED BY <1>4, <1>5, <1>6, <1>7 DEF Tracks, b, v, e

-----------------------------------------------------------------------------
EventsIn(s) == {i \in DOMAIN s : s[i] = Event}

LEMMA EventsEnd ==
  ASSUME NEW s \in Seq(Frame), NEW x \in Frame, IsFiniteSet(EventsIn(s))
  PROVE  /\ IsFiniteSet(EventsIn(Append(s, x)))
         /\ Cardinality(EventsIn(Append(s, x))) =
              Cardinality(EventsIn(s)) + (IF x = Event THEN 1 ELSE 0)
<1> DEFINE n == Len(s)      t == Append(s, x)
<1>1. /\ n \in Nat /\ DOMAIN s = 1 .. n /\ DOMAIN t = 1 .. n + 1 /\ t[n + 1] = x
      /\ \A i \in 1 .. n : t[i] = s[i]
  OBVIOUS
<1> HIDE DEF n, t
<1>2. EventsIn(t) = IF x = Event THEN EventsIn(s) \cup {n + 1} ELSE EventsIn(s)
  <2>1. \A i : i \in DOMAIN t <=> i \in DOMAIN s \/ i = n + 1
    BY <1>1
  <2>2. \A i \in DOMAIN s : t[i] = s[i] /\ i # n + 1
    BY <1>1
  <2> QED BY <1>1, <2>1, <2>2 DEF EventsIn
<1>3. n + 1 \notin EventsIn(s)
  BY <1>1 DEF EventsIn
<1>4. Cardinality(EventsIn(s)) \in Nat
  BY FS_CardinalityType
<1> QED BY <1>2, <1>3, <1>4, FS_AddElement DEF t

LEMMA EventsBegin ==
  ASSUME NEW s \in Seq(Frame), s # <<>>, IsFiniteSet(EventsIn(s))
  PROVE  /\ IsFiniteSet(EventsIn(Tail(s)))
         /\ Cardinality(EventsIn(s)) =
              Cardinality(EventsIn(Tail(s))) + (IF Head(s) = Event THEN 1 ELSE 0)
<1> DEFINE n == Len(s)      t == Tail(s)      E == EventsIn(s) \ {1}
           f == [i \in EventsIn(t) |-> i + 1]
<1>1. /\ n \in Nat \ {0} /\ DOMAIN s = 1 .. n /\ DOMAIN t = 1 .. n - 1 /\ Head(s) = s[1]
      /\ \A i \in 1 .. n - 1 : t[i] = s[i + 1]
  OBVIOUS
<1> HIDE DEF n, t
<1>2. EventsIn(t) \subseteq Nat
  BY <1>1 DEF EventsIn
<1>3. \A i : i \in EventsIn(t) => i + 1 \in E
  BY <1>1 DEF EventsIn
<1>4. \A j : j \in E => j - 1 \in EventsIn(t) /\ j = (j - 1) + 1
  BY <1>1 DEF EventsIn
<1>5. f \in Bijection(EventsIn(t), E)
  <2>1. f \in [EventsIn(t) -> E]
    BY <1>3
  <2>2. \A a, b \in EventsIn(t) : f[a] = f[b] => a = b
    BY <1>2
  <2>3. \A j \in E : \E i \in EventsIn(t) : f[i] = j
    BY <1>4
  <2> QED BY <2>1, <2>2, <2>3, Fun_IsBij
<1>6. IsFiniteSet(E) /\ Cardinality(E) \in Nat
  BY FS_Subset, FS_CardinalityType
<1>7. ExistsBijection(EventsIn(t), E)
  BY <1>5 DEF ExistsBijection
<1>8. ExistsBijection(E, EventsIn(t))
  BY <1>7, Fun_ExistsBijSymmetric
<1>9. IsFiniteSet(EventsIn(t)) /\ Cardinality(EventsIn(t)) = Cardinality(E)
  BY <1>6, <1>8, FS_Bijection
<1>10. 1 \in EventsIn(s) <=> Head(s) = Event
  BY <1>1 DEF EventsIn
<1>11. /\ 1 \in EventsIn(s) => Cardinality(E) = Cardinality(EventsIn(s)) - 1
       /\ 1 \notin EventsIn(s) => E = EventsIn(s)
       /\ Cardinality(EventsIn(s)) \in Nat
  BY FS_RemoveElement, FS_CardinalityType
<1> HIDE DEF E
<1>12. Cardinality(EventsIn(s)) = Cardinality(EventsIn(t)) + (IF Head(s) = Event THEN 1 ELSE 0)
  BY <1>6, <1>9, <1>10, <1>11
<1> QED BY <1>9, <1>12 DEF t

-----------------------------------------------------------------------------
(* What FreeSWITCH has sent and no call has taken.                         *)
Rest == (responseChan \o Holding) \o inbox

LEMMA LineOfParts ==
  ASSUME NEW a \in Seq(Frame), NEW b \in Seq(Frame), NEW c \in Seq(Frame), NEW d \in Seq(Frame),
         NEW e \in Seq(Frame)
  PROVE  (((a \o b) \o c) \o d) \o e = a \o (((b \o c) \o d) \o e)
<1>1. (a \o b) \o c = a \o (b \o c)
  BY Regrouped, ZenonT(40)
<1>2. \A f \in Seq(Frame) : (a \o f) \o d = a \o (f \o d)
  BY Regrouped, ZenonT(40)
<1>3. \A f \in Seq(Frame) : (a \o f) \o e = a \o (f \o e)
  BY Regrouped, ZenonT(40)
<1>4. b \o c \in Seq(Frame)
  BY Joined
<1>5. \A f \in Seq(Frame) : f \o d \in Seq(Frame)
  BY Joined
<1>6. (a \o (b \o c)) \o d = a \o ((b \o c) \o d) /\ (b \o c) \o d \in Seq(Frame)
  BY <1>2, <1>4, <1>5, Zenon
<1>7. (a \o ((b \o c) \o d)) \o e = a \o (((b \o c) \o d) \o e)
  BY <1>3, <1>6, Zenon
<1> QED BY <1>1, <1>6, <1>7, Zenon

(* A notice is the last that comes.                                        *)
NoticeEnds(s) == \A i, j \in DOMAIN s : i < j => s[i] # Notice

LEMMA NoticeAppended ==
  ASSUME NEW s \in Seq(Frame), NEW x \in Frame, Notice \notin Range(s)
  PROVE  NoticeEnds(Append(s, x))
<1>1. /\ DOMAIN Append(s, x) = 1 .. Len(s) + 1 /\ Len(s) \in Nat /\ DOMAIN s = 1 .. Len(s)
      /\ \A i \in 1 .. Len(s) : Append(s, x)[i] = s[i]
  OBVIOUS
<1>2. \A i \in DOMAIN s : s[i] # Notice
  BY DEF Range
<1>3. \A i, j \in DOMAIN Append(s, x) : i < j => i \in DOMAIN s
  BY <1>1
<1> QED BY <1>1, <1>2, <1>3 DEF NoticeEnds

LEMMA NoticeKept ==
  ASSUME NEW s \in Seq(Frame), NEW t \in Seq(Frame), NEW x \in Frame, NoticeEnds((s \o <<x>>) \o t)
  PROVE  NoticeEnds(s \o t) /\ (x = Notice => t = <<>>)
<1> DEFINE e == <<x>>      u == s \o e      b == u \o t      a == s \o t      n == Len(s)      k == Len(t)
           At(i) == IF i <= n THEN i ELSE i + 1
<1>1. e \in Seq(Frame) /\ Len(e) = 1 /\ e[1] = x
  OBVIOUS
<1> HIDE DEF e
<1>2. /\ n \in Nat /\ k \in Nat /\ DOMAIN a = 1 .. n + k
      /\ \A i \in 1 .. n : a[i] = s[i]
      /\ \A i \in n + 1 .. n + k : a[i] = t[i - n]
  BY Joined
<1>3. /\ u \in Seq(Frame) /\ Len(u) = n + Len(e)
      /\ \A i \in 1 .. n : u[i] = s[i]
      /\ \A i \in 1 .. Len(e) : u[n + i] = e[i]
  BY <1>1, Joined
<1> HIDE DEF u
<1>4. /\ DOMAIN b = 1 .. Len(u) + k
      /\ \A i \in 1 .. Len(u) : b[i] = u[i]
      /\ \A i \in Len(u) + 1 .. Len(u) + k : b[i] = t[i - Len(u)]
  BY <1>3, Joined
<1> HIDE DEF n, k, a, b
<1>5. Len(u) = n + 1 /\ u[n + 1] = x
  BY <1>1, <1>2, <1>3
<1>6. ASSUME NEW i \in DOMAIN a PROVE At(i) \in DOMAIN b /\ b[At(i)] = a[i]
  <2>1. CASE i <= n
    <3>1. i \in 1 .. n /\ i \in 1 .. Len(u)
      BY <1>2, <1>5, <2>1
    <3> QED BY <1>2, <1>3, <1>4, <1>5, <2>1, <3>1
  <2>2. CASE ~(i <= n)
    <3>1. i \in n + 1 .. n + k /\ i + 1 \in Len(u) + 1 .. Len(u) + k /\ i - n = (i + 1) - Len(u)
      BY <1>2, <1>5, <2>2
    <3>2. i + 1 \in DOMAIN b
      BY <1>2, <1>4, <1>5, <3>1
    <3> QED BY <1>2, <1>4, <2>2, <3>1, <3>2
  <2> QED BY <2>1, <2>2
<1>7. \A i, j \in DOMAIN a : i < j => At(i) < At(j)
  BY <1>2
<1>8. NoticeEnds(a)
  <2> HIDE DEF At
  <2> QED BY <1>6, <1>7 DEF NoticeEnds, b, u, e
<1>9. ASSUME x = Notice PROVE t = <<>>
  <2>1. k > 0 => n + 1 \in DOMAIN b /\ n + 2 \in DOMAIN b /\ b[n + 1] = Notice
    <3>1. n + 1 \in 1 .. Len(u)
      BY <1>2, <1>5
    <3> QED BY <1>2, <1>4, <1>5, <1>9, <3>1
  <2>2. ~(k > 0)
    <3>1. \A i, j \in DOMAIN b : i < j => b[i] # Notice
      BY DEF NoticeEnds, b, u, e
    <3> QED BY <1>2, <2>1, <3>1
  <2>3. Len(t) = 0
    BY <1>2, <2>2 DEF k
  <2> QED BY <2>3
<1> QED BY <1>8, <1>9 DEF a

-----------------------------------------------------------------------------
Pending == Range(Rest) \cup (IF socket = "open" THEN Range(wire) ELSE {})
WrittenSound ==
  /\ \A c \in Commands : call[c] # "returned" => result[c] = "none"
  /\ \A c \in Commands \cap Range(written) : call[c] # "idle"
  /\ Exit \in Range(written) => exit # "idle"
  /\ exit = "closed" => socket = "closed"
LineSound ==
  /\ Tracks(Line, written)
  /\ NoticeEnds(Rest) /\ (Notice \in Range(Rest) => socket # "open")
EventsCounted ==
  IsFiniteSet(EventsIn(inbox)) /\ dispatched + Cardinality(EventsIn(inbox)) = events
SerialSound ==
  /\ OwnReply
  /\ \A c, d \in Waiting : c = d
  /\ \A m \in Pending : (m \in Commands => m \in Waiting) /\ (m = Exit => Waiting = {})
(* Of calls that come one after the other and are not given up, one waits  *)
(* at a time, and no other's response is on its way.                       *)
Serial == ~overlapped /\ GaveUp = {} => SerialSound
ConnInv ==
  /\ TypeOK /\ (loop \in {"check", "read"} => held = Event)
  /\ LineSound /\ EventsCounted /\ WrittenSound
  /\ Serial

(* The parts of the line are sequences of frames.                          *)
PartsSound ==
  /\ consumed \in Seq(Frame) /\ responseChan \in Seq(Frame) /\ Holding \in Seq(Frame)
  /\ inbox \in Seq(Frame) /\ wire \in Seq(Frame) /\ Rest \in Seq(Frame)
  /\ written \in Seq(Asked)
  /\ responseChan \o Holding \in Seq(Frame)
  /\ Line = consumed \o (Rest \o wire)
  /\ Range(Rest) = (Range(responseChan) \cup Range(Holding)) \cup Range(inbox)
  /\ Range(Line) = Range(consumed) \cup (Range(Rest) \cup Range(wire))
  /\ Range(Rest) \subseteq Frame /\ Range(wire) \subseteq Asked

LEMMA Parts == TypeOK => PartsSound
<1> SUFFICES ASSUME TypeOK PROVE PartsSound
  OBVIOUS
<1>1. /\ consumed \in Seq(Frame) /\ responseChan \in Seq(Frame) /\ inbox \in Seq(Frame) /\ wire \in Seq(Frame)
      /\ written \in Seq(Asked) /\ wire \in Seq(Asked)
  BY SeqMonotonic DEF TypeOK, Frame, Replies
<1>2. held \in Frame
  BY DEF TypeOK, Frame
<1>3. Holding \in Seq(Frame)
  <2>1. <<>> \in Seq(Frame)
    OBVIOUS
  <2>2. <<held>> \in Seq(Frame)
    BY <1>2
  <2> QED BY <2>1, <2>2 DEF Holding
<1>4. /\ responseChan \o Holding \in Seq(Frame)
      /\ Range(responseChan \o Holding) = Range(responseChan) \cup Range(Holding)
  BY <1>1, <1>3, Joined
<1>5. /\ Rest \in Seq(Frame) /\ Range(Rest) \subseteq Frame
      /\ Range(Rest) = (Range(responseChan) \cup Range(Holding)) \cup Range(inbox)
  BY <1>1, <1>4, Joined DEF Rest
<1>6. Line = consumed \o (Rest \o wire)
  <2>1. (((consumed \o responseChan) \o Holding) \o inbox) \o wire
          = consumed \o (((responseChan \o Holding) \o inbox) \o wire)
    <3>1. \A a, b, c, d, e \in Seq(Frame) :
            (((a \o b) \o c) \o d) \o e = a \o (((b \o c) \o d) \o e)
      BY LineOfParts
    <3>2. /\ consumed \in Seq(Frame) /\ responseChan \in Seq(Frame) /\ Holding \in Seq(Frame)
          /\ inbox \in Seq(Frame) /\ wire \in Seq(Frame)
      BY <1>1, <1>3
    <3>3. \A b, c, d, e \in Seq(Frame) :
            (((consumed \o b) \o c) \o d) \o e = consumed \o (((b \o c) \o d) \o e)
      BY <3>1, <3>2, Zenon
    <3>4. \A c, d, e \in Seq(Frame) :
            (((consumed \o responseChan) \o c) \o d) \o e = consumed \o (((responseChan \o c) \o d) \o e)
      BY <3>3, <3>2, Zenon
    <3> QED BY <3>4, <3>2, ZenonT(40)
  <2> QED BY <2>1 DEF Line, Rest
<1>7. Rest \o wire \in Seq(Frame) /\ Range(Rest \o wire) = Range(Rest) \cup Range(wire)
  BY <1>1, <1>5, Joined
<1>8. Range(Line) = Range(consumed) \cup (Range(Rest) \cup Range(wire))
  <2> DEFINE u == Rest \o wire
  <2>1. u \in Seq(Frame)
    BY <1>7
  <2> HIDE DEF u
  <2>2. Range(consumed \o u) = Range(consumed) \cup Range(u)
    BY <1>1, <2>1, Joined
  <2> QED BY <1>6, <1>7, <2>2 DEF u
<1>9. Range(wire) \subseteq Asked
  BY <1>1, RangeOfSeq
<1> QED BY <1>1, <1>3, <1>4, <1>5, <1>6, <1>8, <1>9 DEF PartsSound

LEMMA PartsAfter == TypeOK' => PartsSound'
BY Parts, PTL

-----------------------------------------------------------------------------
(* Moves along the line: one frame from the head of a part to the end of   *)
(* the one before it, or a new frame at the end of a part.                 *)
LEMMA Added ==
  ASSUME NEW s \in Seq(Frame), NEW t \in Seq(Frame), NEW x \in Frame
  PROVE  s \o Append(t, x) = (s \o t) \o <<x>>
<1> DEFINE e == <<x>>
<1>1. e \in Seq(Frame) /\ Append(t, x) = t \o e
  BY Ends
<1> HIDE DEF e
<1>2. (s \o t) \o e = s \o (t \o e)
  BY <1>1, Regrouped
<1> QED BY <1>1, <1>2 DEF e

LEMMA Passed ==
  ASSUME NEW s \in Seq(Frame), NEW t \in Seq(Frame), t # <<>>
  PROVE  Append(s, Head(t)) \in Seq(Frame) /\ Append(s, Head(t)) \o Tail(t) = s \o t
<1>1. Head(t) \in Frame
  BY Split
<1>2. Append(s, Head(t)) = s \o <<Head(t)>> /\ Append(s, Head(t)) \in Seq(Frame)
  BY <1>1, Ends
<1> QED BY <1>2, Shifted

LEMMA Taken ==
  \A b \in Seq(Frame) : b # <<>> =>
    \A a, c, d, e \in Seq(Frame) :
      /\ (b \o c) \o d = <<Head(b)>> \o ((Tail(b) \o c) \o d)
      /\ Append(a, Head(b)) \o (((Tail(b) \o c) \o d) \o e) = a \o (((b \o c) \o d) \o e)
<1> SUFFICES ASSUME NEW b \in Seq(Frame), b # <<>>, NEW a \in Seq(Frame), NEW c \in Seq(Frame),
                    NEW d \in Seq(Frame), NEW e \in Seq(Frame)
             PROVE  /\ (b \o c) \o d = <<Head(b)>> \o ((Tail(b) \o c) \o d)
                    /\ Append(a, Head(b)) \o (((Tail(b) \o c) \o d) \o e) = a \o (((b \o c) \o d) \o e)
  BY Zenon
<1> DEFINE h == <<Head(b)>>      t == Tail(b)
<1>1. b = h \o t /\ t \in Seq(Frame) /\ Head(b) \in Frame
  BY Split
<1>2. h \in Seq(Frame) /\ Append(a, Head(b)) = a \o h
  BY <1>1, Ends
<1> HIDE DEF h, t
<1>3. t \o c \in Seq(Frame)
  BY <1>1, Joined
<1>4. (h \o t) \o c = h \o (t \o c)
  BY <1>1, <1>2, Regrouped
<1>5. (h \o (t \o c)) \o d = h \o ((t \o c) \o d) /\ (t \o c) \o d \in Seq(Frame)
  <2> DEFINE f == t \o c
  <2>1. f \in Seq(Frame) /\ h \in Seq(Frame) /\ d \in Seq(Frame)
    BY <1>2, <1>3
  <2> HIDE DEF f
  <2>2. (h \o f) \o d = h \o (f \o d)
    <3>1. \A y, z \in Seq(Frame) : (h \o y) \o z = h \o (y \o z)
      BY <2>1, Groups, Zenon
    <3> QED BY <2>1, <3>1, Zenon
  <2>3. f \o d \in Seq(Frame)
    BY <2>1, Joins, Zenon
  <2> QED BY <2>2, <2>3 DEF f
<1>6. (b \o c) \o d = h \o ((t \o c) \o d)
  BY <1>1, <1>4, <1>5
<1> DEFINE r == (t \o c) \o d
<1>7. r \in Seq(Frame)
  BY <1>5
<1> HIDE DEF r
<1>8. (h \o r) \o e = h \o (r \o e) /\ r \o e \in Seq(Frame)
  <2>1. e \in Seq(Frame) /\ h \in Seq(Frame) /\ r \in Seq(Frame)
    BY <1>2, <1>7
  <2>2. (h \o r) \o e = h \o (r \o e)
    <3>1. \A y, z \in Seq(Frame) : (h \o y) \o z = h \o (y \o z)
      BY <2>1, Groups, Zenon
    <3> QED BY <2>1, <3>1, Zenon
  <2>3. r \o e \in Seq(Frame)
    BY <2>1, Joins, Zenon
  <2> QED BY <2>2, <2>3
<1> DEFINE q == r \o e
<1>9. q \in Seq(Frame)
  BY <1>8
<1> HIDE DEF q
<1>10. (a \o h) \o q = a \o (h \o q)
  <2>1. a \in Seq(Frame) /\ h \in Seq(Frame) /\ q \in Seq(Frame)
    BY <1>2, <1>9
  <2>2. \A y, z \in Seq(Frame) : (a \o y) \o z = a \o (y \o z)
    BY <2>1, Groups, Zenon
  <2> QED BY <2>1, <2>2, Zenon
<1>11. h \o q = ((b \o c) \o d) \o e
  BY <1>6, <1>8 DEF q, r
<1>12. (a \o h) \o q = a \o (((b \o c) \o d) \o e)
  BY <1>10, <1>11, Zenon
<1> QED BY <1>2, <1>6, <1>12 DEF q, r, h, t

(* A new frame at the end of the middle part.                              *)
LEMMA Inserted ==
  \A x \in Frame : \A p, q, r \in Seq(Frame) :
    p \o (Append(q, x) \o r) = ((p \o q) \o <<x>>) \o r /\ p \o (q \o r) = (p \o q) \o r
<1> SUFFICES ASSUME NEW x \in Frame, NEW p \in Seq(Frame), NEW q \in Seq(Frame), NEW r \in Seq(Frame)
             PROVE  p \o (Append(q, x) \o r) = ((p \o q) \o <<x>>) \o r /\ p \o (q \o r) = (p \o q) \o r
  BY Zenon
<1> DEFINE e == <<x>>      u == Append(q, x)      v == p \o q
<1>1. u \in Seq(Frame) /\ v \in Seq(Frame) /\ p \o u = v \o e
  BY Added, Ends, Joins
<1> HIDE DEF e, u, v
<1>2. (p \o u) \o r = p \o (u \o r)
  BY <1>1, Regrouped
<1>3. (p \o q) \o r = p \o (q \o r)
  BY Regrouped
<1> QED BY <1>1, <1>2, <1>3 DEF e, u, v

(* A frame drops out behind the first part.                                *)
LEMMA Dropped ==
  ASSUME NEW a \in Seq(Frame), NEW b \in Seq(Frame), NEW c \in Seq(Frame), NEW d \in Seq(Frame), c # <<>>
  PROVE  /\ b \o c = (b \o <<Head(c)>>) \o Tail(c)
         /\ a \o ((b \o c) \o d) = ((a \o b) \o <<Head(c)>>) \o (Tail(c) \o d)
         /\ a \o ((b \o Tail(c)) \o d) = (a \o b) \o (Tail(c) \o d)
         /\ a \o b \in Seq(Frame) /\ Tail(c) \o d \in Seq(Frame)
<1> DEFINE h == <<Head(c)>>      t == Tail(c)      u == b \o h
<1>1. h \in Seq(Frame) /\ t \in Seq(Frame) /\ Head(c) \in Frame /\ b \o c = (b \o h) \o t
  BY Split, Shifted, Ends
<1> HIDE DEF h, t
<1>2. /\ u \in Seq(Frame) /\ (a \o b) \o h = a \o u
      /\ t \o d \in Seq(Frame) /\ a \o b \in Seq(Frame) /\ b \o t \in Seq(Frame)
  <2>1. u \in Seq(Frame)
    BY <1>1, Joins, Zenon
  <2>2. (a \o b) \o h = a \o u
    BY <1>1, Groups, ZenonT(40)
  <2>3. t \o d \in Seq(Frame) /\ a \o b \in Seq(Frame) /\ b \o t \in Seq(Frame)
    BY <1>1, Joins, Zenon
  <2> QED BY <2>1, <2>2, <2>3
<1> DEFINE q == t \o d
<1>3. b \o c = u \o t
  BY <1>1
<1> HIDE DEF u
<1>4. (u \o t) \o d = u \o q /\ (b \o t) \o d = b \o q
  <2>1. u \in Seq(Frame) /\ t \in Seq(Frame) /\ b \in Seq(Frame) /\ d \in Seq(Frame)
    BY <1>1, <1>2
  <2>2. (u \o t) \o d = u \o (t \o d)
    BY <2>1, Groups, ZenonT(40)
  <2>3. (b \o t) \o d = b \o (t \o d)
    BY <2>1, Groups, ZenonT(40)
  <2> QED BY <2>2, <2>3
<1>5. q \in Seq(Frame)
  BY <1>2
<1> HIDE DEF q
<1>6. (a \o u) \o q = a \o (u \o q) /\ (a \o b) \o q = a \o (b \o q)
  <2>1. a \in Seq(Frame) /\ b \in Seq(Frame) /\ u \in Seq(Frame) /\ q \in Seq(Frame)
    BY <1>2, <1>5
  <2>2. (a \o u) \o q = a \o (u \o q)
    BY <2>1, Groups, ZenonT(40)
  <2>3. (a \o b) \o q = a \o (b \o q)
    BY <2>1, Groups, ZenonT(40)
  <2> QED BY <2>2, <2>3
<1>7. a \o ((b \o c) \o d) = (a \o u) \o q
  BY <1>3, <1>4, <1>6
<1>8. a \o ((b \o t) \o d) = (a \o b) \o q
  BY <1>4, <1>6
<1> QED BY <1>1, <1>2, <1>7, <1>8 DEF u, q, h, t

LEMMA Nothing == ASSUME NEW s \in Seq(Frame) PROVE s \o <<>> = s /\ <<>> \o s = s
BY ConcatEmptySeq

-----------------------------------------------------------------------------

LEMMA SerialKept ==
  ASSUME Serial, UNCHANGED <<call, result, overlapped>>, Pending' \subseteq Pending \cup {Event, Notice}
  PROVE  Serial'
<1>1. Event \notin Asked /\ Notice \notin Asked
  BY ConnAssumption DEF Asked
<1>2. Waiting' = Waiting /\ GaveUp' = GaveUp /\ OwnReply' = OwnReply
  BY DEF Waiting, GaveUp, OwnReply
<1>3. \A m \in Pending' : m \in Asked => m \in Pending
  BY <1>1
<1> QED BY <1>2, <1>3 DEF Serial, SerialSound, Asked

LEMMA Started == Init => ConnInv
<1> SUFFICES ASSUME Init PROVE ConnInv
  OBVIOUS
<1>1. TypeOK
  <2>1. \A S : <<>> \in Seq(S)
    OBVIOUS
  <2>2. Len(<<>>) = 0 /\ 0 \in 0 .. MaxEvents
    BY ConnAssumption
  <2>3. /\ call \in [Commands -> {"idle", "waiting", "returned"}]
        /\ result \in [Commands -> Replies \cup {"none", "cancelled", "failed"}]
    BY DEF Init
  <2>4. Len(responseChan) <= ChanCap
    BY <2>2, ConnAssumption DEF Init
  <2> QED BY <2>1, <2>2, <2>3, <2>4 DEF Init, TypeOK
<1>2. PartsSound
  BY <1>1, Parts
<1>3. Holding = <<>>
  BY DEF Init, Holding
<1>4. Rest = <<>> /\ Line = <<>>
  BY <1>3, Nothing DEF Init, Rest, Line
<1>5. Range(<<>>) = {}
  BY DEF Range
<1>6. Tracks(<<>>, <<>>) /\ NoticeEnds(<<>>)
  BY <1>5 DEF Tracks, IsInjective, NoticeEnds
<1>7. EventsIn(<<>>) = {}
  BY DEF EventsIn
<1>8. EventsCounted
  BY <1>7, FS_EmptySet DEF Init, EventsCounted
<1>9. WrittenSound
  BY <1>5 DEF Init, WrittenSound
<1>10. LineSound
  BY <1>4, <1>5, <1>6 DEF Init, LineSound
<1>11. SerialSound
  <2>1. Pending = {}
    BY <1>4, <1>5 DEF Init, Pending
  <2>2. "none" \notin Asked
    BY ConnAssumption DEF Asked
  <2> QED BY <2>1, <2>2 DEF Init, SerialSound, OwnReply, Waiting
<1> QED BY <1>1, <1>8, <1>9, <1>10, <1>11 DEF Init, ConnInv, Serial

(* Steps that move nothing along the line.                                 *)
LEMMA QuietStep ==
  ASSUME ConnInv, TypeOK', loop' \in {"check", "read"} => held' = Event,
         UNCHANGED <<call, result, overlapped, written, consumed, responseChan, held, inbox, wire, events,
                     dispatched>>,
         (UNCHANGED exit /\ UNCHANGED socket) \/ (exit' = "closed" /\ socket' = "closed")
  PROVE  ConnInv'
<1>1. Line' = Line /\ Rest' = Rest
  BY DEF Line, Rest, Holding
<1>2. LineSound'
  BY <1>1 DEF ConnInv, LineSound
<1>3. EventsCounted'
  BY DEF ConnInv, EventsCounted
<1>4. WrittenSound'
  BY DEF ConnInv, WrittenSound
<1>5. Pending' \subseteq Pending
  BY <1>1 DEF Pending
<1>6. Serial'
  BY <1>5, SerialKept DEF ConnInv
<1> QED BY <1>2, <1>3, <1>4, <1>6 DEF ConnInv

LEMMA QuietActions ==
  ASSUME ConnInv, CheckContext \/ ReadError \/ DropResponse \/ Close \/ UNCHANGED vars
  PROVE  ConnInv'
<1> USE DEF callVars, loopVars, peerVars
<1>1. ASSUME CheckContext PROVE ConnInv'
  <2>1. TypeOK' /\ (loop' \in {"check", "read"} => held' = Event)
    BY <1>1 DEF CheckContext, ConnInv, TypeOK
  <2>2. /\ UNCHANGED <<call, result, overlapped, written, consumed, responseChan, held, inbox, wire, events,
                      dispatched>>
        /\ UNCHANGED exit /\ UNCHANGED socket
    BY <1>1 DEF CheckContext
  <2> QED BY <2>1, <2>2, QuietStep, Zenon
<1>2. ASSUME ReadError PROVE ConnInv'
  <2>1. TypeOK' /\ (loop' \in {"check", "read"} => held' = Event)
    BY <1>2 DEF ReadError, ConnInv, TypeOK
  <2>2. /\ UNCHANGED <<call, result, overlapped, written, consumed, responseChan, held, inbox, wire, events,
                      dispatched>>
        /\ UNCHANGED exit /\ UNCHANGED socket
    BY <1>2 DEF ReadError
  <2> QED BY <2>1, <2>2, QuietStep, Zenon
<1>3. ASSUME DropResponse PROVE ConnInv'
  <2>1. TypeOK' /\ (loop' \in {"check", "read"} => held' = Event)
    BY <1>3 DEF DropResponse, ConnInv, TypeOK
  <2>2. /\ UNCHANGED <<call, result, overlapped, written, consumed, responseChan, held, inbox, wire, events,
                      dispatched>>
        /\ UNCHANGED exit /\ UNCHANGED socket
    BY <1>3 DEF DropResponse
  <2> QED BY <2>1, <2>2, QuietStep, Zenon
<1>4. ASSUME Close PROVE ConnInv'
  <2>1. TypeOK' /\ (loop' \in {"check", "read"} => held' = Event)
    BY <1>4 DEF Close, ConnInv, TypeOK
  <2> QED BY <1>4, <2>1, QuietStep DEF Close
<1>5. ASSUME UNCHANGED vars PROVE ConnInv'
  <2>1. TypeOK' /\ (loop' \in {"check", "read"} => held' = Event)
    BY <1>5 DEF vars, ConnInv, TypeOK
  <2>2. /\ UNCHANGED <<call, result, overlapped, written, consumed, responseChan, held, inbox, wire, events,
                      dispatched>>
        /\ UNCHANGED exit /\ UNCHANGED socket
    BY <1>5 DEF vars
  <2> QED BY <2>1, <2>2, QuietStep, Zenon
<1> QED BY <1>1, <1>2, <1>3, <1>4, <1>5

LEMMA GiveUpKeeps ==
  ASSUME ConnInv, NEW c \in Commands, GiveUp(c)
  PROVE  ConnInv'
<1> USE DEF callVars, loopVars, peerVars
<1>1. TypeOK'
  BY DEF GiveUp, Return, ConnInv, TypeOK
<1>2. Line' = Line /\ Rest' = Rest
  BY DEF GiveUp, Return, Line, Rest, Holding
<1>3. LineSound'
  BY <1>2 DEF GiveUp, Return, ConnInv, LineSound
<1>4. EventsCounted'
  BY DEF GiveUp, Return, ConnInv, EventsCounted
<1>5. WrittenSound'
  BY DEF GiveUp, Return, ConnInv, TypeOK, WrittenSound
<1>6. c \in GaveUp'
  BY DEF GiveUp, Return, ConnInv, TypeOK, GaveUp
<1>7. (loop \in {"check", "read"} => held = Event)'
  BY DEF GiveUp, ConnInv
<1> QED BY <1>1, <1>3, <1>4, <1>5, <1>6, <1>7 DEF ConnInv, Serial

LEMMA SendCommandKeeps ==
  ASSUME ConnInv, NEW c \in Commands, SendCommand(c)
  PROVE  ConnInv'
<1> USE DEF callVars, loopVars, peerVars
<1>1. CASE /\ socket # "closed" /\ call[c] = "idle"
           /\ call' = [call EXCEPT ![c] = "waiting"]
           /\ wire' = Append(wire, c) /\ written' = Append(written, c)
           /\ overlapped' = (overlapped \/ Waiting # {} \/ exit = "closing")
           /\ UNCHANGED <<result, loop, held, dispatched, exit, socket, inbox, events, responseChan,
                         ctxDone, consumed>>
  <2>1. TypeOK /\ PartsSound
    BY Parts DEF ConnInv
  <2>2. c \in Asked /\ c \in Frame
    BY DEF Asked, Frame, Replies
  <2>3. wire' \in Seq(Asked) /\ written' \in Seq(Asked)
    BY <1>1, <2>1, <2>2 DEF TypeOK
  <2>4. TypeOK'
    BY <1>1, <2>1, <2>3 DEF TypeOK
  <2>5. Rest' = Rest /\ PartsSound'
    BY <1>1, <2>4, PartsAfter DEF Rest, Holding
  <2>6. Line' = Line \o <<c>>
    <3>1. Rest \in Seq(Frame) /\ wire \in Seq(Frame) /\ consumed \in Seq(Frame)
      BY <2>1 DEF PartsSound
    <3>2. Rest \o Append(wire, c) = (Rest \o wire) \o <<c>> /\ Rest \o wire \in Seq(Frame)
      BY <2>2, <3>1, Added, Joins
    <3>3. consumed \o ((Rest \o wire) \o <<c>>) = (consumed \o (Rest \o wire)) \o <<c>>
      <4> DEFINE e == <<c>>      l == Rest \o wire
      <4>1. e \in Seq(Frame) /\ l \in Seq(Frame)
        BY <2>2, <3>2, Ends
      <4> HIDE DEF e, l
      <4>2. consumed \o (l \o e) = (consumed \o l) \o e
        BY <3>1, <4>1, Groups, Zenon
      <4> QED BY <4>2 DEF e, l
    <3> QED BY <1>1, <2>1, <2>5, <3>2, <3>3 DEF PartsSound
  <2>7. Line \in Seq(Frame) /\ c \notin Range(written) /\ written \in Seq(Asked) /\ Tracks(Line, written)
    BY <1>1, <2>1, Joins DEF PartsSound, ConnInv, WrittenSound, LineSound
  <2>8. Tracks(Line', written') /\ Range(written') = Range(written) \cup {c}
    BY <1>1, <2>2, <2>6, <2>7, LastInLine
  <2>9. LineSound'
    BY <1>1, <2>5, <2>8 DEF ConnInv, LineSound
  <2>10. WrittenSound'
    BY <1>1, <2>1, <2>8, ConnAssumption DEF ConnInv, WrittenSound, TypeOK
  <2>11. EventsCounted'
    BY <1>1 DEF ConnInv, EventsCounted
  <2>12. Serial'
    <3> SUFFICES ASSUME ~overlapped', GaveUp' = {} PROVE SerialSound'
      BY DEF Serial
    <3>1. ~overlapped /\ Waiting = {} /\ exit = "idle" /\ GaveUp = {}
      BY <1>1, <2>1 DEF GaveUp, TypeOK, ConnInv, WrittenSound
    <3>2. SerialSound
      BY <3>1 DEF ConnInv, Serial
    <3>3. Waiting' = {c}
      BY <1>1, <2>1, <3>1 DEF Waiting, TypeOK
    <3>4. OwnReply'
      BY <1>1, <3>2 DEF SerialSound, OwnReply
    <3>5. Pending' \subseteq Pending \cup {c}
      <4>1. Range(wire') = Range(wire) \cup {c}
        BY <1>1, <2>1, <2>2, Ends DEF PartsSound
      <4> QED BY <1>1, <2>5, <4>1 DEF Pending
    <3>6. Exit \notin Pending
      <4>1. Exit \in Asked /\ Pending \subseteq Range(Line)
        BY <2>1 DEF Asked, Pending, PartsSound
      <4> QED BY <3>1, <4>1 DEF ConnInv, WrittenSound, LineSound, Tracks
    <3>7. \A m \in Pending' : (m \in Commands => m \in {c}) /\ m # Exit
      BY <3>1, <3>2, <3>5, <3>6, ConnAssumption DEF SerialSound
    <3> QED BY <3>3, <3>4, <3>7 DEF SerialSound
  <2>13. (loop \in {"check", "read"} => held = Event)'
    BY <1>1 DEF ConnInv
  <2> QED BY <2>4, <2>9, <2>10, <2>11, <2>12, <2>13 DEF ConnInv
<1>2. CASE /\ socket # "open" /\ call[c] = "idle" /\ Return(c, "failed")
           /\ UNCHANGED <<wire, written, overlapped, loop, held, dispatched, exit, socket, inbox, events,
                         responseChan, ctxDone, consumed>>
  <2>1. TypeOK'
    BY <1>2 DEF Return, ConnInv, TypeOK
  <2>2. Line' = Line /\ Rest' = Rest
    BY <1>2 DEF Line, Rest, Holding
  <2>3. LineSound'
    BY <1>2, <2>2 DEF ConnInv, LineSound
  <2>4. EventsCounted'
    BY <1>2 DEF ConnInv, EventsCounted
  <2>5. WrittenSound'
    BY <1>2 DEF Return, ConnInv, TypeOK, WrittenSound
  <2>6. Serial'
    <3> SUFFICES ASSUME ~overlapped', GaveUp' = {} PROVE SerialSound'
      BY DEF Serial
    <3>1. ~overlapped /\ GaveUp = {}
      BY <1>2 DEF Return, GaveUp, TypeOK, ConnInv, WrittenSound
    <3>2. SerialSound
      BY <3>1 DEF ConnInv, Serial
    <3>3. Waiting' = Waiting
      BY <1>2 DEF Return, Waiting, TypeOK, ConnInv
    <3>4. "failed" \notin Asked
      BY ConnAssumption DEF Asked
    <3>5. OwnReply'
      BY <1>2, <3>2, <3>4 DEF Return, TypeOK, ConnInv, SerialSound, OwnReply
    <3>6. Pending' = Pending
      BY <1>2, <2>2 DEF Pending
    <3> QED BY <3>2, <3>3, <3>5, <3>6 DEF SerialSound
  <2>7. (loop \in {"check", "read"} => held = Event)'
    BY <1>2 DEF ConnInv
  <2> QED BY <2>1, <2>3, <2>4, <2>5, <2>6, <2>7 DEF ConnInv
<1> QED BY <1>1, <1>2 DEF SendCommand

LEMMA ReadResponseKeeps ==
  ASSUME ConnInv, NEW c \in Commands, ReadResponse(c)
  PROVE  ConnInv'
<1> USE DEF callVars, loopVars, peerVars
<1> DEFINE h == Head(responseChan)
<1>1. TypeOK /\ PartsSound
  BY Parts DEF ConnInv
<1>2. /\ h \in Replies /\ h \in Frame /\ responseChan # <<>> /\ Tail(responseChan) \in Seq(Replies)
      /\ Len(Tail(responseChan)) <= ChanCap /\ Append(consumed, h) \in Seq(Replies)
  BY <1>1, ConnAssumption DEF ReadResponse, TypeOK, Frame
<1>3. TypeOK'
  BY <1>1, <1>2 DEF ReadResponse, Return, TypeOK
<1>4. PartsSound'
  BY <1>3, PartsAfter
<1>5. /\ consumed' = Append(consumed, h) /\ responseChan' = Tail(responseChan)
      /\ UNCHANGED <<inbox, wire, held, written, socket, exit, events, dispatched, loop, overlapped>>
      /\ Holding' = Holding
  BY DEF ReadResponse, Holding
<1>6. Rest = <<h>> \o Rest' /\ Line' = Line
  <2>1. /\ consumed \in Seq(Frame) /\ responseChan \in Seq(Frame) /\ Holding \in Seq(Frame)
        /\ inbox \in Seq(Frame) /\ wire \in Seq(Frame)
    BY <1>1 DEF PartsSound
  <2>2. /\ (responseChan \o Holding) \o inbox = <<h>> \o ((Tail(responseChan) \o Holding) \o inbox)
        /\ Append(consumed, h) \o (((Tail(responseChan) \o Holding) \o inbox) \o wire)
             = consumed \o (((responseChan \o Holding) \o inbox) \o wire)
    <3>1. responseChan # <<>> /\ responseChan \in Seq(Frame)
      BY <1>2, <2>1
    <3>2. \A a, f, d, e \in Seq(Frame) :
            /\ (responseChan \o f) \o d = <<h>> \o ((Tail(responseChan) \o f) \o d)
            /\ Append(a, h) \o (((Tail(responseChan) \o f) \o d) \o e)
                 = a \o (((responseChan \o f) \o d) \o e)
      BY <3>1, Taken, Zenon
    <3>3. \A d, e \in Seq(Frame) :
            /\ (responseChan \o Holding) \o d = <<h>> \o ((Tail(responseChan) \o Holding) \o d)
            /\ Append(consumed, h) \o (((Tail(responseChan) \o Holding) \o d) \o e)
                 = consumed \o (((responseChan \o Holding) \o d) \o e)
      BY <2>1, <3>2, ZenonT(40)
    <3> QED BY <2>1, <3>3, Zenon
  <2> QED BY <1>1, <1>4, <1>5, <2>2 DEF PartsSound, Rest
<1>7. Rest' \in Seq(Frame) /\ <<h>> \in Seq(Frame)
  BY <1>2, <1>4 DEF PartsSound
<1>8. NoticeEnds(Rest') /\ (h = Notice => Rest' = <<>>)
  <2>1. <<>> \in Seq(Frame) /\ <<>> \o <<h>> = <<h>>
    BY <1>7, Nothing
  <2>2. NoticeEnds((<<>> \o <<h>>) \o Rest')
    BY <1>6, <2>1 DEF ConnInv, LineSound
  <2>3. NoticeEnds(<<>> \o Rest') /\ (h = Notice => Rest' = <<>>)
    BY <1>2, <1>7, <2>1, <2>2, NoticeKept
  <2> QED BY <1>7, <2>3, Nothing
<1>9. Range(Rest) = {h} \cup Range(Rest')
  <2> DEFINE e == <<h>>      r == Rest'
  <2>1. e \in Seq(Frame) /\ r \in Seq(Frame) /\ Range(e) = {h} /\ Rest = e \o r
    BY <1>2, <1>6, <1>7, Ends
  <2> HIDE DEF e, r
  <2>2. Range(e \o r) = Range(e) \cup Range(r)
    BY <2>1, Joined
  <2> QED BY <2>1, <2>2 DEF r
<1>10. LineSound'
  BY <1>5, <1>6, <1>8, <1>9 DEF ConnInv, LineSound
<1>11. EventsCounted'
  BY <1>5 DEF ConnInv, EventsCounted
<1>12. WrittenSound'
  BY <1>1, <1>5 DEF ReadResponse, Return, TypeOK, ConnInv, WrittenSound
<1>13. Serial'
  <2> SUFFICES ASSUME ~overlapped', GaveUp' = {} PROVE SerialSound'
    BY DEF Serial
  <2>1. ~overlapped /\ GaveUp = {}
    BY <1>1, <1>5 DEF ReadResponse, Return, GaveUp, TypeOK, ConnInv, WrittenSound
  <2>2. SerialSound /\ c \in Waiting
    BY <2>1 DEF ConnInv, Serial, Waiting, ReadResponse
  <2>3. h \in Pending
    BY <1>9 DEF Pending
  <2>4. h \in {c, Notice}
    BY <1>2, <2>2, <2>3 DEF SerialSound, Replies, Asked
  <2>5. OwnReply'
    <3>1. Notice \notin Asked
      BY ConnAssumption DEF Asked
    <3> QED BY <1>1, <2>2, <2>4, <3>1 DEF ReadResponse, Return, TypeOK, SerialSound, OwnReply
  <2>6. Waiting' = {}
    BY <1>1, <2>2 DEF ReadResponse, Return, TypeOK, SerialSound, Waiting
  <2>7. Pending' \subseteq Pending
    BY <1>5, <1>9 DEF Pending
  <2>8. c \notin Pending'
    <3>1. CASE h = Notice
      <4>1. Range(Rest') = {}
        BY <1>8, <3>1 DEF Range
      <4>2. socket' # "open"
        BY <1>5, <1>9, <3>1 DEF ConnInv, LineSound
      <4> QED BY <4>1, <4>2 DEF Pending
    <3>2. CASE h = c
      <4> DEFINE s == consumed'      t == Rest' \o wire'
      <4>1. /\ s \in Seq(Frame) /\ t \in Seq(Frame) /\ Tracks(s \o t, written)
            /\ Range(t) = Range(Rest') \cup Range(wire')
        BY <1>4, <1>5, <1>10, Joins, Joined DEF PartsSound, LineSound
      <4>2. c \in Asked /\ c \in Range(s)
        <5>1. Range(Append(consumed, h)) = Range(consumed) \cup {h}
          BY <1>1, <1>2, Ends DEF PartsSound
        <5> QED BY <1>5, <3>2, <5>1 DEF Asked
      <4>3. c \notin Range(t)
        <5> HIDE DEF s, t
        <5>1. written \in Seq(Asked)
          BY <1>1 DEF TypeOK
        <5> QED BY <4>1, <4>2, <5>1, OnceInLine
      <4> QED BY <4>1, <4>3 DEF Pending
    <3> QED BY <2>4, <3>1, <3>2
  <2>9. \A m \in Pending' : m \notin Commands
    BY <2>2, <2>7, <2>8 DEF SerialSound
  <2> QED BY <2>5, <2>6, <2>9 DEF SerialSound
<1>14. (loop \in {"check", "read"} => held = Event)'
  BY <1>5 DEF ConnInv
<1> QED BY <1>3, <1>10, <1>11, <1>12, <1>13, <1>14 DEF ConnInv

LEMMA SendExitKeeps ==
  ASSUME ConnInv, SendExit
  PROVE  ConnInv'
<1> USE DEF callVars, loopVars, peerVars
<1>0. TypeOK /\ PartsSound
  BY Parts DEF ConnInv
<1>1. CASE /\ socket # "closed" /\ exit = "idle" /\ exit' = "closing"
           /\ wire' = Append(wire, Exit) /\ written' = Append(written, Exit)
           /\ overlapped' = (overlapped \/ Waiting # {})
           /\ UNCHANGED <<call, result, loop, held, dispatched, socket, inbox, events, responseChan, ctxDone,
                         consumed>>
  <2>2. Exit \in Asked /\ Exit \in Frame
    BY DEF Asked, Frame, Replies
  <2>3. wire' \in Seq(Asked) /\ written' \in Seq(Asked)
    BY <1>0, <1>1, <2>2 DEF TypeOK
  <2>4. TypeOK'
    BY <1>0, <1>1, <2>3 DEF TypeOK
  <2>5. Rest' = Rest /\ PartsSound'
    BY <1>1, <2>4, PartsAfter DEF Rest, Holding
  <2>6. Line' = Line \o <<Exit>>
    <3>1. Rest \in Seq(Frame) /\ wire \in Seq(Frame) /\ consumed \in Seq(Frame)
      BY <1>0 DEF PartsSound
    <3>2. Rest \o Append(wire, Exit) = (Rest \o wire) \o <<Exit>> /\ Rest \o wire \in Seq(Frame)
      BY <2>2, <3>1, Added, Joins
    <3>3. consumed \o ((Rest \o wire) \o <<Exit>>) = (consumed \o (Rest \o wire)) \o <<Exit>>
      <4> DEFINE e == <<Exit>>      l == Rest \o wire
      <4>1. e \in Seq(Frame) /\ l \in Seq(Frame)
        BY <2>2, <3>2, Ends
      <4> HIDE DEF e, l
      <4>2. consumed \o (l \o e) = (consumed \o l) \o e
        BY <3>1, <4>1, Groups, Zenon
      <4> QED BY <4>2 DEF e, l
    <3> QED BY <1>0, <1>1, <2>5, <3>2, <3>3 DEF PartsSound
  <2>7. Line \in Seq(Frame) /\ Exit \notin Range(written) /\ written \in Seq(Asked) /\ Tracks(Line, written)
    BY <1>0, <1>1, Joins DEF PartsSound, ConnInv, WrittenSound, LineSound
  <2>8. Tracks(Line', written') /\ Range(written') = Range(written) \cup {Exit}
    BY <1>1, <2>2, <2>6, <2>7, LastInLine
  <2>9. LineSound'
    BY <1>1, <2>5, <2>8 DEF ConnInv, LineSound
  <2>10. WrittenSound'
    BY <1>0, <1>1, <2>8, ConnAssumption DEF ConnInv, WrittenSound, TypeOK
  <2>11. EventsCounted'
    BY <1>1 DEF ConnInv, EventsCounted
  <2>12. Serial'
    <3> SUFFICES ASSUME ~overlapped', GaveUp' = {} PROVE SerialSound'
      BY DEF Serial
    <3>1. ~overlapped /\ Waiting = {} /\ GaveUp = {} /\ Waiting' = {} /\ (OwnReply => OwnReply')
      BY <1>1 DEF GaveUp, Waiting, OwnReply
    <3>2. SerialSound
      BY <3>1 DEF ConnInv, Serial
    <3>3. Pending' \subseteq Pending \cup {Exit}
      <4>1. Range(wire') = Range(wire) \cup {Exit}
        BY <1>0, <1>1, <2>2, Ends DEF PartsSound
      <4> QED BY <1>1, <2>5, <4>1 DEF Pending
    <3>4. \A m \in Pending' : m \notin Commands
      BY <3>1, <3>2, <3>3, ConnAssumption DEF SerialSound
    <3> QED BY <3>1, <3>2, <3>4 DEF SerialSound
  <2>13. (loop \in {"check", "read"} => held = Event)'
    BY <1>1 DEF ConnInv
  <2> QED BY <2>4, <2>9, <2>10, <2>11, <2>12, <2>13 DEF ConnInv
<1>2. CASE /\ exit = "idle" /\ exit' = "closing"
           /\ UNCHANGED <<wire, written, overlapped, call, result, loop, held, dispatched, socket, inbox, events,
                         responseChan, ctxDone, consumed>>
  <2>1. TypeOK'
    BY <1>0, <1>2 DEF TypeOK
  <2>2. Line' = Line /\ Rest' = Rest
    BY <1>2 DEF Line, Rest, Holding
  <2>3. LineSound'
    BY <1>2, <2>2 DEF ConnInv, LineSound
  <2>4. EventsCounted'
    BY <1>2 DEF ConnInv, EventsCounted
  <2>5. WrittenSound'
    BY <1>2 DEF ConnInv, WrittenSound
  <2>6. Serial'
    <3>1. Pending' \subseteq Pending
      BY <1>2, <2>2 DEF Pending
    <3> QED BY <1>2, <3>1, SerialKept DEF ConnInv
  <2>7. (loop \in {"check", "read"} => held = Event)'
    BY <1>2 DEF ConnInv
  <2> QED BY <2>1, <2>3, <2>4, <2>5, <2>6, <2>7 DEF ConnInv
<1> QED BY <1>1, <1>2 DEF SendExit

LEMMA ReadFrameKeeps ==
  ASSUME ConnInv, ReadFrame
  PROVE  ConnInv'
<1> USE DEF callVars, loopVars, peerVars
<1>1. TypeOK /\ PartsSound /\ held = Event /\ Holding = <<>> /\ inbox # <<>>
  BY Parts DEF ConnInv, ReadFrame, Holding
<1>2. /\ consumed \in Seq(Frame) /\ responseChan \in Seq(Frame) /\ inbox \in Seq(Frame) /\ wire \in Seq(Frame)
      /\ Rest = responseChan \o inbox
  BY <1>1, Nothing DEF PartsSound, Rest
<1>3. /\ Head(inbox) \in Replies \cup {Event} /\ Tail(inbox) \in Seq(Replies \cup {Event})
      /\ Tail(inbox) \in Seq(Frame) /\ Head(inbox) \in Frame
  BY <1>1, Split DEF TypeOK, Frame
<1>4. /\ IsFiniteSet(EventsIn(Tail(inbox))) /\ Cardinality(EventsIn(Tail(inbox))) \in Nat
      /\ Cardinality(EventsIn(inbox)) =
           Cardinality(EventsIn(Tail(inbox))) + (IF Head(inbox) = Event THEN 1 ELSE 0)
  BY <1>1, <1>2, EventsBegin, FS_CardinalityType DEF ConnInv, EventsCounted
<1>5. /\ inbox' = Tail(inbox)
      /\ UNCHANGED <<call, result, exit, written, overlapped, wire, events, socket, responseChan, ctxDone,
                    consumed>>
  BY DEF ReadFrame
<1>6. WrittenSound'
  BY <1>5 DEF ConnInv, WrittenSound
<1>7. CASE Head(inbox) # Event
  <2>1. loop' = "deliver" /\ held' = Head(inbox) /\ dispatched' = dispatched
    BY <1>7 DEF ReadFrame
  <2>2. TypeOK'
    BY <1>1, <1>3, <1>5, <1>7, <2>1 DEF TypeOK
  <2>3. Rest' = Rest /\ Line' = Line
    <3>1. Holding' = <<Head(inbox)>>
      BY <1>7, <2>1 DEF Holding
    <3>2. (responseChan \o <<Head(inbox)>>) \o Tail(inbox) = responseChan \o inbox
      BY <1>1, <1>2, Shifted
    <3>3. Rest' = Rest
      BY <1>2, <1>5, <3>1, <3>2 DEF Rest
    <3> QED BY <1>1, <1>5, <2>2, <3>3, PartsAfter DEF PartsSound
  <2>4. LineSound'
    BY <1>5, <2>3 DEF ConnInv, LineSound
  <2>5. EventsCounted'
    BY <1>4, <1>5, <1>7, <2>1 DEF ConnInv, TypeOK, EventsCounted
  <2>6. Pending' \subseteq Pending
    BY <1>5, <2>3 DEF Pending
  <2>7. Serial'
    BY <1>5, <2>6, SerialKept DEF ConnInv
  <2> QED BY <1>6, <2>1, <2>2, <2>4, <2>5, <2>7 DEF ConnInv
<1>8. CASE Head(inbox) = Event
  <2>1. loop' = "check" /\ held' = held /\ dispatched' = dispatched + 1 /\ Holding' = <<>>
    BY <1>1, <1>8 DEF ReadFrame, Holding
  <2>2. EventsCounted' /\ dispatched' \in 0 .. MaxEvents
    <3> DEFINE n == Cardinality(EventsIn(Tail(inbox)))
    <3>1. n \in Nat /\ Cardinality(EventsIn(inbox)) = n + 1
      BY <1>4, <1>8
    <3>2. Cardinality(EventsIn(inbox))' = n /\ IsFiniteSet(EventsIn(inbox))' /\ events' = events
      BY <1>4, <1>5 DEF EventsIn
    <3>3. /\ dispatched \in 0 .. MaxEvents /\ events \in 0 .. MaxEvents
          /\ dispatched + Cardinality(EventsIn(inbox)) = events
      BY <1>1 DEF ConnInv, TypeOK, EventsCounted
    <3> HIDE DEF n
    <3>4. dispatched' + n = events /\ dispatched' \in 0 .. MaxEvents
      BY <2>1, <3>1, <3>3, ConnAssumption
    <3> QED BY <3>2, <3>4 DEF EventsCounted
  <2>3. TypeOK'
    BY <1>1, <1>3, <1>5, <2>1, <2>2 DEF TypeOK
  <2>4. Rest' = responseChan \o Tail(inbox)
    BY <1>2, <1>5, <2>1, Nothing DEF Rest
  <2> DEFINE a == consumed \o responseChan      t == Tail(inbox) \o wire
  <2>5. /\ Rest = (responseChan \o <<Event>>) \o Tail(inbox)
        /\ Line = (a \o <<Event>>) \o t /\ Line' = a \o t
        /\ a \in Seq(Frame) /\ t \in Seq(Frame)
    <3>1. /\ responseChan \o inbox = (responseChan \o <<Event>>) \o Tail(inbox)
          /\ consumed \o ((responseChan \o inbox) \o wire) = (a \o <<Event>>) \o t
          /\ consumed \o ((responseChan \o Tail(inbox)) \o wire) = a \o t
          /\ a \in Seq(Frame) /\ t \in Seq(Frame)
      <4>1. \A p, q, r, w \in Seq(Frame) : r # <<>> =>
             /\ q \o r = (q \o <<Head(r)>>) \o Tail(r)
             /\ p \o ((q \o r) \o w) = ((p \o q) \o <<Head(r)>>) \o (Tail(r) \o w)
             /\ p \o ((q \o Tail(r)) \o w) = (p \o q) \o (Tail(r) \o w)
             /\ p \o q \in Seq(Frame) /\ Tail(r) \o w \in Seq(Frame)
        BY Dropped
      <4>2. \A r, w \in Seq(Frame) : r # <<>> =>
             /\ responseChan \o r = (responseChan \o <<Head(r)>>) \o Tail(r)
             /\ consumed \o ((responseChan \o r) \o w) = (a \o <<Head(r)>>) \o (Tail(r) \o w)
             /\ consumed \o ((responseChan \o Tail(r)) \o w) = a \o (Tail(r) \o w)
             /\ a \in Seq(Frame) /\ Tail(r) \o w \in Seq(Frame)
        BY <1>2, <4>1, Zenon
      <4>3. /\ responseChan \o inbox = (responseChan \o <<Head(inbox)>>) \o Tail(inbox)
            /\ consumed \o ((responseChan \o inbox) \o wire) = (a \o <<Head(inbox)>>) \o t
            /\ consumed \o ((responseChan \o Tail(inbox)) \o wire) = a \o t
            /\ a \in Seq(Frame) /\ t \in Seq(Frame)
        BY <1>1, <1>2, <4>2, Zenon
      <4> QED BY <1>8, <4>3
    <3>2. Line' = consumed \o (Rest' \o wire)
      BY <1>5, <2>3, PartsAfter DEF PartsSound
    <3> HIDE DEF a, t
    <3>3. Line = consumed \o (Rest \o wire)
      BY <1>1 DEF PartsSound
    <3> QED BY <1>2, <2>4, <3>1, <3>2, <3>3
  <2> HIDE DEF a, t
  <2>6. Event \in Frame \ Asked
    BY ConnAssumption DEF Frame, Asked
  <2>7. Tracks(Line', written')
    <3>1. written \in Seq(Asked) /\ written' = written
      BY <1>1, <1>5 DEF TypeOK
    <3> QED BY <2>5, <2>6, <3>1, OthersPass DEF ConnInv, LineSound
  <2>8. NoticeEnds(Rest') /\ Range(Rest') \subseteq Range(Rest)
    <3>1. NoticeEnds((responseChan \o <<Event>>) \o Tail(inbox))
      BY <2>5 DEF ConnInv, LineSound
    <3>2. NoticeEnds(responseChan \o Tail(inbox))
      BY <1>2, <1>3, <2>6, <3>1, NoticeKept
    <3>3. Range(Tail(inbox)) \subseteq Range(inbox)
      BY <1>1, <1>2, Split
    <3>4. /\ Range(responseChan \o Tail(inbox)) = Range(responseChan) \cup Range(Tail(inbox))
          /\ Range(responseChan \o inbox) = Range(responseChan) \cup Range(inbox)
      BY <1>2, <1>3, Joined
    <3> QED BY <1>2, <2>4, <3>2, <3>3, <3>4
  <2>9. LineSound'
    BY <1>5, <2>7, <2>8 DEF ConnInv, LineSound
  <2>10. Pending' \subseteq Pending
    BY <1>5, <2>8 DEF Pending
  <2>11. Serial'
    BY <1>5, <2>10, SerialKept DEF ConnInv
  <2> QED BY <1>1, <1>6, <2>1, <2>2, <2>3, <2>9, <2>11 DEF ConnInv
<1> QED BY <1>7, <1>8

LEMMA DeliverKeeps ==
  ASSUME ConnInv, Deliver
  PROVE  ConnInv'
<1> USE DEF callVars, loopVars, peerVars
<1>1. TypeOK /\ PartsSound /\ held # Event /\ held \in Replies /\ held \in Frame /\ Holding = <<held>>
  BY Parts DEF ConnInv, Deliver, TypeOK, Holding, Frame
<1>2. /\ responseChan' = Append(responseChan, held) /\ held' = Event /\ Holding' = <<>> /\ loop' = "check"
      /\ UNCHANGED <<call, result, exit, written, overlapped, wire, inbox, events, socket, dispatched, ctxDone,
                    consumed>>
  BY DEF Deliver, Holding
<1>3. TypeOK'
  <2>1. Append(responseChan, held) \in Seq(Replies) /\ Len(Append(responseChan, held)) <= ChanCap
    BY <1>1, ConnAssumption DEF Deliver, TypeOK
  <2>2. held' \in Replies \cup {Event} /\ (loop' = "deliver" => held' # Event)
    BY <1>2
  <2> QED BY <1>1, <1>2, <2>1, <2>2 DEF TypeOK
<1>4. Rest' = Rest /\ Line' = Line
  <2>1. Append(responseChan, held) = responseChan \o <<held>> /\ Append(responseChan, held) \in Seq(Frame)
    BY <1>1, Ends DEF PartsSound
  <2>2. Append(responseChan, held) \o <<>> = Append(responseChan, held)
    BY <2>1, Nothing
  <2>3. Rest' = Rest
    BY <1>1, <1>2, <2>1, <2>2 DEF Rest
  <2> QED BY <1>1, <1>2, <1>3, <2>3, PartsAfter DEF PartsSound
<1>5. LineSound'
  BY <1>2, <1>4 DEF ConnInv, LineSound
<1>6. EventsCounted'
  BY <1>2 DEF ConnInv, EventsCounted
<1>7. WrittenSound'
  BY <1>2 DEF ConnInv, WrittenSound
<1>8. Pending' \subseteq Pending
  BY <1>2, <1>4 DEF Pending
<1>9. Serial'
  BY <1>2, <1>8, SerialKept DEF ConnInv
<1> QED BY <1>2, <1>3, <1>5, <1>6, <1>7, <1>9 DEF ConnInv

LEMMA AnswerKeeps ==
  ASSUME ConnInv, Answer
  PROVE  ConnInv'
<1> USE DEF callVars, loopVars, peerVars
<1> DEFINE x == Head(wire)
<1>1. TypeOK /\ PartsSound /\ wire # <<>> /\ socket = "open"
  BY Parts DEF ConnInv, Answer
<1>2. /\ consumed \in Seq(Frame) /\ responseChan \o Holding \in Seq(Frame) /\ inbox \in Seq(Frame)
      /\ wire \in Seq(Frame) /\ Rest \in Seq(Frame)
  BY <1>1 DEF PartsSound
<1>3. x \in Asked /\ x \in Frame /\ x # Event /\ x # Notice /\ Tail(wire) \in Seq(Asked)
  BY <1>1, ConnAssumption DEF TypeOK, Frame, Replies, Asked
<1>4. /\ inbox' = Append(inbox, x) /\ wire' = Tail(wire) /\ Holding' = Holding
      /\ UNCHANGED <<call, result, exit, written, overlapped, loop, held, dispatched, events, socket,
                    responseChan, ctxDone, consumed>>
  BY DEF Answer, Holding
<1>5. TypeOK'
  <2>1. Append(inbox, x) \in Seq(Replies \cup {Event})
    BY <1>1, <1>3 DEF TypeOK, Replies
  <2> QED BY <1>1, <1>3, <1>4, <2>1 DEF TypeOK
<1>6. Rest' = Append(Rest, x) /\ Line' = Line
  <2>1. (responseChan \o Holding) \o Append(inbox, x) = Rest \o <<x>>
    BY <1>2, <1>3, Added DEF Rest
  <2>2. Append(Rest, x) = Rest \o <<x>>
    BY <1>2, <1>3, Ends
  <2>3. Rest' = Append(Rest, x)
    BY <1>4, <2>1, <2>2 DEF Rest
  <2>4. Append(Rest, x) \o Tail(wire) = Rest \o wire
    BY <1>1, <1>2, Passed
  <2>5. Line' = consumed \o (Rest' \o wire')
    BY <1>4, <1>5, PartsAfter DEF PartsSound
  <2>6. Line = consumed \o (Rest \o wire)
    BY <1>1 DEF PartsSound
  <2> HIDE DEF x
  <2> QED BY <1>4, <2>3, <2>4, <2>5, <2>6
<1>7. Range(Rest') = Range(Rest) \cup {x} /\ Range(wire) = {x} \cup Range(wire')
  <2>1. Range(wire) = {x} \cup Range(Tail(wire))
    BY <1>1, <1>2, Split
  <2>2. Range(Append(Rest, x)) = Range(Rest) \cup {x}
    BY <1>2, <1>3, Ends
  <2> QED BY <1>4, <1>6, <2>1, <2>2
<1>8. LineSound'
  <2>1. Notice \notin Range(Rest)
    BY <1>1 DEF ConnInv, LineSound
  <2>2. NoticeEnds(Append(Rest, x))
    BY <1>2, <1>3, <2>1, NoticeAppended
  <2> QED BY <1>3, <1>4, <1>6, <1>7, <2>1, <2>2 DEF ConnInv, LineSound
<1>9. EventsCounted'
  <2> DEFINE n == Cardinality(EventsIn(inbox))
  <2>1. /\ IsFiniteSet(EventsIn(Append(inbox, x)))
        /\ Cardinality(EventsIn(Append(inbox, x))) = n + (IF x = Event THEN 1 ELSE 0)
        /\ n \in Nat /\ dispatched + n = events
    BY <1>2, <1>3, EventsEnd, FS_CardinalityType DEF ConnInv, EventsCounted
  <2>2. Cardinality(EventsIn(Append(inbox, x))) = n
    BY <1>3, <2>1
  <2> HIDE DEF n
  <2> QED BY <1>4, <2>1, <2>2 DEF EventsCounted
<1>10. WrittenSound'
  BY <1>4 DEF ConnInv, WrittenSound
<1>11. Pending' \subseteq Pending
  BY <1>1, <1>4, <1>7 DEF Pending
<1>12. Serial'
  BY <1>4, <1>11, SerialKept DEF ConnInv
<1> QED BY <1>4, <1>5, <1>8, <1>9, <1>10, <1>12 DEF ConnInv

(* FreeSWITCH sends a frame that is no reply.                              *)
LEMMA Sent ==
  ASSUME ConnInv, TypeOK', NEW x \in {Event, Notice}, socket = "open", inbox' = Append(inbox, x),
         UNCHANGED <<call, result, exit, written, overlapped, loop, held, dispatched, wire, responseChan,
                     consumed>>,
         socket' = IF x = Notice THEN "lost" ELSE "open",
         events' = IF x = Event THEN events + 1 ELSE events
  PROVE  ConnInv'
<1>1. TypeOK /\ PartsSound /\ x \in Frame \ Asked /\ x \in Frame
  BY Parts, ConnAssumption DEF ConnInv, Frame, Replies, Asked
<1>2. /\ consumed \in Seq(Frame) /\ responseChan \o Holding \in Seq(Frame) /\ inbox \in Seq(Frame)
      /\ wire \in Seq(Frame) /\ Rest \in Seq(Frame)
  BY <1>1 DEF PartsSound
<1> DEFINE a == consumed \o Rest
<1>3. Rest' = Append(Rest, x) /\ Line' = (a \o <<x>>) \o wire /\ Line = a \o wire /\ a \in Seq(Frame)
  <2>1. (responseChan \o Holding) \o Append(inbox, x) = Rest \o <<x>> /\ Append(Rest, x) = Rest \o <<x>>
    BY <1>1, <1>2, Added, Ends, SMTT(30) DEF Rest
  <2>2. Holding' = Holding
    BY DEF Holding
  <2>3. Rest' = Append(Rest, x)
    BY <2>1, <2>2 DEF Rest
  <2>4. /\ consumed \o (Append(Rest, x) \o wire) = (a \o <<x>>) \o wire
        /\ consumed \o (Rest \o wire) = a \o wire
    <3>1. \A p, q, r \in Seq(Frame) :
            /\ p \o (Append(q, x) \o r) = ((p \o q) \o <<x>>) \o r
            /\ p \o (q \o r) = (p \o q) \o r
      <4>1. x \in Frame
        BY <1>1
      <4> QED BY <4>1, Inserted, Zenon
    <3> QED BY <1>2, <3>1, ZenonT(40)
  <2>5. Line' = consumed \o (Rest' \o wire)
    BY PartsAfter DEF PartsSound
  <2>6. Line = consumed \o (Rest \o wire)
    BY <1>1 DEF PartsSound
  <2>7. a \in Seq(Frame)
    BY <1>2, Joins, Zenon
  <2> HIDE DEF a
  <2> QED BY <2>3, <2>4, <2>5, <2>6, <2>7
<1> HIDE DEF a
<1>4. Range(Rest') = Range(Rest) \cup {x}
  BY <1>1, <1>2, <1>3, Ends
<1>5. LineSound'
  <2>1. Notice \notin Range(Rest)
    BY DEF ConnInv, LineSound
  <2>2. NoticeEnds(Append(Rest, x))
    BY <1>1, <1>2, <2>1, NoticeAppended
  <2>3. Tracks((a \o <<x>>) \o wire, written)
    <3>1. written \in Seq(Asked) /\ Tracks(a \o wire, written)
      BY <1>1, <1>3 DEF TypeOK, ConnInv, LineSound
    <3> QED BY <1>1, <1>2, <1>3, <3>1, OthersPass
  <2>4. Notice \in Range(Rest') => x = Notice
    BY <1>4, <2>1
  <2> QED BY <1>3, <2>2, <2>3, <2>4 DEF LineSound
<1>6. EventsCounted'
  <2> DEFINE n == Cardinality(EventsIn(inbox))
  <2>1. /\ IsFiniteSet(EventsIn(Append(inbox, x)))
        /\ Cardinality(EventsIn(Append(inbox, x))) = n + (IF x = Event THEN 1 ELSE 0)
        /\ n \in Nat /\ dispatched + n = events
    BY <1>1, <1>2, EventsEnd, FS_CardinalityType DEF ConnInv, EventsCounted
  <2>2. dispatched \in Nat /\ events \in Nat
    BY <1>1, ConnAssumption DEF TypeOK
  <2> HIDE DEF n
  <2>3. dispatched + Cardinality(EventsIn(Append(inbox, x))) = events'
    BY <2>1, <2>2
  <2> QED BY <2>1, <2>3 DEF EventsCounted
<1>7. WrittenSound'
  BY DEF ConnInv, WrittenSound
<1>8. Pending' \subseteq Pending \cup {Event, Notice}
  BY <1>4 DEF Pending
<1>9. Serial'
  BY <1>8, SerialKept DEF ConnInv
<1> QED BY <1>5, <1>6, <1>7, <1>9 DEF ConnInv

LEMMA SendEventKeeps ==
  ASSUME ConnInv, SendEvent
  PROVE  ConnInv'
<1> USE DEF callVars, loopVars, peerVars
<1>1. /\ socket = "open" /\ inbox' = Append(inbox, Event) /\ events' = events + 1 /\ events < MaxEvents
      /\ UNCHANGED <<call, result, exit, written, overlapped, loop, held, dispatched, wire, responseChan,
                    ctxDone, consumed>>
      /\ socket' = "open"
  BY DEF SendEvent
<1>2. TypeOK'
  <2>1. events' \in 0 .. MaxEvents /\ inbox' \in Seq(Replies \cup {Event})
    BY <1>1, ConnAssumption DEF ConnInv, TypeOK
  <2> QED BY <1>1, <2>1 DEF ConnInv, TypeOK
<1> QED BY <1>1, <1>2, Sent, ConnAssumption

LEMMA LoseSocketKeeps ==
  ASSUME ConnInv, LoseSocket
  PROVE  ConnInv'
<1> USE DEF callVars, loopVars, peerVars
<1>1. /\ socket = "open" /\ socket' = "lost" /\ events' = events
      /\ UNCHANGED <<call, result, exit, written, overlapped, loop, held, dispatched, wire, responseChan,
                    ctxDone, consumed>>
  BY DEF LoseSocket
<1>2. CASE inbox' = Append(inbox, Notice)
  <2>1. TypeOK'
    <3>1. inbox' \in Seq(Replies \cup {Event})
      BY <1>2 DEF ConnInv, TypeOK, Replies
    <3> QED BY <1>1, <3>1 DEF ConnInv, TypeOK
  <2> QED BY <1>1, <1>2, <2>1, Sent, ConnAssumption
<1>3. CASE inbox' = inbox
  <2>1. TypeOK'
    BY <1>1, <1>3 DEF ConnInv, TypeOK
  <2>2. Line' = Line /\ Rest' = Rest
    BY <1>1, <1>3 DEF Line, Rest, Holding
  <2>3. LineSound'
    BY <1>1, <2>2 DEF ConnInv, LineSound
  <2>4. EventsCounted'
    BY <1>1, <1>3 DEF ConnInv, EventsCounted
  <2>5. WrittenSound'
    BY <1>1 DEF ConnInv, WrittenSound
  <2>6. Pending' \subseteq Pending
    BY <1>1, <2>2 DEF Pending
  <2>7. Serial'
    BY <1>1, <2>6, SerialKept DEF ConnInv
  <2>8. (loop \in {"check", "read"} => held = Event)'
    BY <1>1 DEF ConnInv
  <2> QED BY <2>1, <2>3, <2>4, <2>5, <2>7, <2>8 DEF ConnInv
<1> QED BY <1>2, <1>3 DEF LoseSocket

(* The responses are matched to their calls by order alone, whatever the   *)
(* commands, the channel's capacity and the number of events: from the     *)
(* write to the call that takes it, none is lost, repeated or overtaken,   *)
(* and calls that come one after the other without giving up each get      *)
(* their own (SendCommandWithContext, receiveLoop, ExitAndClose).          *)
THEOREM ResponsesAlwaysMatch == Spec => []ResponsesMatch
<1>1. Init => ConnInv
  BY Started
<1>2. ConnInv /\ [Next]_vars => ConnInv'
  <2> SUFFICES ASSUME ConnInv, [Next]_vars PROVE ConnInv'
    OBVIOUS
  <2>1. ASSUME NEW c \in Commands, SendCommand(c) \/ ReadResponse(c) \/ GiveUp(c) PROVE ConnInv'
    BY <2>1, SendCommandKeeps, ReadResponseKeeps, GiveUpKeeps
  <2>2. CASE SendExit
    BY <2>2, SendExitKeeps
  <2>3. CASE ReadFrame
    BY <2>3, ReadFrameKeeps
  <2>4. CASE Deliver
    BY <2>4, DeliverKeeps
  <2>5. CASE Answer
    BY <2>5, AnswerKeeps
  <2>6. CASE SendEvent
    BY <2>6, SendEventKeeps
  <2>7. CASE LoseSocket
    BY <2>7, LoseSocketKeeps
  <2>8. CASE CheckContext \/ ReadError \/ DropResponse \/ Close \/ UNCHANGED vars
    BY <2>8, QuietActions
  <2> QED BY <2>1, <2>2, <2>3, <2>4, <2>5, <2>6, <2>7, <2>8 DEF Next
<1>3. ConnInv => ResponsesMatch
  BY DEF ConnInv, LineSound, Tracks, EventsCounted, EventsIn, Serial, SerialSound, ResponsesMatch,
         ResponsesInOrder, SerialCallsMatch
<1> QED BY <1>1, <1>2, <1>3, PTL DEF Spec
=============================================================================
