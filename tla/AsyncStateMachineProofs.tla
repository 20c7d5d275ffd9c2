------------------------ MODULE AsyncStateMachineProofs ------------------------
(***************************************************************************)
(* What the applications may rely on, for records and wires of any size    *)
(* and applications that write as much as they like: an operation raises   *)
(* only where the peer has closed its socket or a handshake does not fit   *)
(* the wire, and what the peer wrote is reported in order.                 *)
(*                                                                         *)
(* The invariant is about two things.  The machine of an end: its result   *)
(* says whether an operation is on, only one is, and what that one still   *)
(* has to do.  And the bytes that are on their way to an end that goes on  *)
(* reading, from the ones the suspended generator has read, through the    *)
(* read-ahead buffer and the wire, to those the peer has still to send:    *)
(* they are whole records, one after the other, the first of which is the  *)
(* next to report and the last of which is the last that was written.      *)
(* That needs a wire that takes a flight of the handshake; on a shorter    *)
(* one no handshake ends, and a smaller invariant says so.                 *)
(***************************************************************************)
EXTENDS AsyncStateMachine, NumberTheorems, SequenceTheorems

-----------------------------------------------------------------------------
(***************************************************************************)
(* Streams of bytes.                                                       *)
(***************************************************************************)
Bytes == {"hello", "data", "close"} \X Nat \X (1..RecordLength)

\* The number of a byte's record: the handshake's comes before the data.
No(b) == IF b[1] = "hello" THEN 0 ELSE b[2]

\* b begins a record that may come after record number m, -1 before all.
Starts(m, b) ==
    /\ b[3] = 1
    /\ \/ b[1] = "hello" /\ m = -1
       \/ b[1] = "data" /\ m >= 0 /\ b[2] = m + 1
       \/ b[1] = "close" /\ m >= 0

Follows(a, b) ==
    \/ a[3] < RecordLength /\ b = <<a[1], a[2], a[3] + 1>>
    \/ a[3] = RecordLength /\ a[1] # "close" /\ Starts(No(a), b)

\* b ends the last record of an end that has written w and is closing or not.
Finishes(b, w, closing) ==
    /\ b[3] = RecordLength
    /\ IF closing THEN b[1] = "close" ELSE b[1] # "close" /\ No(b) = w

\* What comes after record number m from such an end.
Stream(s, m, w, closing) ==
    /\ s \in Seq(Bytes) /\ m \in Int /\ w \in Nat
    /\ \A k \in 1..Len(s) - 1 : Follows(s[k], s[k + 1])
    /\ s = <<>> => ~closing /\ m = w
    /\ s # <<>> => Starts(m, s[1]) /\ Finishes(s[Len(s)], w, closing)
    /\ \A k \in 1..Len(s) : s[k][1] = "data" => s[k][2] <= w

LEMMA AByte ==
    ASSUME NEW b \in Bytes
    PROVE  /\ b[1] \in {"hello", "data", "close"}
           /\ b[2] \in Nat /\ b[3] \in 1..RecordLength
           /\ b = <<b[1], b[2], b[3]>>
  BY DEF Bytes

\* The first bytes are those of one record, in order.
LEMMA FirstRecord ==
    ASSUME NEW s, NEW m, NEW w, NEW c, Stream(s, m, w, c), s # <<>>
    PROVE  \A n \in 1..Len(s) :
               n <= RecordLength => s[n] = <<s[1][1], s[1][2], n>>
  <1> DEFINE S == {k \in Nat :
                      k + 1 <= Len(s) /\ k + 1 <= RecordLength =>
                          s[k + 1] = <<s[1][1], s[1][2], k + 1>>}
  <1>1. /\ s \in Seq(Bytes) /\ Len(s) \in Nat /\ 1 \in 1..Len(s)
        /\ s[1] \in Bytes /\ s[1][3] = 1
    BY DEF Stream, Starts
  <1>2. 0 \in S
    <2>1. s[1] = <<s[1][1], s[1][2], s[1][3]>>
      BY <1>1, AByte
    <2> QED BY <1>1, <2>1
  <1>3. ASSUME NEW k \in Nat, k \in S
        PROVE  k + 1 \in S
    <2> SUFFICES ASSUME k + 2 <= Len(s), k + 2 <= RecordLength
                 PROVE  s[k + 2] = <<s[1][1], s[1][2], k + 2>>
      OBVIOUS
    <2> DEFINE a == s[k + 1]
    <2>1. a = <<s[1][1], s[1][2], k + 1>>
      BY <1>1, <1>3, SizesAssumption
    <2>2. a[1] = s[1][1] /\ a[2] = s[1][2] /\ a[3] = k + 1
      BY <2>1
    <2>3. k + 1 \in 1..Len(s) - 1 /\ (k + 1) + 1 = k + 2
      BY <1>1
    <2>4. Follows(a, s[k + 2])
      BY <2>3 DEF Stream
    <2> HIDE DEF a
    <2>5. a[3] < RecordLength /\ a[3] # RecordLength
      BY <2>2, SizesAssumption
    <2>6. s[k + 2] = <<a[1], a[2], a[3] + 1>>
      BY <2>4, <2>5 DEF Follows
    <2> QED BY <2>2, <2>6
  <1> HIDE DEF S
  <1>4. \A k \in Nat : k \in S
    BY <1>2, <1>3, SetInduction
  <1> TAKE n \in 1..Len(s)
  <1>5. n - 1 \in Nat /\ (n - 1) + 1 = n /\ n <= Len(s)
    BY <1>1
  <1>6. n - 1 \in S
    BY <1>4, <1>5
  <1> QED BY <1>5, <1>6 DEF S

\* No stream ends within a record.
LEMMA WholeRecord ==
    ASSUME NEW s, NEW m, NEW w, NEW c, Stream(s, m, w, c), s # <<>>
    PROVE  Len(s) >= RecordLength
  <1>1. Len(s) \in Nat /\ Len(s) >= 1 /\ s[Len(s)][3] = RecordLength
    BY DEF Stream, Finishes
  <1> DEFINE n == Len(s)
  <1> SUFFICES ASSUME n < RecordLength
               PROVE  FALSE
    BY <1>1, SizesAssumption
  <1>2. n \in 1..Len(s) /\ n <= RecordLength
    BY <1>1, SizesAssumption
  <1>3. s[n] = <<s[1][1], s[1][2], n>>
    BY <1>2, FirstRecord
  <1> HIDE DEF n
  <1>4. s[n][3] = n
    BY <1>3
  <1> QED BY <1>1, <1>4, SizesAssumption DEF n

LEMMA AfterElements ==
    ASSUME NEW S, NEW s \in Seq(S), NEW n \in Nat, n <= Len(s)
    PROVE  /\ After(s, n) \in Seq(S) /\ Len(After(s, n)) = Len(s) - n
           /\ \A k \in 1..Len(s) - n : After(s, n)[k] = s[k + n]
  <1>1. Len(s) \in Nat /\ \A i \in n + 1..Len(s) : s[i] \in S
    OBVIOUS
  <1>2. /\ SubSeq(s, n + 1, Len(s)) \in Seq(S)
        /\ Len(SubSeq(s, n + 1, Len(s))) =
              IF n + 1 <= Len(s) THEN Len(s) - (n + 1) + 1 ELSE 0
        /\ \A i \in 1..Len(s) - (n + 1) + 1 :
              SubSeq(s, n + 1, Len(s))[i] = s[n + 1 + i - 1]
    BY <1>1, SubSeqProperties
  <1>3. \A k \in 1..Len(s) - n : n + 1 + k - 1 = k + n
    OBVIOUS
  <1> QED BY <1>1, <1>2, <1>3 DEF After

\* What is left when the first record has been taken off.
LEMMA TakeRecord ==
    ASSUME NEW s, NEW m, NEW w, NEW c, Stream(s, m, w, c),
           Len(s) >= RecordLength, s[1][1] # "close"
    PROVE  Stream(After(s, RecordLength), No(s[1]), w, c)
  <1> DEFINE L == RecordLength
             t == After(s, L)
             n == Len(s)
  <1>1. /\ s \in Seq(Bytes) /\ n \in Nat /\ L \in Nat /\ L >= 1
        /\ s # <<>> /\ 1 \in 1..n /\ L \in 1..n /\ w \in Nat
    BY SizesAssumption DEF Stream
  <1>2. /\ t \in Seq(Bytes) /\ Len(t) = n - L
        /\ \A k \in 1..n - L : t[k] = s[k + L]
    BY <1>1, AfterElements
  <1>3. s[L] = <<s[1][1], s[1][2], L>>
    <2>1. L <= RecordLength
      BY <1>1
    <2> QED BY <1>1, <2>1, FirstRecord
  <1> DEFINE b == s[L]
  <1>4. /\ b[1] = s[1][1] /\ b[2] = s[1][2] /\ b[3] = L
        /\ s[1][2] \in Nat
    BY <1>1, <1>3, AByte
  <1>5. No(b) = No(s[1]) /\ No(b) \in Int
    BY <1>4 DEF No
  <1>6. ASSUME NEW k \in 1..Len(t) - 1
        PROVE  Follows(t[k], t[k + 1])
    <2>1. k + L \in 1..n - 1 /\ (k + L) + 1 = (k + 1) + L
          /\ k \in 1..n - L /\ k + 1 \in 1..n - L
      BY <1>1, <1>2
    <2> QED BY <1>2, <2>1 DEF Stream
  <1>7. ASSUME t = <<>>
        PROVE  ~c /\ No(b) = w
    <2>1. n = L
      BY <1>1, <1>2, <1>7
    <2>2. Finishes(b, w, c)
      BY <1>1, <2>1 DEF Stream
    <2> QED BY <1>4, <2>2 DEF Finishes
  <1>8. ASSUME t # <<>>
        PROVE  Starts(No(b), t[1]) /\ Finishes(t[Len(t)], w, c)
    <2>1. Len(t) >= 1 /\ Len(t) \in 1..n - L /\ 1 \in 1..n - L
      BY <1>1, <1>2, <1>8
    <2>2. t[1] = s[L + 1] /\ t[Len(t)] = s[n]
      BY <1>1, <1>2, <2>1
    <2>3. L \in 1..n - 1
      BY <1>1, <1>2, <2>1
    <2>4. Follows(b, t[1])
      BY <2>2, <2>3 DEF Stream
    <2> HIDE DEF b, t
    <2> QED BY <1>1, <1>4, <2>2, <2>4 DEF Follows, Stream
  <1>9. ASSUME NEW k \in 1..Len(t), t[k][1] = "data"
        PROVE  t[k][2] <= w
    <2>1. k \in 1..n - L /\ k + L \in 1..n
      BY <1>1, <1>2
    <2> QED BY <1>2, <1>9, <2>1 DEF Stream
  <1> QED BY <1>1, <1>2, <1>5, <1>6, <1>7, <1>8, <1>9 DEF Stream

LEMMA RecordElements ==
    ASSUME NEW kind \in {"hello", "data", "close"}, NEW n \in Nat
    PROVE  /\ RecordBytes(kind, n) \in Seq(Bytes)
           /\ Len(RecordBytes(kind, n)) = RecordLength
           /\ \A i \in 1..RecordLength :
                 RecordBytes(kind, n)[i] = <<kind, n, i>>
  <1>1. \A i \in 1..RecordLength : <<kind, n, i>> \in Bytes
    BY DEF Bytes
  <1> QED BY <1>1, SizesAssumption DEF RecordBytes

\* What a record that is written adds, data or a close_notify.
LEMMA AddRecord ==
    ASSUME NEW s, NEW m, NEW w, Stream(s, m, w, FALSE),
           NEW kind \in {"data", "close"}, NEW n \in Nat,
           kind = "data" => n = w + 1
    PROVE  Stream(s \o RecordBytes(kind, n), m,
                  IF kind = "data" THEN w + 1 ELSE w, kind = "close")
  <1> DEFINE L == RecordLength
             r == RecordBytes(kind, n)
             t == s \o r
             l == Len(s)
             v == IF kind = "data" THEN w + 1 ELSE w
  <1>1. /\ s \in Seq(Bytes) /\ l \in Nat /\ L \in Nat /\ L >= 1
        /\ m \in Int /\ w \in Nat /\ v \in Nat /\ w <= v
    BY SizesAssumption DEF Stream
  <1>2. /\ r \in Seq(Bytes) /\ Len(r) = L
        /\ \A i \in 1..L : r[i] = <<kind, n, i>>
    BY RecordElements
  <1> HIDE DEF r, v
  <1>3. /\ t \in Seq(Bytes) /\ Len(t) = l + L
        /\ \A i \in 1..l : t[i] = s[i]
        /\ \A i \in l + 1..l + L : t[i] = <<kind, n, i - l>>
    <2>1. /\ t \in Seq(Bytes) /\ Len(t) = l + L
          /\ \A i \in 1..l + L : t[i] = IF i <= l THEN s[i] ELSE r[i - l]
      BY <1>1, <1>2, ConcatProperties
    <2>2. \A i \in l + 1..l + L : i - l \in 1..L /\ i \in 1..l + L /\ ~(i <= l)
      BY <1>1
    <2>3. \A i \in 1..l : i \in 1..l + L
      BY <1>1
    <2> QED BY <1>2, <2>1, <2>2, <2>3
  <1>4. t[l + 1] = <<kind, n, 1>> /\ t[l + L] = <<kind, n, L>>
    <2>1. l + 1 \in l + 1..l + L /\ l + L \in l + 1..l + L
          /\ (l + 1) - l = 1 /\ (l + L) - l = L
      BY <1>1
    <2> QED BY <1>3, <2>1
  <1>5. \A x \in Int : x >= 0 => (x = w => Starts(x, <<kind, n, 1>>))
    BY DEF Starts
  <1>6. s # <<>> =>
           /\ l >= 1 /\ Starts(m, s[1]) /\ Finishes(s[l], w, FALSE)
    <2>1. s # <<>> => Starts(m, s[1]) /\ Finishes(s[l], w, FALSE)
      BY DEF Stream
    <2>2. s # <<>> => l >= 1
      BY <1>1
    <2> QED BY <2>1, <2>2
  <1> HIDE DEF t, l
  <1>7. ASSUME NEW k \in 1..Len(t) - 1
        PROVE  Follows(t[k], t[k + 1])
    <2>1. CASE k < l
      <3>1. k \in 1..l - 1 /\ k \in 1..l /\ k + 1 \in 1..l
        BY <1>1, <2>1
      <3> QED BY <1>3, <3>1 DEF Stream, l
    <2>2. CASE k = l
      <3>1. s # <<>> /\ k \in 1..l
        BY <1>1, <2>2 DEF l
      <3>2. t[k] = s[l] /\ t[k + 1] = <<kind, n, 1>>
        BY <1>3, <1>4, <2>2, <3>1
      <3>3. Finishes(s[l], w, FALSE)
        BY <1>6, <3>1
      <3>4. Starts(w, <<kind, n, 1>>)
        BY <1>1, <1>5
      <3> QED BY <3>2, <3>3, <3>4 DEF Follows, Finishes
    <2>3. CASE k > l
      <3>1. /\ k \in l + 1..l + L /\ k + 1 \in l + 1..l + L
            /\ (k + 1) - l = (k - l) + 1 /\ k - l < L
        BY <1>1, <1>3, <2>3
      <3>2. t[k] = <<kind, n, k - l>> /\ t[k + 1] = <<kind, n, (k - l) + 1>>
        BY <1>3, <3>1
      <3> QED BY <3>1, <3>2 DEF Follows
    <2> QED BY <1>1, <1>3, <2>1, <2>2, <2>3
  <1>8. t # <<>> /\ Len(t) = l + L
    BY <1>1, <1>3
  <1>9. Starts(m, t[1])
    <2>1. CASE s = <<>>
      <3>1. l = 0 /\ m = w /\ m >= 0
        BY <1>1, <2>1 DEF Stream, l
      <3> QED BY <1>1, <1>4, <1>5, <3>1
    <2>2. CASE s # <<>>
      BY <1>3, <1>6, <2>2
    <2> QED BY <2>1, <2>2
  <1>10. Finishes(t[Len(t)], v, kind = "close")
    BY <1>4, <1>8 DEF Finishes, No, v
  <1>11. ASSUME NEW k \in 1..Len(t), t[k][1] = "data"
         PROVE  t[k][2] <= v
    <2>1. CASE k \in 1..l
      <3>1. t[k] = s[k] /\ s[k] \in Bytes
        BY <1>1, <1>3, <2>1 DEF l
      <3>2. s[k][2] <= w /\ s[k][2] \in Nat
        BY <1>11, <2>1, <3>1, AByte DEF Stream, l
      <3> QED BY <1>1, <3>1, <3>2
    <2>2. CASE k \notin 1..l
      <3>1. k \in l + 1..l + L
        BY <1>1, <1>8, <2>2
      <3>2. t[k] = <<kind, n, k - l>>
        BY <1>3, <3>1
      <3> QED BY <1>11, <3>2 DEF v
    <2> QED BY <2>1, <2>2
  <1> QED BY <1>1, <1>3, <1>7, <1>8, <1>9, <1>10, <1>11 DEF Stream, t, v, r

\* The handshake's record, before all others.
LEMMA HelloStream ==
    ASSUME NEW n \in Nat
    PROVE  Stream(RecordBytes("hello", n), -1, 0, FALSE)
  <1> DEFINE L == RecordLength
  <1>1. PICK r : r = RecordBytes("hello", n)
    OBVIOUS
  <1>2. /\ r \in Seq(Bytes) /\ Len(r) = L /\ L \in Nat /\ L >= 1
        /\ \A i \in 1..L : r[i] = <<"hello", n, i>>
    BY <1>1, RecordElements, SizesAssumption
  <1>3. \A k \in 1..L - 1 : Follows(r[k], r[k + 1])
    <2> TAKE k \in 1..L - 1
    <2>1. k \in 1..L /\ k + 1 \in 1..L /\ k < L
      BY <1>2
    <2> QED BY <1>2, <2>1 DEF Follows
  <1>4. r # <<>> /\ Starts(-1, r[1]) /\ Finishes(r[L], 0, FALSE)
    <2>1. 1 \in 1..L /\ L \in 1..L
      BY <1>2
    <2> QED BY <1>2, <2>1 DEF Starts, Finishes, No
  <1>5. \A k \in 1..L : r[k][1] # "data"
    BY <1>2
  <1> HIDE DEF L
  <1>6. PICK m \in Int : m = -1
    OBVIOUS
  <1>7. Starts(m, r[1]) /\ Len(r) = L /\ 0 \in Nat
    BY <1>2, <1>4, <1>6
  <1>8. \A k \in 1..Len(r) - 1 : Follows(r[k], r[k + 1])
    BY <1>3, <1>7
  <1>9. \A k \in 1..Len(r) : r[k][1] = "data" => r[k][2] <= 0
    BY <1>5, <1>7
  <1>10. Stream(r, m, 0, FALSE)
    BY <1>2, <1>4, <1>7, <1>8, <1>9 DEF Stream
  <1> QED BY <1>1, <1>6, <1>10

LEMMA AfterConcat ==
    ASSUME NEW S, NEW s \in Seq(S), NEW t \in Seq(S), NEW n \in Nat,
           n <= Len(s)
    PROVE  After(s \o t, n) = After(s, n) \o t
  <1> DEFINE a == After(s, n)
             c == After(s \o t, n)
  <1>1. /\ s \o t \in Seq(S) /\ Len(s \o t) = Len(s) + Len(t)
        /\ Len(s) \in Nat /\ Len(t) \in Nat
        /\ \A i \in 1..Len(s) + Len(t) :
              (s \o t)[i] = IF i <= Len(s) THEN s[i] ELSE t[i - Len(s)]
    BY ConcatProperties
  <1>2. /\ a \in Seq(S) /\ Len(a) = Len(s) - n
        /\ \A k \in 1..Len(s) - n : a[k] = s[k + n]
    BY AfterElements
  <1>3. n <= Len(s \o t)
    BY <1>1
  <1>4. /\ c \in Seq(S) /\ Len(c) = Len(s \o t) - n
        /\ \A k \in 1..Len(s \o t) - n : c[k] = (s \o t)[k + n]
    BY <1>1, <1>3, AfterElements
  <1> HIDE DEF a, c
  <1>5. /\ a \o t \in Seq(S) /\ Len(a \o t) = Len(a) + Len(t)
        /\ \A i \in 1..Len(a) + Len(t) :
              (a \o t)[i] = IF i <= Len(a) THEN a[i] ELSE t[i - Len(a)]
    BY <1>2, ConcatProperties
  <1>6. Len(c) = Len(a \o t)
    BY <1>1, <1>2, <1>4, <1>5
  <1>7. ASSUME NEW k \in 1..Len(c)
        PROVE  c[k] = (a \o t)[k]
    <2>1. c[k] = IF k + n <= Len(s) THEN s[k + n] ELSE t[(k + n) - Len(s)]
      <3>1. k \in 1..Len(s \o t) - n /\ k + n \in 1..Len(s) + Len(t)
        BY <1>1, <1>4
      <3> QED BY <1>1, <1>4, <3>1
    <2>2. (a \o t)[k] = IF k <= Len(s) - n THEN a[k] ELSE t[k - (Len(s) - n)]
      <3>1. k \in 1..Len(a) + Len(t)
        BY <1>1, <1>2, <1>4
      <3> QED BY <1>2, <1>5, <3>1
    <2>3. CASE k <= Len(s) - n
      <3>1. k \in 1..Len(s) - n /\ k + n <= Len(s)
        BY <1>1, <2>3
      <3> QED BY <1>2, <2>1, <2>2, <3>1
    <2>4. CASE ~(k <= Len(s) - n)
      <3>1. ~(k + n <= Len(s)) /\ (k + n) - Len(s) = k - (Len(s) - n)
        BY <1>1, <2>4
      <3> QED BY <2>1, <2>2, <2>4, <3>1
    <2> QED BY <2>3, <2>4
  <1>8. c = a \o t
    BY <1>4, <1>5, <1>6, <1>7, SeqEqual
  <1> QED BY <1>8 DEF a, c

LEMMA CutAndAfter ==
    ASSUME NEW S, NEW s \in Seq(S), NEW n \in Nat, n <= Len(s)
    PROVE  /\ CutTo(s, n) \in Seq(S) /\ Len(CutTo(s, n)) = n
           /\ CutTo(s, n) \o After(s, n) = s
  <1>1. Len(s) \in Nat /\ \A i \in 1..n : s[i] \in S
    OBVIOUS
  <1>2. /\ SubSeq(s, 1, n) \in Seq(S)
        /\ Len(SubSeq(s, 1, n)) = IF 1 <= n THEN n - 1 + 1 ELSE 0
    BY <1>1, SubSeqProperties
  <1>3. /\ 1 \in 1..Len(s) + 1 /\ n \in 1 - 1..Len(s)
        /\ Len(s) \in n..Len(s)
    BY <1>1
  <1>4. SubSeq(s, 1, n) \o SubSeq(s, n + 1, Len(s)) = SubSeq(s, 1, Len(s))
    BY <1>3, ConcatAdjacentSubSeq
  <1>5. SubSeq(s, 1, Len(s)) = s
    BY SubSeqFull
  <1>6. n - 1 + 1 = n /\ (~(1 <= n) => n = 0)
    OBVIOUS
  <1> QED BY <1>2, <1>4, <1>5, <1>6 DEF CutTo, After

LEMMA Concat ==
    /\ \A s, t \in Seq(Bytes) : s \o t \in Seq(Bytes)
    /\ \A s \in Seq(Bytes) : s \o <<>> = s /\ <<>> \o s = s
    /\ <<>> \in Seq(Bytes)
  <1>1. \A s, t \in Seq(Bytes) : s \o t \in Seq(Bytes)
    OBVIOUS
  <1>2. \A s \in Seq(Bytes) : s \o <<>> = s /\ <<>> \o s = s
    BY ConcatEmptySeq
  <1> QED BY <1>1, <1>2

LEMMA Assoc ==
    \A s, t, u \in Seq(Bytes) : (s \o t) \o u = s \o (t \o u)
  BY ConcatAssociative

LEMMA MoveOver ==
    ASSUME NEW S, NEW o \in Seq(S), NEW b \in Seq(S), NEW n \in Nat,
           n <= Len(b)
    PROVE  /\ o \o CutTo(b, n) \in Seq(S)
           /\ Len(o \o CutTo(b, n)) = Len(o) + n
           /\ (o \o CutTo(b, n)) \o After(b, n) = o \o b
  <1> DEFINE c == CutTo(b, n)
             x == After(b, n)
  <1>1. c \in Seq(S) /\ Len(c) = n /\ c \o x = b /\ x \in Seq(S)
    BY CutAndAfter, AfterElements
  <1> HIDE DEF c, x
  <1>2. (o \o c) \o x = o \o (c \o x)
    <2>1. \A s, t, u \in Seq(S) : (s \o t) \o u = s \o (t \o u)
      BY ConcatAssociative
    <2>2. c \in Seq(S) /\ x \in Seq(S)
      BY <1>1
    <2> QED BY <2>1, <2>2, Zenon
  <1>3. o \o c \in Seq(S) /\ Len(o \o c) = Len(o) + n
    BY <1>1, ConcatProperties
  <1> QED BY <1>1, <1>2, <1>3 DEF c, x

-----------------------------------------------------------------------------
(***************************************************************************)
(* What an operation still has to do.                                      *)
(***************************************************************************)
Parts == {b \in Seq(Bytes) : Len(b) <= RecordLength}
StepsToDo == [do : {"send", "flush", "read"}, bytes : Parts]
Records == Bytes \cup {NoRecord}

Sent(b) == [do |-> "send", bytes |-> b]
Flushed(b) == [do |-> "flush", bytes |-> b]
Had(b) == [do |-> "read", bytes |-> b]

OnlySends(steps) == steps = <<Sent(steps[1].bytes)>>
OnlyReads(steps) == steps = <<Had(steps[1].bytes)>>
FlushesThenReads(steps) == steps = <<Flushes("hello", 1), Reads>>
ReadsThenFlushes(steps) ==
    steps = <<Had(steps[1].bytes), Flushes("hello", 2)>>

Fits(e, o, steps, record) ==
    CASE o = "handshaker" ->
           IF e = Client THEN FlushesThenReads(steps) \/ OnlyReads(steps)
                         ELSE ReadsThenFlushes(steps)
      [] o = "reader" ->
           \/ OnlyReads(steps)
           \/ OnlySends(steps) /\ record[1] = "close"
      [] o \in {"writer", "closer"} -> OnlySends(steps)

\* The bytes still to send, and those that have come of the record to read.
ToSend(steps) ==
    IF steps[1].do # "read" THEN steps[1].bytes
    ELSE IF Len(steps) = 2 THEN steps[2].bytes ELSE <<>>
HasCome(steps) == IF steps[1].do = "read" THEN steps[1].bytes ELSE <<>>

\* Nothing comes after what the operation sends.
ClosingBy(o, steps) == o = "closer" \/ (o = "reader" /\ OnlySends(steps))

\* The number of the last record that an end with n of them has read.
LastBy(o, steps, n) ==
    IF o = "handshaker" /\ (steps[1].do = "read" \/ Len(steps) = 2)
    THEN -1 ELSE n

(***************************************************************************)
(* An end and its machine.                                                 *)
(***************************************************************************)
Generators == [on : BOOLEAN, steps : Seq(StepsToDo), record : Records]

Machines ==
    [op : [Operations -> Generators],
     result : {NoResult, "read", "write"},
     connected : BOOLEAN, closed : BOOLEAN, open : BOOLEAN,
     raised : {"no", "assertion", "socket", "abrupt"},
     started : BOOLEAN, peerGone : BOOLEAN, reset : BOOLEAN, ended : BOOLEAN,
     out : Seq(Bytes), in : Seq(Bytes), buffer : Seq(Bytes),
     app : [writes : Nat, answers : BOOLEAN, closes : BOOLEAN],
     toWrite : Nat, owes : Nat, written : Nat, received : Seq(Nat)]

AllOff(me) == \A o \in Operations : me.op[o] = NoOp
OnlyOn(me, o) ==
    /\ me.op[o].on
    /\ \A x \in Operations \ {o} : me.op[x] = NoOp

Working(e, me, o) ==
    /\ OnlyOn(me, o) /\ Fits(e, o, me.op[o].steps, me.op[o].record)
    /\ me.started /\ me.open /\ me.connected = (o # "handshaker")

Local(me) ==
    /\ me \in Machines
    /\ me.raised \in {"no", "socket"}
    /\ me.raised = "socket" => ~me.open /\ me.peerGone
    /\ me.reset => me.peerGone
    /\ me.closed = ~me.open
    /\ me.closed => me.started
    /\ ~me.connected => me.received = <<>> /\ me.written = 0
    /\ \A i \in 1..Len(me.received) : me.received[i] = i

Fit(e, me) ==
    /\ Local(me)
    /\ IF me.result = NoResult
       THEN AllOff(me) /\ (me.open => me.connected = me.started)
       ELSE \E o \in Operations : Working(e, me, o)

Doing(me) == CHOOSE o \in Operations : me.op[o].on
Current(me) == me.op[Doing(me)].steps

Hello(e) == RecordBytes("hello", IF e = Client THEN 1 ELSE 2)

Outgoing(e, me) ==
    IF ~me.started THEN Hello(e)
    ELSE IF me.result = NoResult THEN <<>> ELSE ToSend(Current(me))

Partial(me) == IF me.result = NoResult THEN <<>> ELSE HasCome(Current(me))

Closing(me) ==
    IF me.result = NoResult THEN me.closed
                            ELSE ClosingBy(Doing(me), Current(me))

LastRead(me) ==
    IF me.result = NoResult
    THEN IF me.connected THEN Len(me.received) ELSE -1
    ELSE LastBy(Doing(me), Current(me), Len(me.received))

\* What is on its way from an end to its peer, as long as that goes on; a
\* handshake's flight that is to be sent as a whole has the wire to itself.
Way(e, me, w, you) ==
    /\ Len(you.received) <= me.written
    /\ me.peerGone => ~you.open
    /\ ~me.connected /\ Outgoing(e, me) # <<>> => w = <<>>
    /\ ~Closing(you) =>
           Stream(Partial(you) \o (you.buffer \o (w \o Outgoing(e, me))),
                  LastRead(you), me.written, Closing(me))

TypeOK ==
    /\ end \in [Ends -> Machines]
    /\ wire \in [Ends -> Seq(Bytes)]
    /\ fired \in [Ends -> SUBSET {"read", "write"}]

Inv ==
    /\ TypeOK
    /\ RecordLength <= WireCapacity
    /\ \A e \in Ends :
          /\ Fit(e, end[e])
          /\ Way(e, end[e], wire[e], end[Peer(e)])
          /\ Len(wire[e]) <= WireCapacity
          /\ fired[e] # {} => end[e].started
          /\ "read" \in fired[e] => end[e].open

-----------------------------------------------------------------------------
(***************************************************************************)
(* A generator at work: what next() does with its records.                 *)
(***************************************************************************)
Runs ==
    [steps : Seq(StepsToDo), out : Seq(Bytes), in : Seq(Bytes),
     buffer : Seq(Bytes), peerGone : BOOLEAN, reset : BOOLEAN,
     ended : BOOLEAN, record : Records,
     yields : {"none", "read", "write", "socket", "abrupt"}]

Has(run, first, more) ==
    /\ run \in Runs /\ Len(run.out) <= WireCapacity
    /\ run.steps # <<>> /\ Head(run.steps) = first /\ Tail(run.steps) = more

\* r is run with as much of b as there was room for sent, before more; an
\* error of the socket comes of a reset or of a flight that does not fit.
HasSent(run, r, do, b, more) ==
    /\ r \in Runs /\ Len(r.out) <= WireCapacity
    /\ r.in = run.in /\ r.buffer = run.buffer /\ r.record = run.record
    /\ r.peerGone = run.peerGone /\ r.reset = run.reset
    /\ r.ended = run.ended
    /\ \/ /\ r.steps = more /\ r.yields = run.yields
          /\ ~run.peerGone => r.out = run.out \o b
       \/ /\ ~run.peerGone /\ r.yields = "write" /\ do = "send"
          /\ \E x \in Parts : /\ r.steps = <<Sent(x)>> \o more
                              /\ r.out \o x = run.out \o b
       \/ /\ r.yields = "socket"
          /\ \/ run.reset
             \/ /\ do = "flush" /\ ~run.peerGone
                /\ Len(run.out) + Len(b) > WireCapacity

LEMMA SendingMoves ==
    ASSUME NEW run, NEW do \in {"send", "flush"}, NEW b \in Parts,
           NEW more \in Seq(StepsToDo),
           Has(run, [do |-> do, bytes |-> b], more)
    PROVE  HasSent(run, Sending(run), do, b, more)
  <1> DEFINE sent == Smaller(Room(run), Len(b))
             moved == [run EXCEPT !.out = IF run.peerGone THEN @
                                          ELSE @ \o CutTo(b, sent)]
             x == After(b, sent)
             fails == run.reset /\ b[1][1] # "close"
  <1>1. /\ run \in Runs /\ Len(run.out) <= WireCapacity
        /\ run.out \in Seq(Bytes) /\ Len(run.out) \in Nat
        /\ b \in Seq(Bytes) /\ Len(b) \in Nat /\ Len(b) <= RecordLength
        /\ WireCapacity \in Nat /\ RecordLength \in Nat
        /\ Head(run.steps).bytes = b /\ Tail(run.steps) = more
        /\ Head(run.steps).do = do
    BY SizesAssumption DEF Has, Runs, Parts
  <1>2. /\ sent \in Nat /\ sent <= Len(b)
        /\ run.peerGone => sent = Len(b)
        /\ ~run.peerGone => Len(run.out) + sent <= WireCapacity
        /\ ~run.peerGone /\ sent # Len(b) =>
              Len(run.out) + Len(b) > WireCapacity
    <2> DEFINE room == Room(run)
    <2>1. /\ room \in Nat
          /\ run.peerGone => room = RecordLength
          /\ ~run.peerGone => room = WireCapacity - Len(run.out)
      <3>1. CASE run.peerGone
        BY <1>1, <3>1 DEF Room
      <3>2. CASE ~run.peerGone
        <4>1. room = WireCapacity - Len(run.out)
          BY <3>2 DEF Room
        <4> QED BY <1>1, <3>2, <4>1
      <3> QED BY <3>1, <3>2
    <2> HIDE DEF room
    <2>2. /\ sent \in {room, Len(b)} /\ sent <= room /\ sent <= Len(b)
          /\ sent # Len(b) => room < Len(b)
      BY <1>1, <2>1 DEF Smaller, room
    <2> HIDE DEF sent
    <2>3. run.peerGone => sent = Len(b)
      <3>1. run.peerGone => Len(b) <= room
        BY <1>1, <2>1
      <3> QED BY <1>1, <2>1, <2>2, <3>1 DEF sent, Smaller, room
    <2> QED BY <1>1, <2>1, <2>2, <2>3
  <1> HIDE DEF sent
  <1>3. /\ CutTo(b, sent) \in Seq(Bytes) /\ Len(CutTo(b, sent)) = sent
        /\ CutTo(b, sent) \o x = b
        /\ x \in Seq(Bytes) /\ Len(x) = Len(b) - sent
    BY <1>1, <1>2, CutAndAfter, AfterElements
  <1>4. x \in Parts
    BY <1>1, <1>2, <1>3 DEF Parts
  <1> DEFINE o == run.out \o CutTo(b, sent)
  <1>5. /\ o \in Seq(Bytes) /\ Len(o) = Len(run.out) + sent
        /\ o \o x = run.out \o b
    <2>1. \A s, t \in Seq(Bytes) : \A n \in Nat :
             n <= Len(t) =>
                 /\ s \o CutTo(t, n) \in Seq(Bytes)
                 /\ Len(s \o CutTo(t, n)) = Len(s) + n
                 /\ (s \o CutTo(t, n)) \o After(t, n) = s \o t
      BY MoveOver, Zenon
    <2>2. /\ run.out \in Seq(Bytes) /\ b \in Seq(Bytes)
          /\ sent \in Nat /\ sent <= Len(b)
      BY <1>1, <1>2
    <2> QED BY <2>1, <2>2, Zenon DEF o, x
  <1>6. Sending(run) =
           IF fails THEN [run EXCEPT !.yields = "socket"]
           ELSE IF sent = Len(b) THEN [moved EXCEPT !.steps = Tail(@)]
           ELSE IF do = "flush" THEN [moved EXCEPT !.yields = "socket"]
           ELSE [moved EXCEPT !.steps = <<[do |-> "send", bytes |-> x]>>
                                        \o Tail(@),
                              !.yields = "write"]
    BY <1>1 DEF Sending, Unsent, sent
  <1> HIDE DEF x, o, fails
  <1>7. /\ moved \in Runs /\ moved.steps = run.steps /\ moved.in = run.in
        /\ moved.buffer = run.buffer /\ moved.record = run.record
        /\ moved.peerGone = run.peerGone /\ moved.ended = run.ended
        /\ moved.reset = run.reset
        /\ moved.yields = run.yields /\ Len(moved.out) <= WireCapacity
        /\ moved.out = IF run.peerGone THEN run.out ELSE o
    BY <1>1, <1>2, <1>5 DEF Runs, o
  <1> HIDE DEF moved
  <1>8. CASE fails
    <2>1. run.reset /\ Sending(run) = [run EXCEPT !.yields = "socket"]
      BY <1>6, <1>8 DEF fails
    <2> QED BY <1>1, <2>1 DEF HasSent, Runs
  <1>9. CASE ~fails /\ sent = Len(b)
    <2>1. Len(x) = 0 /\ x = <<>>
      BY <1>1, <1>3, <1>9
    <2>2. ~run.peerGone => moved.out = run.out \o b
      BY <1>3, <1>5, <1>7, <2>1, ConcatEmptySeq
    <2>3. Sending(run) = [moved EXCEPT !.steps = more]
      BY <1>1, <1>6, <1>7, <1>9
    <2> QED BY <1>7, <2>2, <2>3 DEF HasSent, Runs
  <1>10. CASE ~fails /\ sent # Len(b) /\ do = "flush"
    <2>1. /\ ~run.peerGone /\ Len(run.out) + Len(b) > WireCapacity
          /\ Sending(run) = [moved EXCEPT !.yields = "socket"]
      BY <1>2, <1>6, <1>10
    <2> QED BY <1>7, <1>10, <2>1 DEF HasSent, Runs
  <1>11. CASE ~fails /\ sent # Len(b) /\ do # "flush"
    <2>1. ~run.peerGone /\ do = "send"
      BY <1>2, <1>11
    <2> DEFINE new == <<Sent(x)>> \o more
    <2>2. new \in Seq(StepsToDo)
      <3>1. Sent(x) \in StepsToDo
        BY <1>4 DEF Sent, StepsToDo
      <3>2. <<Sent(x)>> \in Seq(StepsToDo)
        BY <3>1
      <3> QED BY <3>2, ConcatProperties
    <2>3. Sending(run) = [moved EXCEPT !.steps = new, !.yields = "write"]
      BY <1>1, <1>6, <1>7, <1>11 DEF Sent
    <2>4. moved.out \o x = run.out \o b
      BY <1>5, <1>7, <2>1
    <2> HIDE DEF new
    <2> DEFINE r == Sending(run)
    <2>5. /\ r \in Runs /\ r.out = moved.out /\ r.in = moved.in
          /\ r.buffer = moved.buffer /\ r.record = moved.record
          /\ r.peerGone = moved.peerGone /\ r.ended = moved.ended
          /\ r.reset = moved.reset
          /\ r.steps = new /\ r.yields = "write"
      BY <1>7, <2>2, <2>3 DEF Runs
    <2> HIDE DEF r
    <2>6. \E y \in Parts : r.steps = <<Sent(y)>> \o more
                           /\ r.out \o y = run.out \o b
      BY <1>4, <2>4, <2>5 DEF new
    <2>7. HasSent(run, r, do, b, more)
      BY <1>7, <2>1, <2>5, <2>6 DEF HasSent
    <2> QED BY <2>7 DEF r
  <1> QED BY <1>8, <1>9, <1>10, <1>11

\* The record r has read from run's b and what followed it is the next of
\* the stream, and what now follows is the stream after it; or r waits for
\* the rest of it, or finds that the peer has gone.
HasReceived(run, r, more, rest, m, w, c) ==
    /\ r \in Runs /\ r.out = run.out
    /\ r.peerGone = run.peerGone /\ r.reset = run.reset
    /\ r.ended = run.ended
    /\ \/ r.yields = "socket" /\ run.reset
       \/ /\ r.yields = "read" /\ r.record = run.record
          /\ \E x \in Parts :
                /\ r.steps = <<Had(x)>> \o more
                /\ Stream(x \o (r.buffer \o (r.in \o rest)), m, w, c)
       \/ /\ r.yields = run.yields /\ r.record \in Bytes
          /\ Starts(m, r.record)
          /\ r.record[1] = "data" => r.record[2] <= w
          /\ r.record[1] = "close" => r.steps = <<Sends("close", 0)>>
          /\ r.record[1] # "close" =>
                /\ r.steps = more
                /\ Stream(r.buffer \o (r.in \o rest), No(r.record), w, c)

\* The bytes there are for the record, and those left in the socket.
Enough(b, f) == Len(b) + Len(f) >= RecordLength
Have(b, f, i) == (b \o f) \o (IF Enough(b, f) THEN <<>> ELSE i)
Left(b, f, i) == IF Enough(b, f) THEN i ELSE <<>>

LEMMA HavePath ==
    ASSUME NEW b \in Seq(Bytes), NEW f \in Seq(Bytes), NEW i \in Seq(Bytes),
           NEW rest \in Seq(Bytes)
    PROVE  /\ Have(b, f, i) \in Seq(Bytes) /\ Left(b, f, i) \in Seq(Bytes)
           /\ Have(b, f, i) \o (Left(b, f, i) \o rest)
                = b \o (f \o (i \o rest))
           /\ Enough(b, f) => Len(Have(b, f, i)) >= RecordLength
           /\ ~Enough(b, f) => Left(b, f, i) = <<>>
  <1>1. i \o rest \in Seq(Bytes) /\ b \o f \in Seq(Bytes)
    BY Concat
  <1>2. (b \o f) \o (i \o rest) = b \o (f \o (i \o rest))
    BY <1>1, Assoc
  <1>3. ((b \o f) \o i) \o rest = (b \o f) \o (i \o rest)
    BY <1>1, Assoc
  <1>4. CASE Enough(b, f)
    <2>1. Have(b, f, i) = b \o f /\ Left(b, f, i) = i
      BY <1>1, <1>4, Concat DEF Have, Left
    <2>2. Len(b \o f) >= RecordLength
      BY <1>4 DEF Enough
    <2> QED BY <1>1, <1>2, <1>4, <2>1, <2>2
  <1>5. CASE ~Enough(b, f)
    <2>1. Have(b, f, i) = (b \o f) \o i /\ Left(b, f, i) = <<>>
      BY <1>5 DEF Have, Left
    <2>2. (b \o f) \o i \in Seq(Bytes) /\ <<>> \o rest = rest
          /\ <<>> \in Seq(Bytes)
      BY <1>1, Concat, Zenon
    <2> QED BY <1>2, <1>3, <1>5, <2>1, <2>2
  <1> QED BY <1>4, <1>5

LEMMA ReceivingTakes ==
    ASSUME NEW run, NEW b \in Parts, NEW more \in Seq(StepsToDo),
           Has(run, Had(b), more),
           NEW rest \in Seq(Bytes), NEW m, NEW w, NEW c,
           Stream(b \o (run.buffer \o (run.in \o rest)), m, w, c),
           run.ended => rest = <<>> /\ c
    PROVE  HasReceived(run, Receiving(run), more, rest, m, w, c)
  <1> DEFINE L == RecordLength
             left == Left(b, run.buffer, run.in)
             have == Have(b, run.buffer, run.in)
             keep == After(have, L)
             taken == [run EXCEPT !.buffer = keep, !.in = left]
             path == b \o (run.buffer \o (run.in \o rest))
             r == Receiving(run)
             fails == run.reset /\ ~Enough(b, run.buffer)
  <1>1. /\ run \in Runs /\ run.steps \in Seq(StepsToDo)
        /\ run.buffer \in Seq(Bytes) /\ run.in \in Seq(Bytes)
        /\ b \in Seq(Bytes) /\ L \in Nat /\ L >= 1
        /\ Head(run.steps).bytes = b /\ Tail(run.steps) = more
    BY SizesAssumption DEF Has, Runs, Parts, Had
  <1>2. /\ have \in Seq(Bytes) /\ left \in Seq(Bytes)
        /\ have \o (left \o rest) = path
        /\ Len(have) < L => left = <<>>
    <2>1. /\ have \in Seq(Bytes) /\ left \in Seq(Bytes)
          /\ have \o (left \o rest) = path
          /\ Enough(b, run.buffer) => Len(have) >= L
          /\ ~Enough(b, run.buffer) => left = <<>>
      <3>1. \A x, f, i, t \in Seq(Bytes) :
               /\ Have(x, f, i) \in Seq(Bytes) /\ Left(x, f, i) \in Seq(Bytes)
               /\ Have(x, f, i) \o (Left(x, f, i) \o t)
                    = x \o (f \o (i \o t))
               /\ Enough(x, f) => Len(Have(x, f, i)) >= L
               /\ ~Enough(x, f) => Left(x, f, i) = <<>>
        BY HavePath
      <3>2. /\ b \in Seq(Bytes) /\ run.buffer \in Seq(Bytes)
            /\ run.in \in Seq(Bytes)
        BY <1>1
      <3> QED BY <3>1, <3>2, Zenon
    <2> HIDE DEF have, left, path
    <2>2. Len(have) \in Nat
      BY <2>1
    <2> QED BY <1>1, <2>1, <2>2
  <1>3. /\ fails => r = [run EXCEPT !.yields = "socket"]
        /\ ~fails /\ Len(have) >= L =>
              r = [taken EXCEPT !.steps = AfterRead(have[1], @),
                                !.record = have[1]]
        /\ ~fails /\ ~(Len(have) >= L) =>
              r = [taken EXCEPT !.steps = <<Had(have)>> \o Tail(@),
                                !.yields = IF run.ended THEN "abrupt"
                                                        ELSE "read"]
    BY <1>1 DEF Receiving, Had, Have, Left, Enough
  <1> HIDE DEF r
  <1>4. keep \in Seq(Bytes) /\ (Len(have) < L => keep = <<>>)
    <2> HIDE DEF have
    <2>0. Len(have) \in Nat
      BY <1>2
    <2>1. CASE Len(have) >= L
      BY <1>1, <1>2, <2>0, <2>1, AfterElements
    <2>2. CASE ~(Len(have) >= L)
      <3>1. L + 1 \in Int /\ Len(have) \in Int /\ Len(have) < L + 1
        BY <1>1, <2>0, <2>2
      <3>2. keep = <<>>
        BY <3>1, SubSeqEmpty DEF After
      <3> QED BY <3>2
    <2> QED BY <2>1, <2>2
  <1>5. Stream(path, m, w, c) /\ Len(have) \in Nat
    <2> HIDE DEF have
    <2> QED BY <1>2
  <1> HIDE DEF have, left, keep, path, fails
  <1>6. /\ taken \in Runs /\ taken.buffer = keep /\ taken.in = left
        /\ taken.out = run.out /\ taken.record = run.record
        /\ taken.peerGone = run.peerGone /\ taken.ended = run.ended
        /\ taken.reset = run.reset
        /\ taken.steps = run.steps /\ taken.yields = run.yields
    BY <1>1, <1>2, <1>4 DEF Runs
  <1> HIDE DEF taken
  <1>7. ASSUME Len(have) >= L, ~fails
        PROVE  HasReceived(run, r, more, rest, m, w, c)
    <2> DEFINE d == have[1]
               steps == AfterRead(d, run.steps)
    <2>1. left \o rest \in Seq(Bytes)
      BY <1>2, Concat
    <2>2. d = path[1] /\ d \in Bytes /\ Len(path) >= L /\ path # <<>>
      <3> DEFINE t == left \o rest
      <3>1. /\ Len(have \o t) = Len(have) + Len(t) /\ have \o t \in Seq(Bytes)
            /\ (have \o t)[1] = IF 1 <= Len(have) THEN have[1]
                                                  ELSE t[1 - Len(have)]
            /\ Len(t) \in Nat
        <4> HIDE DEF t
        <4>0. t \in Seq(Bytes)
          BY <2>1 DEF t
        <4>1. 1 \in 1..Len(have) + Len(t) /\ Len(t) \in Nat
          BY <1>1, <1>5, <1>7, <4>0
        <4> QED BY <1>2, <4>0, <4>1, ConcatProperties
      <3>2. path = have \o t
        BY <1>2
      <3> HIDE DEF t
      <3>3. have[1] \in Bytes /\ 1 <= Len(have)
        BY <1>1, <1>2, <1>5, <1>7
      <3>4. Len(path) >= 1
        BY <1>1, <1>5, <1>7, <3>1, <3>2
      <3> QED BY <1>1, <1>5, <1>7, <3>1, <3>2, <3>3, <3>4
    <2>3. Starts(m, d) /\ (d[1] = "data" => d[2] <= w)
      <3>1. 1 \in 1..Len(path)
        BY <1>1, <1>5, <2>2 DEF Stream
      <3> QED BY <1>5, <2>2, <3>1 DEF Stream
    <2>4. ASSUME d[1] # "close"
          PROVE  Stream(keep \o (left \o rest), No(d), w, c)
      <3>1. Stream(After(path, L), No(path[1]), w, c)
        BY <1>5, <2>2, <2>4, TakeRecord
      <3>2. After(have \o (left \o rest), L) = After(have, L) \o (left \o rest)
        BY <1>1, <1>2, <1>7, <2>1, AfterConcat
      <3> QED BY <1>2, <2>2, <3>1, <3>2 DEF keep
    <2>5. /\ d[1] = "close" => steps = <<Sends("close", 0)>>
          /\ d[1] # "close" => steps = more
          /\ steps \in Seq(StepsToDo)
      <3>1. Sends("close", 0) \in StepsToDo
        BY RecordElements, SizesAssumption DEF Sends, StepsToDo, Parts
      <3>2. <<Sends("close", 0)>> \in Seq(StepsToDo)
        BY <3>1
      <3> HIDE DEF d
      <3> QED BY <1>1, <3>2 DEF AfterRead
    <2>6. r = [taken EXCEPT !.steps = steps, !.record = d]
      BY <1>3, <1>6, <1>7
    <2> HIDE DEF d, steps
    <2>7. /\ r \in Runs /\ r.out = run.out /\ r.buffer = keep /\ r.in = left
          /\ r.peerGone = run.peerGone /\ r.ended = run.ended
          /\ r.reset = run.reset
          /\ r.yields = run.yields /\ r.record = d /\ r.steps = steps
      BY <1>6, <2>2, <2>5, <2>6 DEF Runs, Records
    <2> QED BY <2>2, <2>3, <2>4, <2>5, <2>7 DEF HasReceived
  <1>8. ASSUME Len(have) < L, ~fails
        PROVE  /\ ~run.ended
               /\ HasReceived(run, r, more, rest, m, w, c)
    <2>1. left = <<>> /\ keep = <<>> /\ path = have \o rest
      <3>1. left = <<>> /\ keep = <<>>
        BY <1>1, <1>2, <1>4, <1>5, <1>8
      <3> QED BY <1>2, <3>1, Concat, Zenon
    <2>2. ~run.ended
      <3> SUFFICES ASSUME run.ended
                   PROVE  FALSE
        OBVIOUS
      <3>1. path = have /\ c
        BY <1>2, <2>1, Concat
      <3>2. path # <<>>
        BY <1>5, <3>1 DEF Stream
      <3>3. Len(path) >= L
        BY <1>5, <3>2, WholeRecord
      <3> QED BY <1>1, <1>5, <1>8, <3>1, <3>3
    <2> DEFINE steps == <<Had(have)>> \o more
    <2>3. have \in Parts /\ steps \in Seq(StepsToDo)
      <3>1. have \in Parts
        BY <1>1, <1>2, <1>5, <1>8 DEF Parts
      <3>2. <<Had(have)>> \in Seq(StepsToDo)
        BY <3>1 DEF Had, StepsToDo
      <3> QED BY <3>1, <3>2, ConcatProperties
    <2>4. r = [taken EXCEPT !.steps = steps, !.yields = "read"]
      <3>1. ~(Len(have) >= L)
        BY <1>1, <1>5, <1>8
      <3>2. Tail(taken.steps) = more
        BY <1>1, <1>6
      <3> QED BY <1>3, <1>8, <2>2, <3>1, <3>2
    <2>5. Stream(have \o (keep \o (left \o rest)), m, w, c)
      BY <1>5, <2>1, Concat
    <2> HIDE DEF steps
    <2>6. /\ r \in Runs /\ r.out = run.out /\ r.buffer = keep /\ r.in = left
          /\ r.peerGone = run.peerGone /\ r.ended = run.ended
          /\ r.reset = run.reset
          /\ r.yields = "read" /\ r.record = run.record /\ r.steps = steps
      BY <1>6, <2>3, <2>4 DEF Runs
    <2>7. \E x \in Parts :
             /\ r.steps = <<Had(x)>> \o more
             /\ Stream(x \o (r.buffer \o (r.in \o rest)), m, w, c)
      BY <2>3, <2>5, <2>6 DEF steps
    <2> QED BY <2>2, <2>6, <2>7 DEF HasReceived
  <1>9. ASSUME fails
        PROVE  HasReceived(run, r, more, rest, m, w, c)
    <2>1. run.reset /\ r = [run EXCEPT !.yields = "socket"]
      BY <1>3, <1>9 DEF fails
    <2> QED BY <1>1, <2>1 DEF HasReceived, Runs
  <1> QED BY <1>1, <1>5, <1>7, <1>8, <1>9 DEF r

-----------------------------------------------------------------------------
(***************************************************************************)
(* next(), for each of the four lists of steps an operation can have.      *)
(***************************************************************************)
LEMMA Stays ==
    ASSUME NEW run, run.steps = <<>> \/ run.yields # "none"
    PROVE  Advance(run) = run
  BY DEF Advance

LEMMA AdvanceSends ==
    ASSUME NEW run, NEW do \in {"send", "flush"}, NEW b \in Parts,
           NEW more \in Seq(StepsToDo),
           Has(run, [do |-> do, bytes |-> b], more), run.yields = "none"
    PROVE  HasSent(run, Advance(run), do, b, more)
  <1>1. Advance(run) = Sending(run)
    BY DEF Advance, Has
  <1> QED BY <1>1, SendingMoves

LEMMA AdvanceReceives ==
    ASSUME NEW run, NEW b \in Parts, NEW more \in Seq(StepsToDo),
           Has(run, Had(b), more), run.yields = "none",
           NEW rest \in Seq(Bytes), NEW m, NEW w, NEW c,
           Stream(b \o (run.buffer \o (run.in \o rest)), m, w, c),
           run.ended => rest = <<>> /\ c
    PROVE  HasReceived(run, Advance(run), more, rest, m, w, c)
  <1>1. Advance(run) = Receiving(run)
    BY DEF Advance, Has, Had
  <1> QED BY <1>1, ReceivingTakes

\* One step or two are a first one and more.
LEMMA FirstOfSteps ==
    ASSUME NEW a \in StepsToDo, NEW b \in StepsToDo
    PROVE  /\ <<a>> \in Seq(StepsToDo) /\ <<a, b>> \in Seq(StepsToDo)
           /\ <<a>> # <<>> /\ Head(<<a>>) = a /\ Tail(<<a>>) = <<>>
           /\ <<a, b>> # <<>> /\ Head(<<a, b>>) = a /\ Tail(<<a, b>>) = <<b>>
           /\ <<a>> \o <<>> = <<a>> /\ <<a>> \o <<b>> = <<a, b>>
           /\ <<>> \in Seq(StepsToDo)
  <1>1. <<a>> \o <<b>> = <<a, b>>
    <2>1. /\ <<a>> \o <<b>> \in Seq(StepsToDo)
          /\ <<a, b>> \in Seq(StepsToDo)
          /\ Len(<<a>> \o <<b>>) = 2 /\ Len(<<a, b>>) = 2
          /\ (<<a>> \o <<b>>)[1] = a /\ (<<a>> \o <<b>>)[2] = b
      OBVIOUS
    <2>2. \A i \in 1..2 : (<<a>> \o <<b>>)[i] = <<a, b>>[i]
      <3> TAKE i \in 1..2
      <3>1. i = 1 \/ i = 2
        OBVIOUS
      <3> QED BY <2>1, <3>1
    <2> QED BY <2>1, <2>2, SeqEqual
  <1>2. <<a>> \o <<>> = <<a>>
    BY ConcatEmptySeq
  <1> QED BY <1>1, <1>2

LEMMA NoSteps == <<>> \in Seq(StepsToDo)
  OBVIOUS

\* Whatever it does, next() takes from the socket all there is or nothing.
LEMMA ReceivingIn ==
    ASSUME NEW run, NEW b \in Parts, NEW more \in Seq(StepsToDo),
           Has(run, Had(b), more)
    PROVE  LET r == Receiving(run)
           IN  /\ r \in Runs /\ r.out = run.out
               /\ r.in \in {run.in, <<>>}
  <1> DEFINE L == RecordLength
             left == Left(b, run.buffer, run.in)
             have == Have(b, run.buffer, run.in)
             keep == After(have, L)
             taken == [run EXCEPT !.buffer = keep, !.in = left]
             read == [taken EXCEPT !.steps = AfterRead(have[1], @),
                                   !.record = have[1]]
             over == [run EXCEPT !.yields = "socket"]
             why == IF run.ended THEN "abrupt" ELSE "read"
             waits == [taken EXCEPT !.steps = <<Had(have)>> \o Tail(@),
                                    !.yields = why]
  <1>1. /\ run \in Runs /\ run.steps \in Seq(StepsToDo)
        /\ run.buffer \in Seq(Bytes) /\ run.in \in Seq(Bytes)
        /\ b \in Seq(Bytes) /\ L \in Nat /\ L >= 1
        /\ Head(run.steps).bytes = b /\ Tail(run.steps) = more
    BY SizesAssumption DEF Has, Runs, Parts, Had
  <1>2. Receiving(run) =
           IF run.reset /\ ~Enough(b, run.buffer) THEN over
           ELSE IF Len(have) >= L THEN read ELSE waits
    BY <1>1 DEF Receiving, Had, Have, Left, Enough
  <1>3. left \in {run.in, <<>>}
    BY DEF Left
  <1>4. have \in Seq(Bytes) /\ left \in Seq(Bytes)
    BY <1>1, Concat DEF Have, Left
  <1> HIDE DEF have, left
  <1>5. keep \in Seq(Bytes) /\ Len(have) \in Nat
    <2>1. CASE Len(have) >= L
      BY <1>1, <1>4, <2>1, AfterElements
    <2>2. CASE ~(Len(have) >= L)
      <3>1. L + 1 \in Int /\ Len(have) \in Int /\ Len(have) < L + 1
        BY <1>1, <1>4, <2>2
      <3>2. keep = <<>>
        BY <3>1, SubSeqEmpty DEF After
      <3> QED BY <1>4, <3>2, Concat
    <2> QED BY <1>4, <2>1, <2>2
  <1> HIDE DEF keep
  <1>6. /\ taken \in Runs /\ taken.in = left /\ taken.out = run.out
        /\ taken.steps = run.steps
    BY <1>1, <1>4, <1>5 DEF Runs
  <1> HIDE DEF taken
  <1>7. ASSUME Len(have) >= L
        PROVE  read \in Runs /\ read.in = left /\ read.out = run.out
    <2> DEFINE d == have[1]
               steps == AfterRead(d, run.steps)
    <2>1. d \in Bytes /\ d \in Records
      BY <1>1, <1>4, <1>5, <1>7 DEF Records
    <2>2. <<Sends("close", 0)>> \in Seq(StepsToDo)
      <3>1. Sends("close", 0) \in StepsToDo
        BY RecordElements, SizesAssumption DEF Sends, StepsToDo, Parts
      <3> QED BY <3>1
    <2>3. steps \in Seq(StepsToDo)
      <3> HIDE DEF d
      <3> QED BY <1>1, <2>2 DEF AfterRead
    <2>4. read = [taken EXCEPT !.steps = steps, !.record = d]
      BY <1>6
    <2> HIDE DEF d, steps, read
    <2> QED BY <1>6, <2>1, <2>3, <2>4 DEF Runs
  <1>8. over \in Runs /\ over.in = run.in /\ over.out = run.out
    BY <1>1 DEF Runs
  <1>9. ASSUME ~(Len(have) >= L)
        PROVE  waits \in Runs /\ waits.in = left /\ waits.out = run.out
    <2> DEFINE steps == <<Had(have)>> \o more
    <2>1. have \in Parts
      BY <1>1, <1>4, <1>5, <1>9 DEF Parts
    <2>2. <<Had(have)>> \in Seq(StepsToDo)
      BY <2>1 DEF Had, StepsToDo
    <2>3. steps \in Seq(StepsToDo)
      BY <2>2, ConcatProperties
    <2>4. waits = [taken EXCEPT !.steps = steps, !.yields = why]
      BY <1>1, <1>6
    <2>5. why \in {"read", "abrupt"}
      OBVIOUS
    <2> HIDE DEF steps, waits, why
    <2> QED BY <1>6, <2>3, <2>4, <2>5 DEF Runs
  <1> HIDE DEF read, over, waits
  <1> QED BY <1>2, <1>3, <1>7, <1>8, <1>9

LEMMA AdvanceIn ==
    ASSUME NEW run \in Runs, Len(run.out) <= WireCapacity
    PROVE  LET r == Advance(run)
           IN  /\ r \in Runs /\ Len(r.out) <= WireCapacity
               /\ r.in \in {run.in, <<>>}
  <1>1. CASE run.steps = <<>> \/ run.yields # "none"
    BY <1>1, Stays
  <1>2. CASE run.steps # <<>> /\ run.yields = "none"
    <2> DEFINE first == Head(run.steps)
               more == Tail(run.steps)
               b == first.bytes
    <2>1. run.steps \in Seq(StepsToDo)
      BY DEF Runs
    <2>2. first \in StepsToDo /\ more \in Seq(StepsToDo)
      BY <1>2, <2>1
    <2> HIDE DEF first, more
    <2>3. /\ b \in Parts
          /\ \/ \E do \in {"send", "flush"} : first = [do |-> do, bytes |-> b]
             \/ first = Had(b)
      BY <2>2 DEF StepsToDo, Had
    <2>4. Has(run, first, more)
      BY <1>2 DEF Has, first, more
    <2> HIDE DEF b
    <2>5. ASSUME NEW do \in {"send", "flush"},
                 first = [do |-> do, bytes |-> b]
          PROVE  LET r == Advance(run)
                 IN  /\ r \in Runs /\ Len(r.out) <= WireCapacity
                     /\ r.in \in {run.in, <<>>}
      <3>1. HasSent(run, Advance(run), do, b, more)
        BY <1>2, <2>2, <2>3, <2>4, <2>5, AdvanceSends
      <3> QED BY <3>1 DEF HasSent
    <2>6. CASE first = Had(b)
      <3>1. Advance(run) = Receiving(run)
        BY <1>2, <2>6 DEF Advance, Had, first
      <3> QED BY <2>2, <2>3, <2>4, <2>6, <3>1, ReceivingIn
    <2> QED BY <2>3, <2>5, <2>6
  <1> QED BY <1>1, <1>2

LEMMA ResumeIn ==
    ASSUME NEW run \in Runs, Len(run.out) <= WireCapacity
    PROVE  Resume(run).in \in {run.in, <<>>}
  <1> DEFINE a == Advance(run)
             z == Advance(a)
  <1>1. /\ a \in Runs /\ Len(a.out) <= WireCapacity
        /\ a.in \in {run.in, <<>>}
    BY AdvanceIn
  <1> HIDE DEF a
  <1>2. /\ z \in Runs /\ Len(z.out) <= WireCapacity
        /\ z.in \in {a.in, <<>>}
    BY <1>1, AdvanceIn
  <1> HIDE DEF z
  <1>3. Advance(z).in \in {z.in, <<>>}
    BY <1>2, AdvanceIn
  <1> QED BY <1>1, <1>2, <1>3 DEF Resume, z, a

LEMMA SendRun ==
    ASSUME NEW run, NEW b \in Parts, Has(run, Sent(b), <<>>),
           run.yields = "none"
    PROVE  HasSent(run, Resume(run), "send", b, <<>>)
  <1> DEFINE a == Advance(run)
  <1>1. HasSent(run, a, "send", b, <<>>)
    BY NoSteps, AdvanceSends DEF Sent
  <1> HIDE DEF a
  <1>2. Advance(a) = a
    BY <1>1, Stays DEF HasSent
  <1> QED BY <1>1, <1>2 DEF Resume, a

\* A record is read, and a close_notify is answered with one.
ReaderRan(run, r, rest, m, w, c) ==
    \/ HasReceived(run, r, <<>>, rest, m, w, c)
          /\ (r.yields # "none" \/ r.record[1] # "close")
    \/ \E a \in Runs :
          /\ HasReceived(run, a, <<>>, rest, m, w, c)
          /\ a.record[1] = "close" /\ a.yields = "none"
          /\ HasSent(a, r, "send", RecordBytes("close", 0), <<>>)

LEMMA ReadRun ==
    ASSUME NEW run, NEW b \in Parts, Has(run, Had(b), <<>>),
           run.yields = "none",
           NEW rest \in Seq(Bytes), NEW m, NEW w, NEW c,
           Stream(b \o (run.buffer \o (run.in \o rest)), m, w, c),
           run.ended => rest = <<>> /\ c
    PROVE  ReaderRan(run, Resume(run), rest, m, w, c)
  <1> DEFINE a == Advance(run)
             z == RecordBytes("close", 0)
  <1>1. HasReceived(run, a, <<>>, rest, m, w, c)
    BY NoSteps, AdvanceReceives
  <1>2. Resume(run) = Advance(Advance(a))
    BY DEF Resume
  <1> HIDE DEF a
  <1>3. CASE a.yields # "none" \/ a.record[1] # "close"
    <2>1. Advance(a) = a
      BY <1>1, <1>3, Stays DEF HasReceived
    <2> QED BY <1>1, <1>2, <1>3, <2>1 DEF ReaderRan
  <1>4. CASE a.yields = "none" /\ a.record[1] = "close"
    <2>1. /\ a.steps = <<Sends("close", 0)>> /\ a.yields = "none"
          /\ a \in Runs /\ a.out = run.out
      BY <1>1, <1>4 DEF HasReceived
    <2>2. z \in Parts /\ Sends("close", 0) = Sent(z)
      BY RecordElements, SizesAssumption DEF Parts, Sends, Sent
    <2>3. Has(a, Sent(z), <<>>)
      <3>1. Sent(z) \in StepsToDo
        BY <2>2 DEF Sent, StepsToDo
      <3> HIDE DEF z
      <3> QED BY <2>1, <2>2, <3>1, FirstOfSteps DEF Has
    <2>4. HasSent(a, Advance(a), "send", z, <<>>)
      BY <2>1, <2>2, <2>3, NoSteps, AdvanceSends DEF Sent
    <2>5. Advance(Advance(a)) = Advance(a)
      BY <2>1, <2>4, Stays DEF HasSent
    <2> QED BY <1>1, <1>2, <1>4, <2>1, <2>4, <2>5 DEF ReaderRan
  <1> QED BY <1>3, <1>4

\* The client's handshake: its hello, then the server's.
ClientRan(run, r, b, rest, w, c) ==
    \/ r.yields = "socket" /\ HasSent(run, r, "flush", b, <<Reads>>)
    \/ \E a \in Runs :
          /\ HasSent(run, a, "flush", b, <<Reads>>)
          /\ a.steps = <<Reads>> /\ a.yields = "none"
          /\ HasReceived(a, r, <<>>, rest, -1, w, c)

LEMMA ClientRun ==
    ASSUME NEW run, NEW b \in Parts, Has(run, Flushed(b), <<Reads>>),
           run.yields = "none",
           NEW rest \in Seq(Bytes), NEW w, NEW c,
           Stream(<<>> \o (run.buffer \o (run.in \o rest)), -1, w, c),
           run.ended => rest = <<>> /\ c
    PROVE  ClientRan(run, Resume(run), b, rest, w, c)
  <1> DEFINE a == Advance(run)
  <1>1. <<>> \in Parts /\ Reads \in StepsToDo /\ Reads = Had(<<>>)
    BY Concat, SizesAssumption DEF Parts, StepsToDo, Reads, Had
  <1>2. HasSent(run, a, "flush", b, <<Reads>>)
    BY <1>1, FirstOfSteps, AdvanceSends DEF Flushed
  <1>3. Resume(run) = Advance(Advance(a))
    BY DEF Resume
  <1> HIDE DEF a
  <1>4. CASE a.yields = "socket"
    <2>1. Advance(a) = a
      BY <1>4, Stays
    <2> QED BY <1>2, <1>3, <1>4, <2>1 DEF ClientRan
  <1>5. CASE a.yields # "socket"
    <2>1. a.steps = <<Reads>> /\ a.yields = "none" /\ a \in Runs
      BY <1>2, <1>5 DEF HasSent
    <2>2. Has(a, Had(<<>>), <<>>)
      <3>1. /\ <<Reads>> # <<>> /\ Head(<<Reads>>) = Reads
            /\ Tail(<<Reads>>) = <<>>
        BY <1>1, FirstOfSteps
      <3> QED BY <1>1, <1>2, <2>1, <3>1 DEF Has, HasSent
    <2>3. /\ Stream(<<>> \o (a.buffer \o (a.in \o rest)), -1, w, c)
          /\ a.ended => rest = <<>> /\ c
      BY <1>2 DEF HasSent
    <2>4. HasReceived(a, Advance(a), <<>>, rest, -1, w, c)
      BY <1>1, <2>1, <2>2, <2>3, FirstOfSteps, AdvanceReceives
    <2> DEFINE r == Advance(a)
    <2> HIDE DEF r
    <2>5. r.steps = <<>> \/ r.yields # "none"
      <3>1. Starts(-1, r.record) => r.record[1] # "close"
        BY DEF Starts
      <3> QED BY <2>4, <3>1 DEF HasReceived, r
    <2>6. Advance(r) = r
      BY <2>5, Stays
    <2> QED BY <1>2, <1>3, <2>1, <2>4, <2>6 DEF ClientRan, r
  <1> QED BY <1>4, <1>5

\* The server's: the client's hello, then its own.
ServerRan(run, r, rest, w, c) ==
    LET more == <<Flushes("hello", 2)>>
    IN  \/ r.yields # "none" /\ HasReceived(run, r, more, rest, -1, w, c)
        \/ \E a \in Runs :
              /\ HasReceived(run, a, more, rest, -1, w, c)
              /\ a.record[1] # "close" /\ a.yields = "none"
              /\ HasSent(a, r, "flush", RecordBytes("hello", 2), <<>>)

LEMMA ServerRun ==
    ASSUME NEW run, NEW b \in Parts,
           Has(run, Had(b), <<Flushes("hello", 2)>>), run.yields = "none",
           NEW rest \in Seq(Bytes), NEW w, NEW c,
           Stream(b \o (run.buffer \o (run.in \o rest)), -1, w, c),
           run.ended => rest = <<>> /\ c
    PROVE  ServerRan(run, Resume(run), rest, w, c)
  <1> DEFINE a == Advance(run)
             z == RecordBytes("hello", 2)
             more == <<Flushes("hello", 2)>>
  <1>1. /\ z \in Parts /\ Flushes("hello", 2) = Flushed(z)
        /\ Flushed(z) \in StepsToDo
    BY RecordElements, SizesAssumption
       DEF Parts, Sends, Flushes, Flushed, StepsToDo
  <1>2. /\ more \in Seq(StepsToDo) /\ more # <<>>
        /\ Head(more) = Flushed(z) /\ Tail(more) = <<>>
        /\ <<>> \in Seq(StepsToDo)
    <2> HIDE DEF z
    <2> QED BY <1>1, FirstOfSteps
  <1> HIDE DEF more
  <1>3. HasReceived(run, a, more, rest, -1, w, c)
    BY <1>2, AdvanceReceives DEF more
  <1>4. Resume(run) = Advance(Advance(a))
    BY DEF Resume
  <1> HIDE DEF a
  <1>5. CASE a.yields # "none"
    <2>1. Advance(a) = a
      BY <1>5, Stays
    <2> QED BY <1>3, <1>4, <1>5, <2>1 DEF ServerRan, more
  <1>6. CASE a.yields = "none"
    <2>0. Starts(-1, a.record) => a.record[1] # "close"
      BY DEF Starts
    <2>1. /\ a.steps = more /\ a.yields = "none" /\ a \in Runs
          /\ a.record[1] # "close" /\ a.out = run.out
      BY <1>3, <1>6, <2>0 DEF HasReceived
    <2>2. Has(a, Flushed(z), <<>>)
      BY <1>2, <2>1 DEF Has
    <2>3. HasSent(a, Advance(a), "flush", z, <<>>)
      BY <1>1, <1>2, <2>1, <2>2, AdvanceSends DEF Flushed
    <2>4. Advance(Advance(a)) = Advance(a)
      BY <2>1, <2>3, Stays DEF HasSent
    <2> QED BY <1>3, <1>4, <2>1, <2>3, <2>4 DEF ServerRan, more
  <1> QED BY <1>5, <1>6

-----------------------------------------------------------------------------
(***************************************************************************)
(* An end at work, between what is there of its peer: the bytes before its *)
(* own on their way to the peer, the number of the last record the peer    *)
(* has read, whether the peer still hears it or has gone and how many      *)
(* records it has reported; and the bytes behind those that it finds, with the last   *)
(* record that the peer has written and how many more the wire may hold.   *)
(***************************************************************************)
Contexts ==
    [before : Seq(Bytes), read : Int, heard : BOOLEAN, gone : BOOLEAN,
     reported : Nat, rest : Seq(Bytes), written : Nat, closing : BOOLEAN,
     room : Nat]

OutKept(x, out, b, w, closing) ==
    x.heard => Stream(x.before \o (out \o b), x.read, w, closing)
InKept(x, b, f, i, m) ==
    Stream(b \o (f \o (i \o x.rest)), m, x.written, x.closing)

\* A flight of the handshake that is still to be sent finds the wire empty.
Silent(me, b) == ~me.connected /\ b # <<>> => me.out = <<>>

Base(me, x) ==
    /\ Local(me) /\ x \in Contexts /\ RecordLength <= WireCapacity
    /\ Len(me.out) <= WireCapacity /\ Len(me.in) <= x.room
    /\ Len(me.received) <= x.written /\ x.reported <= me.written
    /\ me.peerGone => ~x.heard /\ x.gone
    /\ me.ended => x.rest = <<>> /\ x.closing

\* Operation o is on, before or after a next().
Loaded(e, me, o, x) ==
    LET steps == me.op[o].steps
    IN  /\ Base(me, x) /\ Working(e, me, o)
        /\ OutKept(x, me.out, ToSend(steps), me.written, ClosingBy(o, steps))
        /\ Silent(me, ToSend(steps))
        /\ ~ClosingBy(o, steps) =>
               InKept(x, HasCome(steps), me.buffer, me.in,
                      LastBy(o, steps, Len(me.received)))

\* What is as it was.
Kept(me, n) ==
    /\ n.connected = me.connected /\ n.closed = me.closed
    /\ n.open = me.open /\ n.raised = me.raised /\ n.started = me.started
    /\ n.app = me.app /\ n.toWrite = me.toWrite /\ n.owes = me.owes
    /\ n.written = me.written /\ n.received = me.received
    /\ n.peerGone = me.peerGone /\ n.reset = me.reset
    /\ n.ended = me.ended

\* No operation is on, the end is closing or not and has read record m.
Quiet(n, x, closing, m) ==
    /\ Base(n, x) /\ AllOff(n) /\ n.result = NoResult
    /\ OutKept(x, n.out, <<>>, n.written, closing)
    /\ ~closing => InKept(x, <<>>, n.buffer, n.in, m)

\* The operation has found that the peer has gone: the end has shut down.
Broken(n, x) ==
    /\ Base(n, x) /\ AllOff(n) /\ n.result = NoResult
    /\ n.raised = "socket" /\ n.closed /\ ~n.open /\ n.started /\ ~x.heard

\* Operation o is still on, or has failed so.
Halfway(e, n, o, x) ==
    \/ Loaded(e, n, o, x) /\ n.result # NoResult
    \/ Broken(n, x)

RunAfter(me, o) == Resume(RunOf(me, o))

Ran(me, R, r, o) ==
    /\ R.done = (r.yields = NoResult) /\ R.record = r.record
    /\ R.me \in Machines /\ Kept(me, R.me)
    /\ R.me.out = r.out /\ R.me.in = r.in /\ R.me.buffer = r.buffer
    /\ \A y \in Operations \ {o} : R.me.op[y] = me.op[y]
    /\ R.done => R.me.op[o] = NoOp /\ R.me.result = NoResult
    /\ ~R.done => /\ R.me.op[o].on = me.op[o].on
                  /\ R.me.op[o].steps = r.steps
                  /\ R.me.op[o].record = r.record
                  /\ R.me.result = r.yields

\* The end as an operation that has raised leaves it.
Failed(me, R, r) ==
    /\ ~R.done /\ R.me \in Machines
    /\ AllOff(R.me) /\ R.me.result = NoResult
    /\ R.me.raised = r.yields /\ R.me.closed = TRUE /\ R.me.open = FALSE
    /\ R.me.connected = me.connected /\ R.me.started = me.started
    /\ R.me.written = me.written /\ R.me.received = me.received
    /\ R.me.peerGone = me.peerGone /\ R.me.reset = me.reset
    /\ R.me.ended = me.ended
    /\ R.me.out = r.out /\ R.me.in = r.in /\ R.me.buffer = r.buffer

LEMMA NoOpIs ==
    /\ NoOp \in Generators
    /\ ~NoOp.on /\ NoOp.steps = <<>> /\ NoOp.record = NoRecord
  <1>1. /\ Op(<<>>) \in Generators
        /\ Op(<<>>).steps = <<>> /\ Op(<<>>).record = NoRecord
    BY NoSteps DEF Op, Records, Generators
  <1> QED BY <1>1 DEF NoOp, Generators

LEMMA RunningOutcome ==
    ASSUME NEW me, NEW o
    PROVE  Running(me, o) = Outcome(me, o, RunAfter(me, o))
  <1> DEFINE left == Outcome(me, o, RunAfter(me, o))
  <1>1. {Outcome(me, o, run) : run \in {RunAfter(me, o)}} = {left}
    OBVIOUS
  <1> HIDE DEF left
  <1>2. (CHOOSE r \in {left} : TRUE) = left
    OBVIOUS
  <1> QED BY <1>1, <1>2 DEF Running, RunAfter, left

LEMMA RunningIs ==
    ASSUME NEW me \in Machines, NEW o \in Operations,
           RunAfter(me, o) \in Runs,
           RunAfter(me, o).yields \in {"none", "read", "write"}
    PROVE  Ran(me, Running(me, o), RunAfter(me, o), o)
  <1> DEFINE r == RunAfter(me, o)
             after == [me EXCEPT !.out = r.out, !.in = r.in,
                                 !.buffer = r.buffer]
             done == [after EXCEPT !.op[o] = NoOp, !.result = NoResult]
             waits == [after EXCEPT !.op[o].steps = r.steps,
                                    !.op[o].record = r.record,
                                    !.result = r.yields]
             R == Running(me, o)
  <1>1. R = [me |-> IF r.yields = NoResult THEN done ELSE waits,
             done |-> r.yields = NoResult, record |-> r.record]
    <2> DEFINE raises == Raises(after, r.yields)
    <2>1. R = [me |-> CASE r.yields = NoResult -> done
                        [] r.yields \in {"read", "write"} -> waits
                        [] r.yields \in {"socket", "abrupt"} -> raises,
               done |-> r.yields = NoResult, record |-> r.record]
      BY RunningOutcome DEF Outcome
    <2> HIDE DEF raises, done, waits, R
    <2>2. \/ r.yields = NoResult
          \/ r.yields # NoResult /\ r.yields \in {"read", "write"}
               /\ r.yields \notin {"socket", "abrupt"}
      BY DEF NoResult
    <2>3. r.yields = NoResult => r.yields \notin {"read", "write"}
                                /\ r.yields \notin {"socket", "abrupt"}
      BY DEF NoResult
    <2> QED BY <2>1, <2>2, <2>3
  <1>2. /\ r.out \in Seq(Bytes) /\ r.in \in Seq(Bytes)
        /\ r.buffer \in Seq(Bytes) /\ r.steps \in Seq(StepsToDo)
        /\ r.record \in Records /\ r.yields \in {"none", "read", "write"}
    BY DEF Runs
  <1> HIDE DEF r
  <1>3. /\ after \in Machines /\ after.op = me.op /\ Kept(me, after)
        /\ after.out = r.out /\ after.in = r.in /\ after.buffer = r.buffer
    BY <1>2 DEF Machines, Kept
  <1> HIDE DEF after
  <1>4. /\ done \in Machines /\ Kept(after, done) /\ done.op[o] = NoOp
        /\ \A y \in Operations \ {o} : done.op[y] = after.op[y]
        /\ done.result = NoResult /\ done.out = after.out
        /\ done.in = after.in /\ done.buffer = after.buffer
    <2> DEFINE ops == [after.op EXCEPT ![o] = NoOp]
    <2>1. /\ ops \in [Operations -> Generators] /\ ops[o] = NoOp
          /\ \A y \in Operations \ {o} : ops[y] = after.op[y]
      BY <1>3, NoOpIs DEF Machines
    <2>2. done = [after EXCEPT !.op = ops, !.result = NoResult]
      OBVIOUS
    <2> HIDE DEF ops, done
    <2> QED BY <1>3, <2>1, <2>2 DEF Machines, Kept, NoResult
  <1>5. ASSUME r.yields # NoResult
        PROVE  /\ waits \in Machines /\ Kept(after, waits)
               /\ waits.op[o].on = after.op[o].on
               /\ waits.op[o].steps = r.steps
               /\ waits.op[o].record = r.record
               /\ \A y \in Operations \ {o} : waits.op[y] = after.op[y]
               /\ waits.result = r.yields /\ waits.out = after.out
               /\ waits.in = after.in /\ waits.buffer = after.buffer
    <2> DEFINE first == [after EXCEPT !.op[o].steps = r.steps]
               second == [first EXCEPT !.op[o].record = r.record]
    <2>1. /\ first \in Machines /\ Kept(after, first)
          /\ first.op[o].on = after.op[o].on
          /\ first.op[o].steps = r.steps
          /\ \A y \in Operations \ {o} : first.op[y] = after.op[y]
          /\ first.out = after.out
          /\ first.in = after.in /\ first.buffer = after.buffer
      <3> DEFINE ops == [after.op EXCEPT ![o].steps = r.steps]
      <3>1. /\ ops \in [Operations -> Generators]
            /\ ops[o].on = after.op[o].on /\ ops[o].steps = r.steps
            /\ \A y \in Operations \ {o} : ops[y] = after.op[y]
        <4> DEFINE g == [after.op[o] EXCEPT !.steps = r.steps]
        <4>1. after.op \in [Operations -> Generators]
          BY <1>3 DEF Machines
        <4>2. /\ g \in Generators /\ g.on = after.op[o].on
              /\ g.steps = r.steps /\ g.record = after.op[o].record
          BY <1>2, <4>1 DEF Generators
        <4>3. ops = [after.op EXCEPT ![o] = g]
          OBVIOUS
        <4> HIDE DEF g, ops
        <4> QED BY <4>1, <4>2, <4>3
      <3>2. first = [after EXCEPT !.op = ops]
        OBVIOUS
      <3> HIDE DEF ops, first
      <3> QED BY <1>3, <3>1, <3>2 DEF Machines, Kept
    <2> HIDE DEF first
    <2>2. /\ second \in Machines /\ Kept(first, second)
          /\ second.op[o].on = first.op[o].on
          /\ second.op[o].steps = first.op[o].steps
          /\ second.op[o].record = r.record
          /\ \A y \in Operations \ {o} : second.op[y] = first.op[y]
          /\ second.out = first.out
          /\ second.in = first.in /\ second.buffer = first.buffer
      <3> DEFINE ops == [first.op EXCEPT ![o].record = r.record]
      <3>1. /\ ops \in [Operations -> Generators]
            /\ ops[o].on = first.op[o].on /\ ops[o].record = r.record
            /\ ops[o].steps = first.op[o].steps
            /\ \A y \in Operations \ {o} : ops[y] = first.op[y]
        <4> DEFINE g == [first.op[o] EXCEPT !.record = r.record]
        <4>1. first.op \in [Operations -> Generators]
          BY <2>1 DEF Machines
        <4>2. /\ g \in Generators /\ g.on = first.op[o].on
              /\ g.record = r.record /\ g.steps = first.op[o].steps
          BY <1>2, <4>1 DEF Generators
        <4>3. ops = [first.op EXCEPT ![o] = g]
          OBVIOUS
        <4> HIDE DEF g, ops
        <4> QED BY <4>1, <4>2, <4>3
      <3>2. second = [first EXCEPT !.op = ops]
        OBVIOUS
      <3> HIDE DEF ops, second
      <3> QED BY <2>1, <3>1, <3>2 DEF Machines, Kept
    <2>3. waits = [second EXCEPT !.result = r.yields]
      BY DEF first
    <2> HIDE DEF second, waits
    <2>4. /\ waits \in Machines /\ Kept(second, waits)
          /\ waits.op = second.op /\ waits.result = r.yields
          /\ waits.out = second.out
          /\ waits.in = second.in /\ waits.buffer = second.buffer
      BY <1>2, <1>5, <2>2, <2>3 DEF Machines, Kept, NoResult
    <2>5. Kept(after, waits)
      BY <2>1, <2>2, <2>4 DEF Kept
    <2> QED BY <2>1, <2>2, <2>4, <2>5
  <1> HIDE DEF done, waits
  <1> DEFINE through == r.yields = NoResult
  <1> HIDE DEF through
  <1>6. /\ R.me = IF through THEN done ELSE waits
        /\ R.done = through /\ R.record = r.record
    BY <1>1 DEF through
  <1> HIDE DEF R
  <1>7. CASE through
    BY <1>3, <1>4, <1>6, <1>7 DEF Ran, Kept, r, R, through
  <1>8. CASE ~through
    BY <1>3, <1>5, <1>6, <1>8 DEF Ran, Kept, r, R, through
  <1> QED BY <1>7, <1>8

LEMMA RaisedIs ==
    ASSUME NEW me \in Machines, NEW o \in Operations,
           RunAfter(me, o) \in Runs,
           RunAfter(me, o).yields \in {"socket", "abrupt"}
    PROVE  Failed(me, Running(me, o), RunAfter(me, o))
  <1> DEFINE r == RunAfter(me, o)
             after == [me EXCEPT !.out = r.out, !.in = r.in,
                                 !.buffer = r.buffer]
             done == [after EXCEPT !.op[o] = NoOp, !.result = NoResult]
             waits == [after EXCEPT !.op[o].steps = r.steps,
                                    !.op[o].record = r.record,
                                    !.result = r.yields]
             n == Raises(after, r.yields)
             off == [y \in Operations |-> NoOp]
             R == Running(me, o)
  <1>1. R.me = n /\ ~R.done
    <2>1. R = [me |-> CASE r.yields = NoResult -> done
                        [] r.yields \in {"read", "write"} -> waits
                        [] r.yields \in {"socket", "abrupt"} -> n,
               done |-> r.yields = NoResult, record |-> r.record]
      BY RunningOutcome DEF Outcome
    <2> HIDE DEF n, done, waits, R
    <2>2. r.yields # NoResult /\ r.yields \notin {"read", "write"}
      BY DEF NoResult
    <2> QED BY <2>1, <2>2
  <1>2. /\ r.out \in Seq(Bytes) /\ r.in \in Seq(Bytes)
        /\ r.buffer \in Seq(Bytes) /\ r.yields \in {"socket", "abrupt"}
    BY DEF Runs
  <1> HIDE DEF r
  <1>3. /\ after \in Machines /\ Kept(me, after)
        /\ after.out = r.out /\ after.in = r.in /\ after.buffer = r.buffer
    BY <1>2 DEF Machines, Kept
  <1> HIDE DEF after
  <1>4. off \in [Operations -> Generators] /\ \A y \in Operations : off[y] = NoOp
    BY NoOpIs
  <1>5. n = [after EXCEPT !.op = off, !.result = NoResult,
                          !.raised = r.yields, !.closed = TRUE, !.open = FALSE]
    BY DEF Raises, _clear
  <1> HIDE DEF off, n, R
  <1>6. /\ n \in Machines /\ n.op = off /\ n.result = NoResult
        /\ n.raised = r.yields /\ n.closed = TRUE /\ n.open = FALSE
        /\ n.connected = after.connected /\ n.started = after.started
        /\ n.written = after.written /\ n.received = after.received
        /\ n.peerGone = after.peerGone /\ n.reset = after.reset
        /\ n.ended = after.ended
        /\ n.out = after.out /\ n.in = after.in /\ n.buffer = after.buffer
    BY <1>2, <1>3, <1>4, <1>5 DEF Machines, NoResult
  <1>7. AllOff(n)
    BY <1>4, <1>6 DEF AllOff
  <1> QED BY <1>1, <1>3, <1>6, <1>7 DEF Failed, Kept, R, r

LEMMA KeptBase ==
    ASSUME NEW me, NEW n \in Machines, NEW x, Base(me, x), Kept(me, n),
           Len(n.out) <= WireCapacity, Len(n.in) <= x.room
    PROVE  Base(n, x)
  BY DEF Base, Local, Kept

\* The four lists of steps.
LEMMA ToSendIs ==
    ASSUME NEW y \in Parts
    PROVE  /\ OnlySends(<<Sent(y)>>) /\ ~OnlyReads(<<Sent(y)>>)
           /\ ToSend(<<Sent(y)>>) = y /\ HasCome(<<Sent(y)>>) = <<>>
           /\ <<Sent(y)>>[1].do = "send" /\ Len(<<Sent(y)>>) = 1
           /\ Sent(y) \in StepsToDo
  BY DEF OnlySends, OnlyReads, ToSend, HasCome, Sent, Had, StepsToDo

LEMMA ToReadIs ==
    ASSUME NEW y \in Parts
    PROVE  /\ OnlyReads(<<Had(y)>>) /\ ~OnlySends(<<Had(y)>>)
           /\ ToSend(<<Had(y)>>) = <<>> /\ HasCome(<<Had(y)>>) = y
           /\ <<Had(y)>>[1].do = "read" /\ Len(<<Had(y)>>) = 1
           /\ Had(y) \in StepsToDo
  BY DEF OnlySends, OnlyReads, ToSend, HasCome, Sent, Had, StepsToDo

LEMMA ToFlushAndReadIs ==
    LET z == RecordBytes("hello", 1)
        steps == <<Flushes("hello", 1), Reads>>
    IN  /\ FlushesThenReads(steps)
        /\ ToSend(steps) = z /\ HasCome(steps) = <<>>
        /\ Len(steps) = 2 /\ ~OnlyReads(steps) /\ ~OnlySends(steps)
        /\ Flushes("hello", 1) = Flushed(z) /\ z \in Parts
        /\ Flushes("hello", 1) \in StepsToDo
        /\ Reads \in StepsToDo /\ Reads = Had(<<>>) /\ <<>> \in Parts
  <1>1. RecordBytes("hello", 1) \in Parts /\ <<>> \in Parts
    BY RecordElements, SizesAssumption DEF Parts
  <1> QED
    BY <1>1 DEF FlushesThenReads, ToSend, HasCome, Flushes, Flushed, Sends,
                OnlyReads, OnlySends, Sent, Had, StepsToDo, Reads

LEMMA ToReadAndFlushIs ==
    ASSUME NEW y \in Parts
    PROVE  LET z == RecordBytes("hello", 2)
               steps == <<Had(y), Flushes("hello", 2)>>
           IN  /\ ReadsThenFlushes(steps)
               /\ ToSend(steps) = z /\ HasCome(steps) = y
               /\ steps[1].do = "read" /\ Len(steps) = 2
               /\ ~OnlySends(steps)
               /\ Flushes("hello", 2) \in StepsToDo
               /\ Flushes("hello", 2) = Flushed(z) /\ z \in Parts
  <1>1. RecordBytes("hello", 2) \in Parts
    BY RecordElements, SizesAssumption DEF Parts
  <1> QED
    BY <1>1 DEF ReadsThenFlushes, ToSend, HasCome, Sent, Had, OnlySends,
                StepsToDo, Flushes, Flushed, Sends

LEMMA RunOfIs ==
    ASSUME NEW me, NEW x, Base(me, x), NEW o \in Operations
    PROVE  LET run == RunOf(me, o)
           IN  /\ run \in Runs /\ Len(run.out) <= WireCapacity
               /\ run.steps = me.op[o].steps /\ run.out = me.out
               /\ run.in = me.in /\ run.buffer = me.buffer
               /\ run.peerGone = me.peerGone /\ run.reset = me.reset
               /\ run.ended = me.ended
               /\ run.record = me.op[o].record /\ run.yields = "none"
               /\ me.op[o].steps \in Seq(StepsToDo)
  <1>1. me \in Machines /\ me.op[o] \in Generators
    BY DEF Base, Local, Machines
  <1>2. /\ me.op[o].steps \in Seq(StepsToDo) /\ me.op[o].record \in Records
        /\ me.out \in Seq(Bytes) /\ me.in \in Seq(Bytes)
        /\ me.buffer \in Seq(Bytes)
        /\ me.peerGone \in BOOLEAN /\ me.reset \in BOOLEAN
        /\ me.ended \in BOOLEAN
    BY <1>1 DEF Machines, Generators
  <1> QED BY <1>2 DEF RunOf, Runs, Base, NoResult

\* Sending takes from what is to be sent what it adds to the wire, or finds
\* that the peer has gone.
SentKept(x, run, r, do, more, w, closing) ==
    /\ r \in Runs /\ Len(r.out) <= WireCapacity
    /\ r.in = run.in /\ r.buffer = run.buffer /\ r.record = run.record
    /\ r.peerGone = run.peerGone /\ r.reset = run.reset
    /\ r.ended = run.ended
    /\ \/ /\ r.steps = more /\ r.yields = run.yields
          /\ OutKept(x, r.out, <<>>, w, closing)
       \/ /\ r.yields = "write" /\ do = "send"
          /\ \E y \in Parts : /\ r.steps = <<Sent(y)>> \o more
                              /\ OutKept(x, r.out, y, w, closing)
       \/ r.yields = "socket" /\ run.reset

LEMMA SentKeeps ==
    ASSUME NEW x, NEW run, NEW r, NEW do, NEW b, NEW more, NEW w, NEW closing,
           HasSent(run, r, do, b, more), OutKept(x, run.out, b, w, closing),
           run.peerGone => ~x.heard,
           do = "flush" => ~(Len(run.out) + Len(b) > WireCapacity)
    PROVE  SentKept(x, run, r, do, more, w, closing)
  <1>1. CASE r.steps = more /\ r.yields = run.yields
             /\ (~run.peerGone => r.out = run.out \o b)
    <2>1. r.out \in Seq(Bytes) /\ r.out \o <<>> = r.out
      <3>1. r.out \in Seq(Bytes)
        BY DEF HasSent, Runs
      <3> QED BY <3>1, Concat
    <2>2. OutKept(x, r.out, <<>>, w, closing)
      BY <1>1, <2>1 DEF OutKept
    <2> QED BY <1>1, <2>2 DEF HasSent, SentKept
  <1>2. CASE /\ r.yields = "write" /\ do = "send"
             /\ \E y \in Parts : /\ r.steps = <<Sent(y)>> \o more
                                 /\ r.out \o y = run.out \o b
    <2>1. PICK y \in Parts : r.steps = <<Sent(y)>> \o more
                             /\ r.out \o y = run.out \o b
      BY <1>2
    <2>2. OutKept(x, r.out, y, w, closing)
      BY <2>1 DEF OutKept
    <2> QED BY <1>2, <2>1, <2>2 DEF HasSent, SentKept
  <1>3. CASE r.yields = "socket" /\ run.reset
    BY <1>3 DEF HasSent, SentKept
  <1> QED BY <1>1, <1>2, <1>3 DEF HasSent

Ended(me, n, r, x) ==
    /\ Base(n, x) /\ AllOff(n) /\ n.result = NoResult /\ Kept(me, n)
    /\ n.out = r.out /\ n.in = r.in /\ n.buffer = r.buffer

Waiting(me, n, r, o, x) ==
    /\ Base(n, x) /\ OnlyOn(n, o) /\ n.result # NoResult /\ Kept(me, n)
    /\ n.op[o].steps = r.steps /\ n.op[o].record = r.record
    /\ n.out = r.out /\ n.in = r.in /\ n.buffer = r.buffer

LEMMA RunningResult ==
    ASSUME NEW me, NEW x, NEW o \in Operations, Base(me, x), OnlyOn(me, o),
           me.started, RunAfter(me, o) \in Runs,
           RunAfter(me, o).yields # "abrupt",
           RunAfter(me, o).yields = "socket" => me.reset,
           Len(RunAfter(me, o).out) <= WireCapacity
    PROVE  LET R == Running(me, o)
               r == RunAfter(me, o)
           IN  /\ R.done = (r.yields = NoResult) /\ R.record = r.record
               /\ R.done => Ended(me, R.me, r, x)
               /\ ~R.done => IF r.yields = "socket" THEN Broken(R.me, x)
                             ELSE Waiting(me, R.me, r, o, x)
  <1> DEFINE R == Running(me, o)
             r == RunAfter(me, o)
             n == R.me
  <1>1. me \in Machines
    BY DEF Base, Local
  <1>2. Len(r.in) <= x.room
    <2>1. RunOf(me, o) \in Runs /\ Len(me.out) <= WireCapacity
          /\ RunOf(me, o).in = me.in /\ RunOf(me, o).out = me.out
      BY RunOfIs DEF Base
    <2>2. r.in \in {me.in, <<>>}
      BY <2>1, ResumeIn DEF r, RunAfter
    <2> HIDE DEF r
    <2>3. Len(me.in) <= x.room /\ Len(<<>>) = 0 /\ x.room \in Nat
      BY DEF Base, Contexts
    <2> QED BY <2>2, <2>3
  <1>3. CASE r.yields = "socket"
    <2>1. Failed(me, R, r)
      BY <1>1, <1>3, RaisedIs
    <2> HIDE DEF R, r
    <2>2. me.reset /\ me.peerGone /\ ~x.heard /\ Local(me)
      BY <1>3 DEF Base, Local, r
    <2>3. Local(n)
      BY <1>3, <2>1, <2>2 DEF Failed, Local
    <2>4. Base(n, x)
      BY <1>2, <2>1, <2>3 DEF Failed, Base, r
    <2>5. Broken(n, x)
      BY <1>3, <2>1, <2>2, <2>4 DEF Failed, Broken
    <2>6. ~R.done /\ r.yields # NoResult
      BY <1>3, <2>1 DEF Failed, NoResult
    <2>7. R.record = r.record /\ R.done = (r.yields = NoResult)
      BY RunningOutcome DEF Outcome, R, r
    <2>8. /\ R.done = (r.yields = NoResult) /\ R.record = r.record
          /\ R.done => Ended(me, n, r, x)
          /\ ~R.done => IF r.yields = "socket" THEN Broken(n, x)
                        ELSE Waiting(me, n, r, o, x)
      <3>1. R.done = FALSE /\ (r.yields = NoResult) = FALSE
        BY <2>6, <2>7
      <3> QED BY <1>3, <2>5, <2>7, <3>1
    <2> QED BY <2>8 DEF R, r
  <1>4. CASE r.yields # "socket"
    <2>1. r.yields \in {"none", "read", "write"}
      BY <1>4 DEF Runs
    <2>2. Ran(me, R, r, o)
      BY <1>1, <2>1, RunningIs
    <2> HIDE DEF R, r
    <2>3. /\ R.done = (r.yields = NoResult) /\ R.record = r.record
          /\ n \in Machines /\ Kept(me, n)
          /\ n.out = r.out /\ n.in = r.in /\ n.buffer = r.buffer
          /\ \A y \in Operations \ {o} : n.op[y] = me.op[y]
      BY <2>2 DEF Ran
    <2>4. Base(n, x)
      <3>1. Len(n.out) <= WireCapacity /\ Len(n.in) <= x.room
        BY <1>2, <2>3 DEF r
      <3> QED BY <2>3, <3>1, KeptBase
    <2>5. \A y \in Operations \ {o} : n.op[y] = NoOp
      BY <2>3 DEF OnlyOn
    <2>6. ASSUME R.done
          PROVE  Ended(me, n, r, x)
      <3>1. n.op[o] = NoOp /\ n.result = NoResult
        BY <2>2, <2>6 DEF Ran
      <3>2. AllOff(n)
        BY <2>5, <3>1 DEF AllOff
      <3> QED BY <2>3, <2>4, <3>1, <3>2 DEF Ended
    <2>7. ASSUME ~R.done
          PROVE  Waiting(me, n, r, o, x)
      <3>1. /\ n.op[o].on = me.op[o].on /\ n.op[o].steps = r.steps
            /\ n.op[o].record = r.record /\ n.result = r.yields
            /\ r.yields # NoResult
        BY <2>2, <2>3, <2>7 DEF Ran
      <3>2. OnlyOn(n, o)
        BY <2>5, <3>1 DEF OnlyOn
      <3> QED BY <2>3, <2>4, <3>1, <3>2 DEF Waiting
    <2> QED BY <1>4, <2>3, <2>6, <2>7 DEF R, r
  <1> QED BY <1>3, <1>4

\* One next() of operation o: it goes on or fails, or it is through.
Carried(e, me, R, o, x, closing, m) ==
    /\ ~R.done => Halfway(e, R.me, o, x)
    /\ R.done => Kept(me, R.me) /\ Quiet(R.me, x, closing, m)

LEMMA SenderRuns ==
    ASSUME NEW e \in Ends, NEW me, NEW x, NEW o \in Operations,
           Loaded(e, me, o, x), OnlySends(me.op[o].steps)
    PROVE  LET R == Running(me, o)
           IN  /\ R.record = me.op[o].record
               /\ Carried(e, me, R, o, x, ClosingBy(o, me.op[o].steps),
                          Len(me.received))
  <1> DEFINE steps == me.op[o].steps
             b == steps[1].bytes
             run == RunOf(me, o)
             r == RunAfter(me, o)
             R == Running(me, o)
             n == R.me
             closing == ClosingBy(o, steps)
  <1>1. /\ Base(me, x) /\ Working(e, me, o) /\ OnlyOn(me, o)
        /\ OutKept(x, me.out, ToSend(steps), me.written, closing)
        /\ Silent(me, ToSend(steps))
        /\ ~closing => InKept(x, HasCome(steps), me.buffer, me.in,
                              LastBy(o, steps, Len(me.received)))
    BY DEF Loaded, Working
  <1>2. /\ run \in Runs /\ Len(run.out) <= WireCapacity
        /\ run.steps = steps /\ run.out = me.out
        /\ run.in = me.in /\ run.buffer = me.buffer
        /\ run.peerGone = me.peerGone /\ run.reset = me.reset
        /\ run.ended = me.ended
        /\ run.record = me.op[o].record /\ run.yields = "none"
        /\ steps \in Seq(StepsToDo)
    BY <1>1, RunOfIs
  <1> HIDE DEF run
  <1>3. b \in Parts /\ steps = <<Sent(b)>>
    <2>1. steps = <<Sent(b)>> /\ Len(<<Sent(b)>>) = 1
      BY DEF OnlySends
    <2>2. steps[1] \in StepsToDo
      BY <1>2, <2>1
    <2> QED BY <2>1, <2>2 DEF StepsToDo
  <1> HIDE DEF b
  <1>4. /\ ToSend(steps) = b /\ HasCome(steps) = <<>>
        /\ LastBy(o, steps, Len(me.received)) = Len(me.received)
    BY <1>3, ToSendIs DEF LastBy
  <1>5. Has(run, Sent(b), <<>>)
    BY <1>2, <1>3, ToSendIs, FirstOfSteps DEF Has
  <1>6. HasSent(run, r, "send", b, <<>>)
    BY <1>2, <1>3, <1>5, SendRun DEF RunAfter, run
  <1>7. me.peerGone => ~x.heard
    BY <1>1 DEF Base
  <1>8. SentKept(x, run, r, "send", <<>>, me.written, closing)
    BY <1>1, <1>2, <1>4, <1>6, <1>7, SentKeeps
  <1>9. /\ R.done = (r.yields = NoResult) /\ R.record = r.record
        /\ R.done => Ended(me, n, r, x)
        /\ ~R.done => IF r.yields = "socket" THEN Broken(n, x)
                      ELSE Waiting(me, n, r, o, x)
    <2>1. /\ r \in Runs /\ Len(r.out) <= WireCapacity
          /\ r.yields # "abrupt" /\ (r.yields = "socket" => me.reset)
      BY <1>2, <1>8 DEF SentKept
    <2> HIDE DEF r, R
    <2> QED BY <1>1, <2>1, RunningResult DEF Working, r, R
  <1> HIDE DEF r, R
  <1>14. o # "handshaker"
    <2>1. Fits(e, o, steps, me.op[o].record)
      BY <1>1 DEF Working
    <2>2. ~FlushesThenReads(steps) /\ ~OnlyReads(steps)
          /\ ~ReadsThenFlushes(steps)
      BY <1>3, ToSendIs DEF FlushesThenReads, ReadsThenFlushes
    <2> HIDE DEF steps
    <2> QED BY <2>1, <2>2 DEF Fits
  <1>15. me.connected
    BY <1>1, <1>14 DEF Working
  <1>10. R.record = me.op[o].record /\ r.in = me.in /\ r.buffer = me.buffer
    BY <1>2, <1>8, <1>9 DEF SentKept
  <1>11. ASSUME R.done
         PROVE  Kept(me, n) /\ Quiet(n, x, closing, Len(me.received))
    <2>1. OutKept(x, r.out, <<>>, me.written, closing)
      BY <1>8, <1>9, <1>11 DEF SentKept, NoResult
    <2>2. Ended(me, n, r, x) /\ n.written = me.written
      BY <1>9, <1>11 DEF Ended, Kept
    <2>3. OutKept(x, n.out, <<>>, n.written, closing)
      BY <2>1, <2>2 DEF Ended
    <2>4. ~closing => InKept(x, <<>>, n.buffer, n.in, Len(me.received))
      BY <1>1, <1>4, <1>10, <2>2 DEF Ended
    <2> QED BY <2>2, <2>3, <2>4 DEF Ended, Quiet
  <1>12. ASSUME ~R.done
         PROVE  Halfway(e, n, o, x)
    <2>0. CASE r.yields = "socket"
      BY <1>9, <1>12, <2>0 DEF Halfway
    <2> SUFFICES ASSUME r.yields # "socket"
                 PROVE  Loaded(e, n, o, x) /\ n.result # NoResult
      BY <2>0 DEF Halfway
    <2>1. Waiting(me, n, r, o, x) /\ r.yields # NoResult
      BY <1>9, <1>12
    <2>2. PICK y \in Parts : /\ r.steps = <<Sent(y)>> \o <<>>
                             /\ OutKept(x, r.out, y, me.written, closing)
      BY <1>2, <1>8, <2>1 DEF SentKept, NoResult
    <2>3. r.steps = <<Sent(y)>>
      BY <2>2, ToSendIs, FirstOfSteps
    <2> DEFINE now == n.op[o].steps
    <2>4. /\ now = <<Sent(y)>> /\ n.op[o].record = me.op[o].record
          /\ n.out = r.out /\ n.in = me.in /\ n.buffer = me.buffer
          /\ n.written = me.written /\ n.received = me.received
          /\ Base(n, x) /\ OnlyOn(n, o) /\ n.result # NoResult
          /\ n.started = me.started /\ n.open = me.open
          /\ n.connected = me.connected
      BY <1>9, <1>10, <2>1, <2>3 DEF Waiting, Kept
    <2> HIDE DEF n
    <2>5. /\ ToSend(now) = y /\ HasCome(now) = <<>> /\ OnlySends(now)
          /\ LastBy(o, now, Len(me.received)) = Len(me.received)
          /\ ClosingBy(o, now) = closing
      BY <2>4, ToSendIs DEF LastBy, ClosingBy
    <2>6. Fits(e, o, now, n.op[o].record)
      <3>1. Fits(e, o, steps, me.op[o].record)
        BY <1>1 DEF Working
      <3>2. ~OnlyReads(steps)
        BY <1>3, ToSendIs
      <3> HIDE DEF now, steps
      <3> QED BY <1>14, <2>4, <2>5, <3>1, <3>2 DEF Fits, Operations
    <2>7. Working(e, n, o)
      BY <1>1, <2>4, <2>6 DEF Working
    <2>8. OutKept(x, n.out, ToSend(now), n.written, ClosingBy(o, now))
      BY <2>2, <2>4, <2>5
    <2>9. ~ClosingBy(o, now) =>
             InKept(x, HasCome(now), n.buffer, n.in,
                    LastBy(o, now, Len(n.received)))
      BY <1>1, <1>4, <2>4, <2>5
    <2>10. Silent(n, ToSend(now))
      BY <1>15, <2>4 DEF Silent
    <2> QED BY <2>4, <2>7, <2>8, <2>9, <2>10 DEF Loaded
  <1> QED BY <1>10, <1>11, <1>12 DEF Carried, R

\* A record to send, where there was nothing.
LEMMA DataToSend ==
    ASSUME NEW x \in Contexts, NEW out \in Seq(Bytes), NEW w,
           OutKept(x, out, <<>>, w, FALSE)
    PROVE  OutKept(x, out, RecordBytes("data", w + 1), w + 1, FALSE)
  <1> SUFFICES ASSUME x.heard
               PROVE  Stream(x.before \o (out \o RecordBytes("data", w + 1)),
                             x.read, w + 1, FALSE)
    BY DEF OutKept
  <1> DEFINE s == x.before \o out
             t == RecordBytes("data", w + 1)
  <1>1. /\ out \o <<>> = out /\ x.before \in Seq(Bytes)
        /\ Stream(x.before \o (out \o <<>>), x.read, w, FALSE)
    BY Concat DEF OutKept, Contexts
  <1>2. Stream(s, x.read, w, FALSE) /\ w \in Nat
    BY <1>1 DEF Stream
  <1>3. Stream(s \o t, x.read, w + 1, FALSE)
    <2>1. w + 1 \in Nat /\ "data" \in {"data", "close"}
      BY <1>2
    <2>2. Stream(s \o t, x.read, IF "data" = "data" THEN w + 1 ELSE w,
                 "data" = "close")
      BY <1>2, <2>1, AddRecord
    <2> HIDE DEF s, t
    <2> QED BY <2>2 DEF Stream, Finishes
  <1>4. s \o t = x.before \o (out \o t)
    <2>1. t \in Seq(Bytes)
      BY <1>2, RecordElements
    <2> HIDE DEF t
    <2> QED BY <1>1, <2>1, Assoc
  <1> QED BY <1>3, <1>4

LEMMA CloseToSend ==
    ASSUME NEW x \in Contexts, NEW out \in Seq(Bytes), NEW w,
           OutKept(x, out, <<>>, w, FALSE)
    PROVE  OutKept(x, out, RecordBytes("close", 0), w, TRUE)
  <1> SUFFICES ASSUME x.heard
               PROVE  Stream(x.before \o (out \o RecordBytes("close", 0)),
                             x.read, w, TRUE)
    BY DEF OutKept
  <1> DEFINE s == x.before \o out
             t == RecordBytes("close", 0)
  <1>1. /\ out \o <<>> = out /\ x.before \in Seq(Bytes)
        /\ Stream(x.before \o (out \o <<>>), x.read, w, FALSE)
    BY Concat DEF OutKept, Contexts
  <1>2. Stream(s, x.read, w, FALSE) /\ w \in Nat
    BY <1>1 DEF Stream
  <1>3. Stream(s \o t, x.read, w, TRUE)
    <2>1. Stream(s \o t, x.read, IF "close" = "data" THEN w + 1 ELSE w,
                 "close" = "close")
      BY <1>2, AddRecord
    <2> HIDE DEF s, t
    <2> QED BY <2>1 DEF Stream, Finishes
  <1>4. s \o t = x.before \o (out \o t)
    <2>1. t \in Seq(Bytes)
      BY RecordElements
    <2> HIDE DEF t
    <2> QED BY <1>1, <2>1, Assoc
  <1> QED BY <1>3, <1>4

\* The reader's record: the next data, or the peer's close_notify, which
\* has been answered.
ReadResult(me, R, x) ==
    /\ Kept(me, R.me)
    /\ R.record[1] \in {"data", "close"} /\ R.record \in Bytes
    /\ R.record[1] = "data" =>
          /\ R.record[2] = Len(me.received) + 1 /\ R.record[2] <= x.written
          /\ Quiet(R.me, x, FALSE, R.record[2])
    /\ R.record[1] = "close" => Quiet(R.me, x, TRUE, Len(me.received))

LEMMA ReaderRuns ==
    ASSUME NEW e \in Ends, NEW me, NEW x,
           Loaded(e, me, "reader", x), OnlyReads(me.op["reader"].steps)
    PROVE  LET R == Running(me, "reader")
           IN  /\ ~R.done => Halfway(e, R.me, "reader", x)
               /\ R.done => ReadResult(me, R, x)
  <1> DEFINE o == "reader"
             steps == me.op[o].steps
             b == steps[1].bytes
             run == RunOf(me, o)
             r == RunAfter(me, o)
             R == Running(me, o)
             n == R.me
             m == Len(me.received)
  <1>0. o \in Operations /\ o = "reader"
    BY DEF Operations
  <1> HIDE DEF o
  <1>1. /\ Base(me, x) /\ Working(e, me, o) /\ OnlyOn(me, o)
        /\ OutKept(x, me.out, ToSend(steps), me.written,
                   ClosingBy(o, steps))
        /\ ~ClosingBy(o, steps) =>
              InKept(x, HasCome(steps), me.buffer, me.in, LastBy(o, steps, m))
        /\ m \in Nat /\ x \in Contexts /\ me.out \in Seq(Bytes)
        /\ me.connected /\ me.started
    BY <1>0 DEF Loaded, Working, Base, Local, Machines
  <1>2. /\ run \in Runs /\ Len(run.out) <= WireCapacity
        /\ run.steps = steps /\ run.out = me.out
        /\ run.in = me.in /\ run.buffer = me.buffer
        /\ run.peerGone = me.peerGone /\ run.reset = me.reset
        /\ run.ended = me.ended
        /\ run.record = me.op[o].record /\ run.yields = "none"
        /\ steps \in Seq(StepsToDo)
    BY <1>0, <1>1, RunOfIs
  <1> HIDE DEF run
  <1>3. b \in Parts /\ steps = <<Had(b)>>
    <2>1. steps = <<Had(b)>> /\ Len(<<Had(b)>>) = 1
      BY <1>0 DEF OnlyReads
    <2>2. steps[1] \in StepsToDo
      BY <1>2, <2>1
    <2> QED BY <2>1, <2>2 DEF StepsToDo
  <1> HIDE DEF b
  <1>4. /\ ToSend(steps) = <<>> /\ HasCome(steps) = b
        /\ LastBy(o, steps, m) = m /\ ~ClosingBy(o, steps)
    BY <1>0, <1>3, ToReadIs DEF LastBy, ClosingBy
  <1>5. Has(run, Had(b), <<>>)
    BY <1>2, <1>3, ToReadIs, FirstOfSteps DEF Has
  <1>6. /\ OutKept(x, me.out, <<>>, me.written, FALSE)
        /\ InKept(x, b, me.buffer, me.in, m)
    <2>1. ClosingBy(o, steps) = FALSE
      BY <1>4 DEF ClosingBy
    <2> QED BY <1>1, <1>4, <2>1
  <1>7. ReaderRan(run, r, x.rest, m, x.written, x.closing)
    <2>1. /\ x.rest \in Seq(Bytes)
          /\ run.ended => x.rest = <<>> /\ x.closing
      BY <1>1, <1>2 DEF Base, Contexts
    <2>2. Stream(b \o (run.buffer \o (run.in \o x.rest)), m, x.written,
                 x.closing)
      BY <1>2, <1>6 DEF InKept
    <2>3. run.yields = "none"
      BY <1>2
    <2> QED BY <1>3, <1>5, <2>1, <2>2, <2>3, ReadRun DEF RunAfter, run
  <1>8. ASSUME HasReceived(run, r, <<>>, x.rest, m, x.written, x.closing),
               r.yields # "none" \/ r.record[1] # "close"
        PROVE  /\ ~R.done => Halfway(e, n, o, x)
               /\ R.done => ReadResult(me, R, x)
    <2>1. /\ r \in Runs /\ r.out = me.out /\ Len(r.out) <= WireCapacity
          /\ r.yields # "abrupt" /\ (r.yields = "socket" => me.reset)
      BY <1>2, <1>8 DEF HasReceived
    <2>2. /\ R.done = (r.yields = NoResult) /\ R.record = r.record
          /\ R.done => Ended(me, n, r, x)
          /\ ~R.done => IF r.yields = "socket" THEN Broken(n, x)
                        ELSE Waiting(me, n, r, o, x)
      BY <1>0, <1>1, <2>1, RunningResult
    <2> HIDE DEF r, R
    <2>3. ASSUME R.done
          PROVE  ReadResult(me, R, x)
      <3>1. r.yields = "none" /\ Ended(me, n, r, x)
        BY <2>2, <2>3 DEF NoResult
      <3>2. /\ r.record \in Bytes /\ Starts(m, r.record)
            /\ r.record[1] # "close"
            /\ r.record[1] = "data" => r.record[2] <= x.written
            /\ Stream(r.buffer \o (r.in \o x.rest), No(r.record),
                      x.written, x.closing)
        BY <1>8, <3>1 DEF HasReceived
      <3>3. /\ r.record[1] = "data" /\ r.record[2] = m + 1
            /\ No(r.record) = r.record[2]
        BY <1>1, <3>2 DEF Starts, No
      <3>4. InKept(x, <<>>, n.buffer, n.in, r.record[2])
        <4>1. n.buffer \o (n.in \o x.rest) \in Seq(Bytes)
          BY <3>1, <3>2 DEF Stream, Ended
        <4>2. <<>> \o (n.buffer \o (n.in \o x.rest))
                 = n.buffer \o (n.in \o x.rest)
          BY <4>1, Concat
        <4> QED BY <3>1, <3>2, <3>3, <4>2 DEF InKept, Ended
      <3>5. OutKept(x, n.out, <<>>, n.written, FALSE)
        BY <1>6, <2>1, <3>1 DEF Ended, Kept
      <3>6. Quiet(n, x, FALSE, r.record[2])
        BY <3>1, <3>4, <3>5 DEF Quiet, Ended
      <3> QED BY <2>2, <3>1, <3>2, <3>3, <3>6 DEF ReadResult, Ended
    <2>4. ASSUME ~R.done
          PROVE  Halfway(e, n, o, x)
      <3>0. CASE r.yields = "socket"
        BY <2>2, <2>4, <3>0 DEF Halfway
      <3> SUFFICES ASSUME r.yields # "socket"
                   PROVE  Loaded(e, n, o, x) /\ n.result # NoResult
        BY <3>0 DEF Halfway
      <3>1. Waiting(me, n, r, o, x) /\ r.yields # NoResult
        BY <2>2, <2>4
      <3>2. PICK y \in Parts :
               /\ r.steps = <<Had(y)>> \o <<>>
               /\ Stream(y \o (r.buffer \o (r.in \o x.rest)), m, x.written,
                         x.closing)
        BY <1>2, <1>8, <3>1 DEF HasReceived, NoResult
      <3>3. r.steps = <<Had(y)>>
        BY <3>2, ToReadIs, FirstOfSteps
      <3> DEFINE now == n.op[o].steps
      <3>4. /\ now = <<Had(y)>> /\ n.out = me.out
            /\ n.in = r.in /\ n.buffer = r.buffer
            /\ n.written = me.written /\ n.received = me.received
            /\ Base(n, x) /\ OnlyOn(n, o) /\ n.result # NoResult
            /\ n.started = me.started /\ n.open = me.open
            /\ n.connected = me.connected
        BY <2>1, <3>1, <3>3 DEF Waiting, Kept
      <3> HIDE DEF n
      <3>5. /\ ToSend(now) = <<>> /\ HasCome(now) = y /\ OnlyReads(now)
            /\ LastBy(o, now, m) = m
            /\ ClosingBy(o, now) = FALSE
        BY <1>0, <3>4, ToReadIs DEF LastBy, ClosingBy
      <3> HIDE DEF now
      <3>6. Working(e, n, o)
        <4>1. Fits(e, o, now, n.op[o].record)
          BY <1>0, <3>5 DEF Fits
        <4> QED BY <1>1, <3>4, <4>1 DEF Working, now
      <3>7. OutKept(x, n.out, ToSend(now), n.written, ClosingBy(o, now))
        BY <1>6, <3>4, <3>5
      <3>8. ~ClosingBy(o, now) =>
               InKept(x, HasCome(now), n.buffer, n.in,
                      LastBy(o, now, Len(n.received)))
        BY <3>2, <3>4, <3>5 DEF InKept
      <3>9. Silent(n, ToSend(now))
        BY <1>1, <3>4 DEF Silent
      <3> QED BY <3>4, <3>6, <3>7, <3>8, <3>9 DEF Loaded, now
    <2> QED BY <2>3, <2>4
  <1>9. ASSUME NEW a \in Runs,
               HasReceived(run, a, <<>>, x.rest, m, x.written, x.closing),
               a.record[1] = "close", a.yields = "none",
               HasSent(a, r, "send", RecordBytes("close", 0), <<>>)
        PROVE  /\ ~R.done => Halfway(e, n, o, x)
               /\ R.done => ReadResult(me, R, x)
    <2>1. /\ a.out = me.out /\ a.peerGone = me.peerGone
          /\ a.reset = me.reset /\ a.record \in Bytes
      BY <1>2, <1>9 DEF HasReceived
    <2>2. OutKept(x, a.out, RecordBytes("close", 0), me.written, TRUE)
      BY <1>1, <1>6, <2>1, CloseToSend
    <2>3. a.peerGone => ~x.heard
      BY <1>1, <2>1 DEF Base
    <2>4. SentKept(x, a, r, "send", <<>>, me.written, TRUE)
      BY <1>9, <2>2, <2>3, SentKeeps
    <2>5. /\ R.done = (r.yields = NoResult) /\ R.record = r.record
          /\ R.done => Ended(me, n, r, x)
          /\ ~R.done => IF r.yields = "socket" THEN Broken(n, x)
                        ELSE Waiting(me, n, r, o, x)
      <3>1. /\ r \in Runs /\ Len(r.out) <= WireCapacity
            /\ r.yields # "abrupt" /\ (r.yields = "socket" => me.reset)
        BY <1>9, <2>1, <2>4 DEF SentKept
      <3> HIDE DEF r, R
      <3> QED BY <1>0, <1>1, <3>1, RunningResult DEF r, R
    <2> HIDE DEF r, R
    <2>6. r.record = a.record
      BY <2>4 DEF SentKept
    <2>7. ASSUME R.done
          PROVE  ReadResult(me, R, x)
      <3>1. Ended(me, n, r, x) /\ OutKept(x, r.out, <<>>, me.written, TRUE)
        BY <2>4, <2>5, <2>7 DEF SentKept, NoResult
      <3>2. Quiet(n, x, TRUE, m)
        BY <3>1 DEF Ended, Kept, Quiet
      <3> QED BY <1>9, <2>1, <2>5, <2>6, <3>1, <3>2 DEF ReadResult, Ended
    <2>8. ASSUME ~R.done
          PROVE  Halfway(e, n, o, x)
      <3>0. CASE r.yields = "socket"
        BY <2>5, <2>8, <3>0 DEF Halfway
      <3> SUFFICES ASSUME r.yields # "socket"
                   PROVE  Loaded(e, n, o, x) /\ n.result # NoResult
        BY <3>0 DEF Halfway
      <3>1. Waiting(me, n, r, o, x) /\ r.yields # NoResult
        BY <2>5, <2>8
      <3>2. PICK y \in Parts : /\ r.steps = <<Sent(y)>> \o <<>>
                               /\ OutKept(x, r.out, y, me.written, TRUE)
        BY <1>9, <2>4, <3>1 DEF SentKept, NoResult
      <3>3. r.steps = <<Sent(y)>>
        BY <3>2, ToSendIs, FirstOfSteps
      <3> DEFINE now == n.op[o].steps
      <3>4. /\ now = <<Sent(y)>> /\ n.op[o].record[1] = "close"
            /\ n.out = r.out /\ n.written = me.written
            /\ Base(n, x) /\ OnlyOn(n, o) /\ n.result # NoResult
            /\ n.started = me.started /\ n.open = me.open
            /\ n.connected = me.connected
        BY <1>9, <2>6, <3>1, <3>3 DEF Waiting, Kept
      <3> HIDE DEF n
      <3>5. /\ ToSend(now) = y /\ OnlySends(now)
            /\ ClosingBy(o, now) = TRUE
        BY <1>0, <3>4, ToSendIs DEF ClosingBy
      <3> HIDE DEF now
      <3>6. Working(e, n, o)
        <4>1. Fits(e, o, now, n.op[o].record)
          BY <1>0, <3>4, <3>5 DEF Fits
        <4> QED BY <1>1, <3>4, <4>1 DEF Working, now
      <3>7. OutKept(x, n.out, ToSend(now), n.written, ClosingBy(o, now))
        BY <3>2, <3>4, <3>5
      <3>8. Silent(n, ToSend(now))
        BY <1>1, <3>4 DEF Silent
      <3> QED BY <3>4, <3>5, <3>6, <3>7, <3>8 DEF Loaded, now
    <2> QED BY <2>7, <2>8
  <1> HIDE DEF R, r, run, n
  <1>10. /\ ~R.done => Halfway(e, n, o, x)
         /\ R.done => ReadResult(me, R, x)
    BY <1>7, <1>8, <1>9 DEF ReaderRan
  <1> QED BY <1>10 DEF R, n, o

\* What a handshake has to do with a record that comes first.
LEMMA HelloIs ==
    ASSUME NEW r, Starts(-1, r)
    PROVE  r[1] = "hello" /\ No(r) = 0
  BY DEF Starts, No

LEMMA Behind ==
    ASSUME NEW s, NEW m, NEW w, NEW c, Stream(s, m, w, c)
    PROVE  Stream(<<>> \o s, m, w, c)
  <1>1. s \in Seq(Bytes)
    BY DEF Stream
  <1>2. <<>> \o s = s
    BY <1>1, Concat
  <1> QED BY <1>2

\* The client has sent its hello and next() has gone on to read.
LEMMA ClientReads ==
    ASSUME NEW e \in Ends, e = Client, NEW me, NEW x, NEW a,
           Base(me, x), Working(e, me, "handshaker"),
           OutKept(x, a.out, <<>>, me.written, FALSE),
           Len(a.out) <= WireCapacity, a.yields = "none",
           a.reset = me.reset,
           HasReceived(a, RunAfter(me, "handshaker"), <<>>, x.rest, -1,
                       x.written, x.closing)
    PROVE  Carried(e, me, Running(me, "handshaker"), "handshaker", x, FALSE, 0)
  <1> DEFINE o == "handshaker"
             r == RunAfter(me, o)
             R == Running(me, o)
             n == R.me
  <1>0. o \in Operations /\ o = "handshaker"
    BY DEF Operations
  <1> HIDE DEF o
  <1>1. OnlyOn(me, o) /\ me.started /\ me.open /\ ~me.connected
    BY <1>0 DEF Working
  <1>2. /\ r \in Runs /\ r.out = a.out /\ Len(r.out) <= WireCapacity
        /\ r.yields # "abrupt" /\ (r.yields = "socket" => me.reset)
    BY <1>0 DEF HasReceived
  <1>3. /\ R.done = (r.yields = NoResult) /\ R.record = r.record
        /\ R.done => Ended(me, n, r, x)
        /\ ~R.done => IF r.yields = "socket" THEN Broken(n, x)
                      ELSE Waiting(me, n, r, o, x)
    BY <1>0, <1>1, <1>2, RunningResult
  <1>4. HasReceived(a, r, <<>>, x.rest, -1, x.written, x.closing)
    BY <1>0
  <1> HIDE DEF r, R
  <1>5. ASSUME R.done
        PROVE  Kept(me, n) /\ Quiet(n, x, FALSE, 0)
    <2>1. r.yields = "none" /\ Ended(me, n, r, x)
      BY <1>3, <1>5 DEF NoResult
    <2>2. Starts(-1, r.record)
      BY <1>4, <2>1 DEF HasReceived
    <2>3. r.record[1] = "hello" /\ No(r.record) = 0
      BY <2>2, HelloIs
    <2>4. Stream(r.buffer \o (r.in \o x.rest), 0, x.written, x.closing)
      BY <1>4, <2>1, <2>3 DEF HasReceived
    <2>5. InKept(x, <<>>, n.buffer, n.in, 0)
      BY <2>1, <2>4, Behind DEF InKept, Ended
    <2>6. OutKept(x, n.out, <<>>, n.written, FALSE)
      BY <1>2, <2>1 DEF Ended, Kept
    <2> QED BY <2>1, <2>5, <2>6 DEF Quiet, Ended
  <1>6. ASSUME ~R.done
        PROVE  Halfway(e, n, o, x)
    <2>0. CASE r.yields = "socket"
      BY <1>3, <1>6, <2>0 DEF Halfway
    <2> SUFFICES ASSUME r.yields # "socket"
                 PROVE  Loaded(e, n, o, x) /\ n.result # NoResult
      BY <2>0 DEF Halfway
    <2>1. Waiting(me, n, r, o, x) /\ r.yields # NoResult
      BY <1>3, <1>6
    <2>2. PICK y \in Parts :
             /\ r.steps = <<Had(y)>> \o <<>>
             /\ Stream(y \o (r.buffer \o (r.in \o x.rest)), -1, x.written,
                       x.closing)
      BY <1>4, <2>1 DEF HasReceived, NoResult
    <2>3. r.steps = <<Had(y)>>
      BY <2>2, ToReadIs, FirstOfSteps
    <2> DEFINE now == n.op[o].steps
    <2>4. /\ now = <<Had(y)>> /\ n.out = a.out
          /\ n.in = r.in /\ n.buffer = r.buffer
          /\ n.written = me.written
          /\ Base(n, x) /\ OnlyOn(n, o) /\ n.result # NoResult
          /\ n.started = me.started /\ n.open = me.open
          /\ n.connected = me.connected
      BY <1>2, <2>1, <2>3 DEF Waiting, Kept
    <2> HIDE DEF n
    <2>5. /\ ToSend(now) = <<>> /\ HasCome(now) = y /\ OnlyReads(now)
          /\ LastBy(o, now, Len(n.received)) = -1
          /\ ClosingBy(o, now) = FALSE
      BY <1>0, <2>4, ToReadIs DEF LastBy, ClosingBy
    <2> HIDE DEF now
    <2>6. Working(e, n, o)
      <3>1. Fits(e, o, now, n.op[o].record)
        BY <1>0, <2>5 DEF Fits
      <3> QED BY <1>0, <1>1, <2>4, <3>1 DEF Working, now, Base, Local, Machines
    <2>7. OutKept(x, n.out, ToSend(now), n.written, ClosingBy(o, now))
      BY <2>4, <2>5
    <2>8. ~ClosingBy(o, now) =>
             InKept(x, HasCome(now), n.buffer, n.in,
                    LastBy(o, now, Len(n.received)))
      BY <2>2, <2>4, <2>5 DEF InKept
    <2>9. Silent(n, ToSend(now))
      BY <2>5 DEF Silent
    <2> QED BY <2>4, <2>6, <2>7, <2>8, <2>9 DEF Loaded, now
  <1>7. Carried(e, me, R, o, x, FALSE, 0)
    BY <1>5, <1>6 DEF Carried
  <1> QED BY <1>7 DEF R, o

LEMMA HandshakerRuns ==
    ASSUME NEW e \in Ends, NEW me, NEW x, Loaded(e, me, "handshaker", x)
    PROVE  Carried(e, me, Running(me, "handshaker"), "handshaker", x, FALSE, 0)
  <1> DEFINE o == "handshaker"
             steps == me.op[o].steps
             b == steps[1].bytes
             run == RunOf(me, o)
             r == RunAfter(me, o)
             R == Running(me, o)
             n == R.me
  <1>0. o \in Operations /\ o = "handshaker"
    BY DEF Operations
  <1> HIDE DEF o
  <1>1. /\ Base(me, x) /\ Working(e, me, o) /\ OnlyOn(me, o)
        /\ OutKept(x, me.out, ToSend(steps), me.written,
                   ClosingBy(o, steps))
        /\ ~ClosingBy(o, steps) =>
              InKept(x, HasCome(steps), me.buffer, me.in,
                     LastBy(o, steps, Len(me.received)))
        /\ me.started /\ me.open /\ ~me.connected /\ x \in Contexts
        /\ Silent(me, ToSend(steps)) /\ RecordLength <= WireCapacity
    BY <1>0 DEF Loaded, Working, Base
  <1>2. /\ run \in Runs /\ Len(run.out) <= WireCapacity
        /\ run.steps = steps /\ run.out = me.out
        /\ run.in = me.in /\ run.buffer = me.buffer
        /\ run.peerGone = me.peerGone /\ run.reset = me.reset
        /\ run.ended = me.ended
        /\ run.record = me.op[o].record /\ run.yields = "none"
        /\ steps \in Seq(StepsToDo)
    BY <1>0, <1>1, RunOfIs
  <1> HIDE DEF run
  <1>3. /\ ClosingBy(o, steps) = FALSE /\ Len(me.received) = 0
        /\ x.rest \in Seq(Bytes) /\ (run.ended => x.rest = <<>> /\ x.closing)
        /\ me.peerGone => ~x.heard
    <2>1. ClosingBy(o, steps) = FALSE
      BY <1>0 DEF ClosingBy
    <2>2. Len(me.received) = 0
      BY <1>1 DEF Base, Local
    <2> QED BY <1>1, <1>2, <2>1, <2>2 DEF Base, Contexts
  <1>4. /\ OutKept(x, me.out, ToSend(steps), me.written, FALSE)
        /\ InKept(x, HasCome(steps), me.buffer, me.in, LastBy(o, steps, 0))
    BY <1>1, <1>3
  <1>6. ASSUME OnlyReads(steps), e = Client
        PROVE  Carried(e, me, R, o, x, FALSE, 0)
    <2>1. b \in Parts /\ steps = <<Had(b)>>
      <3>1. steps = <<Had(b)>> /\ Len(<<Had(b)>>) = 1
        BY <1>6 DEF OnlyReads
      <3>2. steps[1] \in StepsToDo
        BY <1>2, <3>1
      <3> QED BY <3>1, <3>2 DEF StepsToDo
    <2> HIDE DEF b
    <2>2. /\ ToSend(steps) = <<>> /\ HasCome(steps) = b
          /\ LastBy(o, steps, 0) = -1
      BY <1>0, <2>1, ToReadIs DEF LastBy
    <2>3. Has(run, Had(b), <<>>)
      BY <1>2, <2>1, ToReadIs, FirstOfSteps DEF Has
    <2>4. Stream(b \o (run.buffer \o (run.in \o x.rest)), -1, x.written,
                 x.closing)
      BY <1>2, <1>4, <2>2 DEF InKept
    <2>5. ReaderRan(run, r, x.rest, -1, x.written, x.closing)
      <3>1. run.yields = "none"
        BY <1>2
      <3> QED BY <1>3, <2>1, <2>3, <2>4, <3>1, ReadRun DEF RunAfter, run
    <2>6. ASSUME NEW a,
                 HasReceived(run, a, <<>>, x.rest, -1, x.written, x.closing),
                 a.record[1] = "close", a.yields = "none"
          PROVE  FALSE
      BY <2>6, HelloIs DEF HasReceived
    <2>7. HasReceived(run, r, <<>>, x.rest, -1, x.written, x.closing)
      BY <2>5, <2>6 DEF ReaderRan
    <2>8. /\ OutKept(x, run.out, <<>>, me.written, FALSE)
          /\ run.yields = "none" /\ run.reset = me.reset
      BY <1>2, <1>4, <2>2
    <2> QED BY <1>0, <1>1, <1>2, <1>6, <2>7, <2>8, ClientReads
  <1>7. ASSUME FlushesThenReads(steps), e = Client
        PROVE  Carried(e, me, R, o, x, FALSE, 0)
    <2> DEFINE z == RecordBytes("hello", 1)
               hello == Flushes("hello", 1)
    <2>1. /\ ToSend(steps) = z /\ HasCome(steps) = <<>>
          /\ Len(steps) = 2 /\ hello = Flushed(z) /\ z \in Parts
          /\ hello \in StepsToDo /\ Reads \in StepsToDo
          /\ steps = <<hello, Reads>>
      BY <1>7, ToFlushAndReadIs DEF FlushesThenReads
    <2>2. LastBy(o, steps, 0) = -1
      BY <1>0, <2>1 DEF LastBy
    <2>3. Has(run, Flushed(z), <<Reads>>)
      <3> HIDE DEF hello
      <3> QED BY <1>2, <2>1, FirstOfSteps DEF Has
    <2>4. Stream(<<>> \o (run.buffer \o (run.in \o x.rest)), -1, x.written,
                 x.closing)
      BY <1>2, <1>4, <2>1, <2>2 DEF InKept
    <2>5. ClientRan(run, r, z, x.rest, x.written, x.closing)
      <3>1. run.yields = "none"
        BY <1>2
      <3> HIDE DEF z
      <3> QED BY <1>3, <2>1, <2>3, <2>4, <3>1, ClientRun DEF RunAfter, run
    <2>6. /\ OutKept(x, run.out, z, me.written, FALSE)
          /\ run.peerGone => ~x.heard
          /\ ~(Len(run.out) + Len(z) > WireCapacity)
      <3>1. Len(z) = RecordLength
        BY RecordElements
      <3>2. z # <<>>
        BY <3>1, SizesAssumption
      <3>3. run.out = <<>>
        BY <1>1, <1>2, <2>1, <3>2 DEF Silent
      <3> HIDE DEF z, steps
      <3>4. ~(Len(run.out) + Len(z) > WireCapacity)
        BY <1>1, <3>1, <3>3, SizesAssumption
      <3>5. OutKept(x, run.out, z, me.written, FALSE)
        BY <1>2, <1>4, <2>1
      <3> QED BY <1>2, <1>3, <3>4, <3>5
    <2> HIDE DEF z
    <2>7. ASSUME NEW a, HasSent(run, a, "flush", z, <<Reads>>)
          PROVE  SentKept(x, run, a, "flush", <<Reads>>, me.written, FALSE)
      BY <2>6, <2>7, SentKeeps
    <2>8. ASSUME r.yields = "socket", HasSent(run, r, "flush", z, <<Reads>>)
          PROVE  Carried(e, me, R, o, x, FALSE, 0)
      <3>1. SentKept(x, run, r, "flush", <<Reads>>, me.written, FALSE)
        BY <2>7, <2>8
      <3>2. r \in Runs /\ Len(r.out) <= WireCapacity /\ me.reset
        BY <1>2, <2>8, <3>1 DEF SentKept
      <3> HIDE DEF r, R
      <3>3. ~R.done /\ Broken(n, x)
        BY <1>0, <1>1, <2>8, <3>2, RunningResult DEF NoResult, r, R
      <3> QED BY <3>3 DEF Carried, Halfway
    <2>9. ASSUME NEW a \in Runs, HasSent(run, a, "flush", z, <<Reads>>),
                 a.steps = <<Reads>>, a.yields = "none",
                 HasReceived(a, r, <<>>, x.rest, -1, x.written, x.closing)
          PROVE  Carried(e, me, R, o, x, FALSE, 0)
      <3>1. SentKept(x, run, a, "flush", <<Reads>>, me.written, FALSE)
        BY <2>7, <2>9
      <3>2. /\ OutKept(x, a.out, <<>>, me.written, FALSE)
            /\ Len(a.out) <= WireCapacity /\ a.reset = me.reset
        BY <1>2, <2>9, <3>1 DEF SentKept
      <3> QED BY <1>0, <1>1, <1>7, <2>9, <3>2, ClientReads
    <2> HIDE DEF r, R
    <2> QED BY <2>5, <2>8, <2>9 DEF ClientRan
  <1>8. ASSUME ReadsThenFlushes(steps), e # Client
        PROVE  Carried(e, me, R, o, x, FALSE, 0)
    <2> DEFINE z == RecordBytes("hello", 2)
               hello == Flushes("hello", 2)
    <2>0. hello \in StepsToDo /\ hello = Flushed(z) /\ z \in Parts
          /\ <<>> \in Parts
      <3>1. <<>> \in Parts
        BY SizesAssumption DEF Parts
      <3> QED BY <3>1, ToReadAndFlushIs
    <2>1. b \in Parts /\ steps = <<Had(b), hello>>
      <3>1. steps = <<Had(b), hello>> /\ Len(<<Had(b), hello>>) = 2
        BY <1>8 DEF ReadsThenFlushes
      <3>2. steps[1] \in StepsToDo
        BY <1>2, <3>1
      <3> QED BY <3>1, <3>2 DEF StepsToDo
    <2> HIDE DEF b
    <2>2. /\ ToSend(steps) = z /\ HasCome(steps) = b
          /\ LastBy(o, steps, 0) = -1
      BY <1>0, <2>1, ToReadAndFlushIs DEF LastBy
    <2>9. ~(Len(me.out) + Len(z) > WireCapacity)
      <3>1. Len(z) = RecordLength
        BY RecordElements
      <3>2. z # <<>>
        BY <3>1, SizesAssumption
      <3>3. me.out = <<>>
        BY <1>1, <2>2, <3>2 DEF Silent
      <3> HIDE DEF z
      <3> QED BY <1>1, <3>1, <3>3, SizesAssumption
    <2> HIDE DEF z
    <2>3. Has(run, Had(b), <<hello>>)
      <3> HIDE DEF hello
      <3> QED BY <1>2, <2>0, <2>1, ToReadIs, FirstOfSteps DEF Has
    <2>4. Stream(b \o (run.buffer \o (run.in \o x.rest)), -1, x.written,
                 x.closing)
      BY <1>2, <1>4, <2>2 DEF InKept
    <2>5. ServerRan(run, r, x.rest, x.written, x.closing)
      <3>1. run.yields = "none"
        BY <1>2
      <3> QED BY <1>3, <2>1, <2>3, <2>4, <3>1, ServerRun DEF RunAfter, run
    <2>6. /\ OutKept(x, me.out, z, me.written, FALSE)
          /\ me.peerGone => ~x.heard
      BY <1>3, <1>4, <2>2
    <2>7. ASSUME r.yields # "none",
                 HasReceived(run, r, <<hello>>, x.rest, -1, x.written,
                             x.closing)
          PROVE  Carried(e, me, R, o, x, FALSE, 0)
      <3>0. /\ r \in Runs /\ r.out = me.out /\ Len(r.out) <= WireCapacity
            /\ r.yields # "abrupt" /\ (r.yields = "socket" => me.reset)
        BY <1>2, <2>7 DEF HasReceived
      <3>1. /\ R.done = (r.yields = NoResult)
            /\ ~R.done => IF r.yields = "socket" THEN Broken(n, x)
                          ELSE Waiting(me, n, r, o, x)
        BY <1>0, <1>1, <3>0, RunningResult
      <3> HIDE DEF r, R
      <3>11. CASE r.yields = "socket"
        BY <2>7, <3>1, <3>11 DEF Carried, Halfway, NoResult
      <3> SUFFICES ASSUME r.yields # "socket"
                   PROVE  Carried(e, me, R, o, x, FALSE, 0)
        BY <3>11
      <3>2. ~R.done /\ Waiting(me, n, r, o, x)
        BY <2>7, <3>1 DEF NoResult
      <3>3. PICK y \in Parts :
               /\ r.steps = <<Had(y)>> \o <<hello>>
               /\ Stream(y \o (r.buffer \o (r.in \o x.rest)), -1, x.written,
                         x.closing)
        BY <1>2, <2>7 DEF HasReceived
      <3>4. r.steps = <<Had(y), hello>>
        <4> HIDE DEF hello
        <4> QED BY <2>0, <3>3, ToReadIs, FirstOfSteps
      <3> DEFINE now == n.op[o].steps
      <3>5. /\ now = <<Had(y), hello>> /\ n.out = me.out
            /\ n.in = r.in /\ n.buffer = r.buffer
            /\ n.written = me.written
            /\ Base(n, x) /\ OnlyOn(n, o) /\ n.result # NoResult
            /\ n.started = me.started /\ n.open = me.open
            /\ n.connected = me.connected
        BY <3>0, <3>2, <3>4 DEF Waiting, Kept
      <3> HIDE DEF n
      <3>6. /\ ToSend(now) = z /\ HasCome(now) = y /\ ReadsThenFlushes(now)
            /\ LastBy(o, now, Len(n.received)) = -1
            /\ ClosingBy(o, now) = FALSE
        BY <1>0, <3>5, ToReadAndFlushIs DEF LastBy, ClosingBy, z
      <3> HIDE DEF now
      <3>7. Working(e, n, o)
        <4>1. Fits(e, o, now, n.op[o].record)
          BY <1>0, <1>8, <3>6 DEF Fits
        <4> QED BY <1>0, <1>1, <3>5, <4>1
                DEF Working, now, Base, Local, Machines
      <3>8. OutKept(x, n.out, ToSend(now), n.written, ClosingBy(o, now))
        BY <2>6, <3>5, <3>6
      <3>9. InKept(x, HasCome(now), n.buffer, n.in,
                   LastBy(o, now, Len(n.received)))
        BY <3>3, <3>5, <3>6 DEF InKept
      <3>12. Silent(n, ToSend(now))
        BY <1>1, <2>2, <3>5, <3>6 DEF Silent
      <3>10. Loaded(e, n, o, x)
        BY <3>5, <3>7, <3>8, <3>9, <3>12 DEF Loaded, now
      <3> QED BY <3>2, <3>5, <3>10 DEF Carried, Halfway, n
    <2>8. ASSUME NEW a \in Runs,
                 HasReceived(run, a, <<hello>>, x.rest, -1, x.written,
                             x.closing),
                 a.record[1] # "close", a.yields = "none",
                 HasSent(a, r, "flush", z, <<>>)
          PROVE  Carried(e, me, R, o, x, FALSE, 0)
      <3>1. /\ a.out = me.out /\ a.peerGone = me.peerGone
            /\ a.reset = me.reset
        BY <1>2, <2>8 DEF HasReceived
      <3>2. Starts(-1, a.record)
        BY <2>8 DEF HasReceived
      <3>3. InKept(x, <<>>, a.buffer, a.in, 0)
        <4>1. Stream(a.buffer \o (a.in \o x.rest), No(a.record), x.written,
                     x.closing)
          BY <2>8 DEF HasReceived
        <4>2. No(a.record) = 0
          BY <3>2, HelloIs
        <4>3. Stream(a.buffer \o (a.in \o x.rest), 0, x.written, x.closing)
          BY <4>1, <4>2
        <4> QED BY <4>3, Behind DEF InKept
      <3>4. SentKept(x, a, r, "flush", <<>>, me.written, FALSE)
        BY <2>6, <2>8, <2>9, <3>1, SentKeeps
      <3>5. /\ R.done = (r.yields = NoResult)
            /\ R.done => Ended(me, n, r, x)
            /\ ~R.done => Broken(n, x)
        <4>1. /\ r \in Runs /\ Len(r.out) <= WireCapacity
              /\ r.yields \in {"none", "socket"}
              /\ r.yields = "socket" => me.reset
          BY <2>8, <3>1, <3>4 DEF SentKept
        <4> HIDE DEF r, R
        <4> QED BY <1>0, <1>1, <4>1, RunningResult DEF NoResult, r, R
      <3> HIDE DEF r, R
      <3>6. r.in = a.in /\ r.buffer = a.buffer
        BY <3>4 DEF SentKept
      <3>7. ASSUME R.done
            PROVE  Kept(me, n) /\ Quiet(n, x, FALSE, 0)
        <4>1. Ended(me, n, r, x) /\ OutKept(x, r.out, <<>>, me.written, FALSE)
          BY <3>4, <3>5, <3>7 DEF SentKept, NoResult
        <4> QED BY <3>3, <3>6, <4>1 DEF Ended, Kept, Quiet
      <3> QED BY <3>5, <3>7 DEF Carried, Halfway, n
    <2> HIDE DEF r, R
    <2> QED BY <2>5, <2>7, <2>8 DEF ServerRan, z
  <1>9. \/ e = Client /\ (FlushesThenReads(steps) \/ OnlyReads(steps))
        \/ e # Client /\ ReadsThenFlushes(steps)
    <2>1. Fits(e, o, steps, me.op[o].record)
      BY <1>1 DEF Working
    <2> HIDE DEF steps
    <2> QED BY <1>0, <2>1 DEF Fits
  <1> HIDE DEF R, steps
  <1>10. Carried(e, me, R, o, x, FALSE, 0)
    BY <1>6, <1>7, <1>8, <1>9
  <1> QED BY <1>10 DEF R, o

-----------------------------------------------------------------------------
(***************************************************************************)
(* The state machine's methods.                                            *)
(***************************************************************************)

\* No operation is on, before the handshake or after it.
Resting(e, me, x) ==
    /\ Base(me, x) /\ AllOff(me) /\ me.result = NoResult
    /\ me.open => me.connected = me.started
    /\ OutKept(x, me.out, IF me.started THEN <<>> ELSE Hello(e), me.written,
               me.closed)
    /\ Silent(me, IF me.started THEN <<>> ELSE Hello(e))
    /\ ~me.closed =>
           InKept(x, <<>>, me.buffer, me.in,
                  IF me.connected THEN Len(me.received) ELSE -1)

Going(e, me, x) ==
    IF me.result = NoResult THEN Resting(e, me, x)
                            ELSE \E o \in Operations : Loaded(e, me, o, x)

Goes(e, me, x) == Going(e, me, x) /\ me.started

LEMMA QuietRests ==
    ASSUME NEW e, NEW me, NEW x, Quiet(me, x, me.closed, Len(me.received)),
           me.connected, me.started
    PROVE  Resting(e, me, x) /\ Goes(e, me, x)
  <1>1. me.connected = TRUE /\ me.started = TRUE
    BY DEF Quiet, Base, Local, Machines
  <1> QED BY <1>1 DEF Quiet, Resting, Going, Goes, Silent

LEMMA RestsQuiet ==
    ASSUME NEW e, NEW me, NEW x, Resting(e, me, x), me.started,
           me.open
    PROVE  /\ Quiet(me, x, me.closed, Len(me.received))
           /\ me.connected
  BY DEF Quiet, Resting

LEMMA LoadedGoes ==
    ASSUME NEW e, NEW me, NEW x, NEW o \in Operations, Loaded(e, me, o, x),
           me.result # NoResult
    PROVE  Goes(e, me, x)
  BY DEF Goes, Going, Loaded, Working

LEMMA BrokenGoes ==
    ASSUME NEW e, NEW me, NEW x, Broken(me, x)
    PROVE  Goes(e, me, x)
  BY DEF Broken, Goes, Going, Resting, OutKept, Silent

LEMMA HalfwayGoes ==
    ASSUME NEW e, NEW me, NEW x, NEW o \in Operations, Halfway(e, me, o, x)
    PROVE  Goes(e, me, x)
  BY LoadedGoes, BrokenGoes DEF Halfway

LEMMA SoundIs ==
    ASSUME NEW me
    PROVE  /\ AllOff(me) /\ me.result = NoResult => Sound(me, 0) /\ Sound(me, 1)
           /\ \A o \in Operations :
                 OnlyOn(me, o) /\ me.result # NoResult => Sound(me, 1)
  <1> DEFINE S == {o \in Operations : me.op[o].on}
  <1>1. Sound(me, 0) <=> /\ Cardinality(S) = IF me.result = NoResult THEN 0
                                                                      ELSE 1
                         /\ Cardinality(S) <= 0
    BY DEF Sound
  <1>2. Sound(me, 1) <=> /\ Cardinality(S) = IF me.result = NoResult THEN 0
                                                                      ELSE 1
                         /\ Cardinality(S) <= 1
    BY DEF Sound
  <1>3. AllOff(me) => S = {}
    BY NoOpIs DEF AllOff
  <1>4. ASSUME NEW o \in Operations, OnlyOn(me, o)
        PROVE  S = {o}
    BY <1>4, NoOpIs DEF OnlyOn
  <1> HIDE DEF S
  <1>5. S = {} => Cardinality(S) = 0
    BY FS_EmptySet
  <1>6. \A o \in Operations : S = {o} => Cardinality(S) = 1
    BY FS_Singleton
  <1> QED BY <1>1, <1>2, <1>3, <1>4, <1>5, <1>6

LEMMA DoHandshake ==
    ASSUME NEW e \in Ends, NEW me, NEW x, Loaded(e, me, "handshaker", x)
    PROVE  Goes(e, _doHandshakeOp(me), x)
  <1> DEFINE R == Running(me, "handshaker")
             n == R.me
  <1>1. Carried(e, me, R, "handshaker", x, FALSE, 0)
    BY HandshakerRuns
  <1>2. _doHandshakeOp(me) = IF R.done THEN [n EXCEPT !.connected = TRUE] ELSE n
    BY DEF _doHandshakeOp
  <1>3. /\ "handshaker" \in Operations
        /\ Base(me, x) /\ Working(e, me, "handshaker")
    BY DEF Operations, Loaded
  <1> HIDE DEF R
  <1>4. CASE ~R.done
    <2>1. Halfway(e, n, "handshaker", x)
      BY <1>1, <1>4 DEF Carried
    <2> QED BY <1>2, <1>3, <1>4, <2>1, HalfwayGoes
  <1>5. CASE R.done
    <2>1. Kept(me, n) /\ Quiet(n, x, FALSE, 0)
      BY <1>1, <1>5 DEF Carried
    <2>2. me.started /\ me.open /\ ~me.connected
      BY <1>3 DEF Working
    <2>3. /\ n.started /\ n.open /\ ~n.closed /\ n \in Machines
          /\ n.received = <<>> /\ n.written = 0 /\ Base(n, x)
      BY <2>1, <2>2 DEF Kept, Quiet, Base, Local
    <2> HIDE DEF n
    <2>4. PICK t : t = [n EXCEPT !.connected = TRUE]
      OBVIOUS
    <2>5. /\ t \in Machines /\ t.connected /\ t.started = n.started
          /\ t.closed = n.closed /\ t.open = n.open /\ t.raised = n.raised
          /\ t.received = n.received /\ t.written = n.written
          /\ t.out = n.out /\ t.in = n.in /\ t.buffer = n.buffer
          /\ t.op = n.op /\ t.result = n.result
          /\ t.peerGone = n.peerGone /\ t.reset = n.reset
          /\ t.ended = n.ended
      BY <2>3, <2>4 DEF Machines
    <2>6. Base(t, x)
      BY <2>3, <2>5 DEF Base, Local
    <2>7. Len(t.received) = 0 /\ t.closed = FALSE
      BY <2>3, <2>5 DEF Machines
    <2>8. Quiet(t, x, t.closed, Len(t.received))
      BY <2>1, <2>5, <2>6, <2>7 DEF Quiet, AllOff
    <2>9. Goes(e, t, x)
      BY <2>3, <2>5, <2>8, QuietRests
    <2> QED BY <1>2, <1>5, <2>4, <2>9
  <1> QED BY <1>4, <1>5

LEMMA DoWrite ==
    ASSUME NEW e \in Ends, NEW me, NEW x, Loaded(e, me, "writer", x)
    PROVE  Goes(e, _doWriteOp(me), x)
  <1> DEFINE o == "writer"
             R == Running(me, o)
             n == R.me
  <1>0. o \in Operations /\ o = "writer"
    BY DEF Operations
  <1> HIDE DEF o
  <1>1. /\ Base(me, x) /\ Working(e, me, o) /\ OnlySends(me.op[o].steps)
        /\ ClosingBy(o, me.op[o].steps) = FALSE
    BY <1>0 DEF Loaded, Working, Fits, ClosingBy
  <1>2. Carried(e, me, R, o, x, FALSE, Len(me.received))
    BY <1>0, <1>1, SenderRuns
  <1>3. _doWriteOp(me) = n
    BY <1>0 DEF _doWriteOp
  <1> HIDE DEF R
  <1>4. CASE ~R.done
    <2>1. Halfway(e, n, o, x)
      BY <1>2, <1>4 DEF Carried
    <2> QED BY <1>0, <1>3, <2>1, HalfwayGoes
  <1>5. CASE R.done
    <2>1. Kept(me, n) /\ Quiet(n, x, FALSE, Len(me.received))
      BY <1>2, <1>5 DEF Carried
    <2>2. me.started /\ me.open /\ me.connected
      BY <1>0, <1>1 DEF Working
    <2>3. n.started /\ n.closed = FALSE /\ n.connected
          /\ n.received = me.received
      BY <2>1, <2>2 DEF Kept, Quiet, Base, Local, Machines
    <2> QED BY <1>3, <2>1, <2>3, QuietRests
  <1> QED BY <1>4, <1>5

LEMMA DoClose ==
    ASSUME NEW e \in Ends, NEW me, NEW x, Loaded(e, me, "closer", x)
    PROVE  Goes(e, _doCloseOp(me), x)
  <1> DEFINE o == "closer"
             R == Running(me, o)
             n == R.me
  <1>0. o \in Operations /\ o = "closer"
    BY DEF Operations
  <1> HIDE DEF o
  <1>1. /\ Base(me, x) /\ Working(e, me, o) /\ OnlySends(me.op[o].steps)
        /\ ClosingBy(o, me.op[o].steps) = TRUE
    BY <1>0 DEF Loaded, Working, Fits, ClosingBy
  <1>2. Carried(e, me, R, o, x, TRUE, Len(me.received))
    BY <1>0, <1>1, SenderRuns
  <1>3. _doCloseOp(me) = IF R.done
                         THEN [n EXCEPT !.closed = TRUE, !.open = FALSE]
                                   ELSE n
    BY <1>0 DEF _doCloseOp
  <1> HIDE DEF R
  <1>4. CASE ~R.done
    <2>1. Halfway(e, n, o, x)
      BY <1>2, <1>4 DEF Carried
    <2> QED BY <1>0, <1>3, <1>4, <2>1, HalfwayGoes
  <1>5. CASE R.done
    <2>1. Kept(me, n) /\ Quiet(n, x, TRUE, Len(me.received))
      BY <1>2, <1>5 DEF Carried
    <2>2. me.started /\ me.open /\ me.connected
      BY <1>0, <1>1 DEF Working
    <2>3. n.started /\ n.connected /\ n \in Machines /\ Base(n, x)
      BY <2>1, <2>2 DEF Kept, Quiet, Base, Local
    <2> HIDE DEF n
    <2>4. PICK t : t = [n EXCEPT !.closed = TRUE, !.open = FALSE]
      OBVIOUS
    <2>5. /\ t \in Machines /\ t.connected = n.connected
          /\ t.started = n.started
          /\ t.closed = TRUE /\ t.open = FALSE /\ t.raised = n.raised
          /\ t.received = n.received /\ t.written = n.written
          /\ t.out = n.out /\ t.in = n.in /\ t.buffer = n.buffer
          /\ t.op = n.op /\ t.result = n.result
          /\ t.peerGone = n.peerGone /\ t.reset = n.reset
          /\ t.ended = n.ended
      BY <2>3, <2>4 DEF Machines
    <2>6. Base(t, x)
      <3>1. Local(n) /\ n.started = TRUE
        BY <2>3 DEF Base, Local, Machines
      <3>2. /\ t.raised \in {"no", "socket"}
            /\ t.raised = "socket" => ~t.open /\ t.peerGone
            /\ t.reset => t.peerGone
        <4>1. /\ n.raised \in {"no", "socket"}
              /\ n.raised = "socket" => n.peerGone
              /\ n.reset => n.peerGone
          BY <3>1 DEF Local
        <4> QED BY <2>5, <4>1, Zenon
      <3>3. /\ t.closed = ~t.open /\ t.started /\ t.connected
        BY <2>3, <2>5
      <3>4. \A i \in 1..Len(t.received) : t.received[i] = i
        <4>1. \A i \in 1..Len(n.received) : n.received[i] = i
          BY <3>1 DEF Local
        <4>2. t.received = n.received
          BY <2>5
        <4> QED BY <4>1, <4>2
      <3>5. Local(t)
        BY <2>5, <3>2, <3>3, <3>4, Zenon DEF Local
      <3> QED BY <2>3, <2>5, <3>5 DEF Base
    <2>8. Quiet(t, x, t.closed, Len(t.received))
      BY <2>1, <2>5, <2>6 DEF Quiet, AllOff
    <2>9. Goes(e, t, x)
      BY <2>3, <2>5, <2>8, QuietRests
    <2> QED BY <1>3, <1>5, <2>4, <2>9
  <1> QED BY <1>4, <1>5

\* An operation is set.
LEMMA OpIs ==
    ASSUME NEW steps \in Seq(StepsToDo)
    PROVE  /\ Op(steps) \in Generators /\ Op(steps).on = TRUE
           /\ Op(steps).steps = steps /\ Op(steps).record = NoRecord
  BY DEF Op, Records, Generators

LEMMA OpSet ==
    ASSUME NEW me \in Machines, NEW o \in Operations, NEW g \in Generators,
           AllOff(me), g.on
    PROVE  LET n == [me EXCEPT !.op[o] = g]
           IN  /\ n \in Machines /\ Kept(me, n) /\ n.op[o] = g /\ OnlyOn(n, o)
               /\ n.out = me.out /\ n.in = me.in /\ n.buffer = me.buffer
               /\ n.result = me.result
  <1> DEFINE n == [me EXCEPT !.op[o] = g]
             ops == [me.op EXCEPT ![o] = g]
  <1>1. /\ ops \in [Operations -> Generators] /\ ops[o] = g
        /\ \A y \in Operations \ {o} : ops[y] = NoOp
    BY DEF Machines, AllOff
  <1>2. n = [me EXCEPT !.op = ops]
    OBVIOUS
  <1> HIDE DEF ops, n
  <1>3. /\ n \in Machines /\ Kept(me, n) /\ n.op = ops
        /\ n.out = me.out /\ n.in = me.in /\ n.buffer = me.buffer
        /\ n.result = me.result
    BY <1>1, <1>2 DEF Machines, Kept
  <1> QED BY <1>1, <1>3 DEF OnlyOn, n

LEMMA RestsOpen ==
    ASSUME NEW e, NEW me, NEW x, Resting(e, me, x), me.started, me.open
    PROVE  /\ Quiet(me, x, me.closed, Len(me.received)) /\ me.connected
           /\ Base(me, x) /\ me \in Machines /\ me.closed = FALSE
           /\ AllOff(me) /\ me.result = NoResult
           /\ x \in Contexts /\ me.out \in Seq(Bytes)
  BY RestsQuiet DEF Resting, Base, Local, Machines

LEMMA SetWrite ==
    ASSUME NEW e \in Ends, NEW me, NEW x, Resting(e, me, x), me.started, me.open
    PROVE  Goes(e, setWriteOp(me), x)
  <1> DEFINE o == "writer"
             w == me.written + 1
             z == RecordBytes("data", w)
             steps == <<Sends("data", w)>>
             g == writeAsync(w)
             n == [me EXCEPT !.op[o] = g]
             t == [me EXCEPT !.op[o] = g, !.written = @ + 1]
  <1>1. /\ Quiet(me, x, me.closed, Len(me.received)) /\ me.connected
        /\ Base(me, x) /\ me \in Machines /\ me.closed = FALSE
        /\ AllOff(me) /\ me.result = NoResult
        /\ me.written \in Nat /\ w \in Nat /\ x \in Contexts
        /\ me.out \in Seq(Bytes)
    <2>1. /\ Quiet(me, x, me.closed, Len(me.received)) /\ me.connected
          /\ Base(me, x) /\ me \in Machines /\ me.closed = FALSE
          /\ AllOff(me) /\ me.result = NoResult
          /\ x \in Contexts /\ me.out \in Seq(Bytes)
      BY RestsOpen
    <2>2. me.written \in Nat
      BY <2>1 DEF Machines
    <2> QED BY <2>1, <2>2
  <1>2. o \in Operations /\ o = "writer" /\ Sound(me, 0)
    BY <1>1, SoundIs DEF Operations
  <1>3. z \in Parts /\ Sends("data", w) = Sent(z) /\ Sent(z) \in StepsToDo
    BY <1>1, RecordElements, SizesAssumption DEF Parts, Sends, Sent, StepsToDo
  <1>4. setWriteOp(me) = _doWriteOp(t)
    BY <1>2 DEF setWriteOp
  <1> HIDE DEF o, z
  <1>5. steps \in Seq(StepsToDo) /\ steps = <<Sent(z)>>
    BY <1>3, FirstOfSteps
  <1> HIDE DEF steps
  <1>6. g \in Generators /\ g.on /\ g.steps = steps
    BY <1>5, OpIs DEF writeAsync, steps
  <1> HIDE DEF g
  <1>7. /\ n \in Machines /\ Kept(me, n) /\ n.op[o] = g /\ OnlyOn(n, o)
        /\ n.out = me.out /\ n.in = me.in /\ n.buffer = me.buffer
    BY <1>1, <1>2, <1>6, OpSet
  <1>8. t = [n EXCEPT !.written = w]
    OBVIOUS
  <1> HIDE DEF n, t, w
  <1>9. /\ t \in Machines /\ t.op = n.op /\ t.written = w
        /\ t.connected = me.connected /\ t.started = me.started
        /\ t.closed = me.closed /\ t.open = me.open /\ t.raised = me.raised
        /\ t.received = me.received
        /\ t.out = me.out /\ t.in = me.in /\ t.buffer = me.buffer
        /\ t.peerGone = me.peerGone /\ t.reset = me.reset
        /\ t.ended = me.ended
    BY <1>1, <1>7, <1>8 DEF Machines, Kept
  <1>10. Base(t, x)
    <2>1. x.reported <= t.written
      BY <1>1, <1>9 DEF Base, Contexts, w
    <2> QED BY <1>1, <1>9, <2>1 DEF Base, Local
  <1>11. t.op[o].steps = <<Sent(z)>> /\ OnlyOn(t, o)
    BY <1>5, <1>6, <1>7, <1>9 DEF OnlyOn
  <1> DEFINE now == t.op[o].steps
  <1>12. /\ OnlySends(now) /\ ToSend(now) = z /\ HasCome(now) = <<>>
         /\ ClosingBy(o, now) = FALSE
         /\ LastBy(o, now, Len(t.received)) = Len(me.received)
    BY <1>2, <1>3, <1>9, <1>11, ToSendIs DEF ClosingBy, LastBy
  <1> HIDE DEF now
  <1>13. Working(e, t, o)
    <2>1. Fits(e, o, now, t.op[o].record)
      BY <1>2, <1>12 DEF Fits
    <2>2. t.connected = TRUE /\ o # "handshaker"
      BY <1>1, <1>2, <1>9 DEF Machines
    <2> QED BY <1>9, <1>11, <2>1, <2>2 DEF Working, now
  <1>14. OutKept(x, t.out, ToSend(now), t.written, ClosingBy(o, now))
    <2>1. OutKept(x, me.out, <<>>, me.written, FALSE)
      BY <1>1 DEF Quiet
    <2>2. OutKept(x, me.out, z, w, FALSE)
      BY <1>1, <2>1, DataToSend DEF z, w
    <2> QED BY <1>9, <1>12, <2>2
  <1>15. InKept(x, HasCome(now), t.buffer, t.in,
                LastBy(o, now, Len(t.received)))
    BY <1>1, <1>9, <1>12 DEF Quiet
  <1>16. Loaded(e, t, o, x)
    <2>1. Silent(t, ToSend(now))
      BY <1>1, <1>9 DEF Silent
    <2> QED BY <1>10, <1>13, <1>14, <1>15, <2>1 DEF Loaded, now
  <1> QED BY <1>2, <1>4, <1>16, DoWrite

\* The application closes.
LEMMA SetClose ==
    ASSUME NEW e \in Ends, NEW me, NEW x, Resting(e, me, x), me.started, me.open
    PROVE  Goes(e, setCloseOp(me), x)
  <1> DEFINE o == "closer"
             z == RecordBytes("close", 0)
             steps == <<Sends("close", 0)>>
             g == closeAsync(me.closed)
             t == [me EXCEPT !.op[o] = g]
  <1>1. /\ Quiet(me, x, me.closed, Len(me.received)) /\ me.connected
        /\ Base(me, x) /\ me \in Machines /\ me.closed = FALSE
        /\ AllOff(me) /\ me.result = NoResult
        /\ x \in Contexts /\ me.out \in Seq(Bytes)
    BY RestsOpen
  <1>2. o \in Operations /\ o = "closer" /\ Sound(me, 0)
    BY <1>1, SoundIs DEF Operations
  <1>3. z \in Parts /\ Sends("close", 0) = Sent(z) /\ Sent(z) \in StepsToDo
    BY RecordElements, SizesAssumption DEF Parts, Sends, Sent, StepsToDo
  <1>4. setCloseOp(me) = _doCloseOp(t)
    BY <1>2 DEF setCloseOp
  <1> HIDE DEF o, z
  <1>5. steps \in Seq(StepsToDo) /\ steps = <<Sent(z)>>
    BY <1>3, FirstOfSteps
  <1> HIDE DEF steps
  <1>6. g \in Generators /\ g.on /\ g.steps = steps
    BY <1>1, <1>5, OpIs DEF closeAsync, steps
  <1> HIDE DEF g
  <1>7. /\ t \in Machines /\ Kept(me, t) /\ t.op[o] = g /\ OnlyOn(t, o)
        /\ t.out = me.out /\ t.in = me.in /\ t.buffer = me.buffer
    BY <1>1, <1>2, <1>6, OpSet
  <1> HIDE DEF t
  <1>8. Base(t, x)
    <2>1. Len(t.out) <= WireCapacity /\ Len(t.in) <= x.room
      BY <1>1, <1>7 DEF Base
    <2> QED BY <1>1, <1>7, <2>1, KeptBase
  <1> DEFINE now == t.op[o].steps
  <1>9. now = <<Sent(z)>>
    BY <1>5, <1>6, <1>7
  <1>10. OnlySends(now) /\ ToSend(now) = z /\ ClosingBy(o, now) = TRUE
    BY <1>2, <1>3, <1>9, ToSendIs DEF ClosingBy
  <1> HIDE DEF now
  <1>11. Working(e, t, o)
    <2>1. Fits(e, o, now, t.op[o].record)
      BY <1>2, <1>10 DEF Fits
    <2>2. t.connected = TRUE /\ o # "handshaker"
      BY <1>1, <1>2, <1>7 DEF Machines, Kept
    <2> QED BY <1>7, <2>1, <2>2 DEF Working, now, Kept
  <1>12. OutKept(x, t.out, ToSend(now), t.written, ClosingBy(o, now))
    <2>1. OutKept(x, me.out, <<>>, me.written, FALSE)
      BY <1>1 DEF Quiet
    <2>2. OutKept(x, me.out, z, me.written, TRUE)
      BY <1>1, <2>1, CloseToSend DEF z
    <2> QED BY <1>7, <1>10, <2>2 DEF Kept
  <1>13. Loaded(e, t, o, x)
    <2>1. Silent(t, ToSend(now))
      BY <1>1, <1>7 DEF Silent, Kept
    <2> QED BY <1>8, <1>10, <1>11, <1>12, <2>1 DEF Loaded, now
  <1> QED BY <1>2, <1>4, <1>13, DoClose

\* The peer's close_notify has been answered and the connection is closed
\* already: the close operation has nothing to do.
LEMMA CloseAnswered ==
    ASSUME NEW e \in Ends, NEW n, NEW x, NEW m, Quiet(n, x, TRUE, m),
           n.connected, n.started, n.open
    PROVE  Goes(e, setCloseOp([n EXCEPT !.closed = TRUE]), x)
  <1> DEFINE o == "closer"
             s == [n EXCEPT !.closed = TRUE]
             g == closeAsync(s.closed)
             t == [s EXCEPT !.op[o] = g]
             run == RunOf(t, o)
             R == Running(t, o)
             u == R.me
             v == [u EXCEPT !.closed = TRUE, !.open = FALSE]
  <1>1. /\ Base(n, x) /\ n \in Machines /\ AllOff(n) /\ n.result = NoResult
        /\ OutKept(x, n.out, <<>>, n.written, TRUE)
        /\ n.connected = TRUE /\ n.started = TRUE
    BY DEF Quiet, Base, Local, Machines
  <1>2. /\ s \in Machines /\ AllOff(s) /\ s.result = NoResult
        /\ s.closed = TRUE /\ s.op = n.op
        /\ s.connected = TRUE /\ s.started = TRUE
        /\ s.raised = n.raised
        /\ s.received = n.received /\ s.written = n.written
        /\ s.out = n.out /\ s.in = n.in /\ s.buffer = n.buffer
        /\ s.peerGone = n.peerGone /\ s.reset = n.reset
        /\ s.ended = n.ended
    BY <1>1 DEF Machines, AllOff
  <1>3. o \in Operations /\ o = "closer" /\ Sound(s, 0)
    BY <1>2, SoundIs DEF Operations
  <1>4. setCloseOp(s) = _doCloseOp(t)
    BY <1>3 DEF setCloseOp
  <1> HIDE DEF s, o
  <1>5. g \in Generators /\ g.on /\ g.steps = <<>>
    BY <1>2, NoSteps, OpIs DEF closeAsync
  <1> HIDE DEF g
  <1>6. /\ t \in Machines /\ Kept(s, t) /\ t.op[o] = g /\ OnlyOn(t, o)
        /\ t.out = s.out /\ t.in = s.in /\ t.buffer = s.buffer
    BY <1>2, <1>3, <1>5, OpSet
  <1> HIDE DEF t
  <1>7. RunAfter(t, o) = run
    <2>1. run.steps = <<>>
      BY <1>5, <1>6 DEF RunOf
    <2> HIDE DEF run
    <2>2. Advance(run) = run
      BY <2>1, Stays
    <2> QED BY <2>2 DEF RunAfter, Resume, run
  <1>8. /\ run \in Runs /\ run.yields = NoResult /\ run.out = t.out
        /\ run.in = t.in /\ run.buffer = t.buffer
    <2>1. t.op[o] \in Generators
      BY <1>3, <1>6 DEF Machines
    <2> QED BY <1>6, <2>1 DEF RunOf, Runs, Machines, Generators, NoResult
  <1>9. Ran(t, R, run, o)
    <2>1. /\ RunAfter(t, o) \in Runs
          /\ RunAfter(t, o).yields \in {"none", "read", "write"}
      BY <1>7, <1>8 DEF NoResult
    <2>2. Ran(t, R, RunAfter(t, o), o)
      BY <1>3, <1>6, <2>1, RunningIs
    <2> QED BY <1>7, <2>2
  <1> HIDE DEF run, R
  <1>10. /\ R.done /\ u \in Machines /\ Kept(t, u) /\ AllOff(u)
         /\ u.result = NoResult
         /\ u.out = t.out /\ u.in = t.in /\ u.buffer = t.buffer
    BY <1>6, <1>8, <1>9 DEF Ran, OnlyOn, AllOff
  <1>11. _doCloseOp(t) = v
    BY <1>3, <1>10 DEF _doCloseOp, R
  <1> HIDE DEF u
  <1>12. /\ v \in Machines /\ v.op = u.op /\ v.result = u.result
         /\ v.closed = TRUE /\ v.open = FALSE
         /\ v.connected = u.connected /\ v.started = u.started
         /\ v.raised = u.raised
         /\ v.received = u.received /\ v.written = u.written
         /\ v.out = u.out /\ v.in = u.in /\ v.buffer = u.buffer
         /\ v.peerGone = u.peerGone /\ v.reset = u.reset
         /\ v.ended = u.ended
    BY <1>10 DEF Machines
  <1> HIDE DEF v
  <1>13. /\ v.connected = TRUE /\ v.started = TRUE /\ v.raised = n.raised
         /\ v.received = n.received /\ v.written = n.written
         /\ v.out = n.out /\ v.in = n.in
         /\ v.peerGone = n.peerGone /\ v.reset = n.reset
         /\ v.ended = n.ended
    BY <1>2, <1>6, <1>10, <1>12 DEF Kept
  <1>14. Base(v, x)
    BY <1>1, <1>12, <1>13 DEF Base, Local
  <1>15. Quiet(v, x, v.closed, Len(v.received))
    BY <1>1, <1>10, <1>12, <1>13, <1>14 DEF Quiet, AllOff
  <1>16. Goes(e, v, x)
    BY <1>13, <1>15, QuietRests
  <1> QED BY <1>4, <1>11, <1>16 DEF s

\* The application is given a record of data, and may answer it.
LEMMA OutRead ==
    ASSUME NEW e \in Ends, NEW n, NEW x, NEW record \in Bytes,
           Quiet(n, x, FALSE, record[2]), record[1] = "data",
           record[2] = Len(n.received) + 1, record[2] <= x.written,
           n.connected, n.started, n.open
    PROVE  Goes(e, outReadEvent(n, record), x)
  <1> DEFINE d == record[2]
             read == [n EXCEPT !.received = Append(@, d)]
             owing == [read EXCEPT !.owes = @ - 1]
  <1>1. /\ Base(n, x) /\ n \in Machines /\ d \in Nat
        /\ n.received \in Seq(Nat) /\ Len(n.received) \in Nat
        /\ \A i \in 1..Len(n.received) : n.received[i] = i
        /\ n.closed = FALSE
    BY AByte DEF Quiet, Base, Local, Machines
  <1> HIDE DEF d
  <1> DEFINE all == Append(n.received, d)
  <1>2. /\ all \in Seq(Nat) /\ Len(all) = Len(n.received) + 1
        /\ \A i \in 1..Len(all) : all[i] = i
    <2>1. d = Len(n.received) + 1
      BY DEF d
    <2> QED BY <1>1, <2>1
  <1>3. read = [n EXCEPT !.received = all]
    OBVIOUS
  <1> HIDE DEF read, all
  <1>4. /\ read \in Machines /\ read.received = all /\ read.op = n.op
        /\ read.result = n.result /\ read.closed = n.closed
        /\ read.open = n.open
        /\ read.connected = n.connected /\ read.started = n.started
        /\ read.raised = n.raised /\ read.written = n.written
        /\ read.out = n.out /\ read.in = n.in /\ read.buffer = n.buffer
        /\ read.peerGone = n.peerGone /\ read.reset = n.reset
        /\ read.ended = n.ended
    BY <1>1, <1>2, <1>3 DEF Machines
  <1>5. Base(read, x) /\ Len(read.received) = d
    <2>1. Len(all) = d /\ Len(all) <= x.written
      BY <1>2 DEF d
    <2> QED BY <1>1, <1>2, <1>4, <2>1 DEF Base, Local
  <1>6. Quiet(read, x, read.closed, Len(read.received))
    BY <1>1, <1>4, <1>5 DEF Quiet, AllOff, d
  <1>7. Resting(e, read, x) /\ Goes(e, read, x)
    BY <1>4, <1>6, QuietRests
  <1>8. outReadEvent(n, record) =
           IF read.app.answers /\ read.owes > 0 THEN setWriteOp(owing)
                                                ELSE read
    <2>1. read.app = n.app /\ read.owes = n.owes
      BY <1>1, <1>3 DEF Machines
    <2> QED BY <2>1 DEF outReadEvent, read, d
  <1>9. ASSUME read.owes > 0
        PROVE  Goes(e, setWriteOp(owing), x)
    <2>1. read.owes - 1 \in Nat
      BY <1>4, <1>9 DEF Machines
    <2>2. /\ owing \in Machines
          /\ Kept([read EXCEPT !.owes = owing.owes], owing)
          /\ owing.op = read.op /\ owing.result = read.result
          /\ owing.received = read.received /\ owing.closed = read.closed
          /\ owing.open = read.open
          /\ owing.connected = read.connected /\ owing.started = read.started
          /\ owing.raised = read.raised /\ owing.written = read.written
          /\ owing.out = read.out /\ owing.in = read.in
          /\ owing.buffer = read.buffer
          /\ owing.peerGone = read.peerGone /\ owing.reset = read.reset
          /\ owing.ended = read.ended
      BY <1>4, <2>1 DEF Machines, Kept
    <2> HIDE DEF owing
    <2>3. Base(owing, x)
      BY <1>5, <2>2 DEF Base, Local
    <2>4. Resting(e, owing, x)
      BY <1>7, <2>2, <2>3 DEF Resting, AllOff, Silent
    <2> QED BY <1>4, <2>2, <2>4, SetWrite
  <1> QED BY <1>7, <1>8, <1>9

LEMMA DoRead ==
    ASSUME NEW e \in Ends, NEW me, NEW x, Loaded(e, me, "reader", x)
    PROVE  Goes(e, _doReadOp(me), x)
  <1> DEFINE o == "reader"
             R == Running(me, o)
             n == R.me
             s == [n EXCEPT !.closed = TRUE]
  <1>0. o \in Operations /\ o = "reader"
    BY DEF Operations
  <1> HIDE DEF o
  <1>1. /\ Base(me, x) /\ Working(e, me, o)
        /\ me.started /\ me.open /\ me.connected = TRUE
        /\ me.closed = FALSE
    BY <1>0 DEF Loaded, Working, Base, Local, Machines
  <1>2. _doReadOp(me) =
           CASE ~R.done -> n
             [] R.done /\ R.record[1] = "close" -> outReadEvent(s, R.record)
             [] R.done /\ R.record[1] = "data" -> outReadEvent(n, R.record)
    BY <1>0 DEF _doReadOp
  <1> HIDE DEF R, s
  <1>4. ASSUME ~R.done, Halfway(e, n, o, x)
        PROVE  Goes(e, _doReadOp(me), x)
    <2>1. Goes(e, n, x)
      BY <1>0, <1>4, HalfwayGoes
    <2>2. _doReadOp(me) = n
      BY <1>2, <1>4
    <2> QED BY <2>1, <2>2
  <1>5. ASSUME R.done, R.record[1] = "close", Kept(me, n),
               NEW m, Quiet(n, x, TRUE, m)
        PROVE  Goes(e, _doReadOp(me), x)
    <2>1. _doReadOp(me) = outReadEvent(s, R.record)
      <3>1. R.record[1] # "data"
        BY <1>5
      <3> QED BY <1>2, <1>5, <3>1
    <2>2. outReadEvent(s, R.record) = setCloseOp(s)
      BY <1>5 DEF outReadEvent
    <2>3. n.connected /\ n.started /\ n.open
      BY <1>1, <1>5 DEF Kept
    <2> QED BY <1>5, <2>1, <2>2, <2>3, CloseAnswered DEF s
  <1>6. CASE OnlySends(me.op[o].steps)
    <2>1. Fits(e, o, me.op[o].steps, me.op[o].record)
      BY <1>1 DEF Working
    <2>2. ~OnlyReads(me.op[o].steps)
      BY <1>6 DEF OnlyReads, OnlySends, Sent, Had
    <2>3. me.op[o].record[1] = "close" /\ ClosingBy(o, me.op[o].steps) = TRUE
      BY <1>0, <1>6, <2>1, <2>2 DEF Fits, ClosingBy
    <2>4. /\ R.record = me.op[o].record
          /\ Carried(e, me, R, o, x, TRUE, Len(me.received))
      BY <1>0, <1>6, <2>3, SenderRuns DEF R
    <2>5. CASE ~R.done
      BY <1>4, <2>4, <2>5 DEF Carried
    <2>6. CASE R.done
      <3>1. Kept(me, n) /\ Quiet(n, x, TRUE, Len(me.received))
        BY <2>4, <2>6 DEF Carried
      <3> QED BY <1>5, <2>3, <2>4, <2>6, <3>1
    <2> QED BY <2>5, <2>6
  <1>7. CASE OnlyReads(me.op[o].steps)
    <2>1. /\ ~R.done => Halfway(e, n, o, x)
          /\ R.done => ReadResult(me, R, x)
      BY <1>0, <1>7, ReaderRuns DEF R
    <2>2. CASE ~R.done
      BY <1>4, <2>1, <2>2
    <2>3. CASE R.done
      <3>1. /\ Kept(me, n) /\ R.record \in Bytes
            /\ R.record[1] \in {"data", "close"}
        BY <2>1, <2>3 DEF ReadResult
      <3>2. CASE R.record[1] = "close"
        <4>1. Quiet(n, x, TRUE, Len(me.received))
          BY <2>1, <2>3, <3>2 DEF ReadResult
        <4> QED BY <1>5, <2>3, <3>1, <3>2, <4>1
      <3>3. CASE R.record[1] = "data"
        <4>1. /\ R.record[2] = Len(n.received) + 1
              /\ R.record[2] <= x.written
              /\ Quiet(n, x, FALSE, R.record[2])
              /\ n.connected /\ n.started /\ n.open
          BY <1>1, <2>1, <2>3, <3>3 DEF ReadResult, Kept
        <4>2. Goes(e, outReadEvent(n, R.record), x)
          BY <3>1, <3>3, <4>1, OutRead
        <4>3. R.record[1] # "close"
          BY <3>3
        <4> QED BY <1>2, <2>3, <3>3, <4>2, <4>3
      <3> QED BY <3>1, <3>2, <3>3
    <2> QED BY <2>2, <2>3
  <1>8. OnlyReads(me.op[o].steps) \/ OnlySends(me.op[o].steps)
    BY <1>0, <1>1 DEF Working, Fits
  <1> QED BY <1>6, <1>7, <1>8

LEMMA StartsReading ==
    ASSUME NEW e \in Ends, NEW me, NEW x, Resting(e, me, x), me.started, me.open
    PROVE  Goes(e, StartReading(me), x)
  <1> DEFINE o == "reader"
             g == readAsync
             t == [me EXCEPT !.op[o] = g]
  <1>1. /\ Quiet(me, x, me.closed, Len(me.received)) /\ me.connected
        /\ Base(me, x) /\ me \in Machines /\ me.closed = FALSE
        /\ AllOff(me) /\ me.result = NoResult
        /\ x \in Contexts /\ me.out \in Seq(Bytes)
    BY RestsOpen
  <1>2. o \in Operations /\ o = "reader"
    BY DEF Operations
  <1>3. <<>> \in Parts /\ Reads = Had(<<>>) /\ Reads \in StepsToDo
    BY SizesAssumption DEF Parts, Reads, Had, StepsToDo
  <1>4. StartReading(me) = _doReadOp(t)
    BY DEF StartReading
  <1> HIDE DEF o
  <1>5. <<Reads>> \in Seq(StepsToDo)
    BY <1>3, FirstOfSteps
  <1>6. g \in Generators /\ g.on /\ g.steps = <<Reads>>
    BY <1>5, OpIs DEF readAsync
  <1> HIDE DEF g
  <1>7. /\ t \in Machines /\ Kept(me, t) /\ t.op[o] = g /\ OnlyOn(t, o)
        /\ t.out = me.out /\ t.in = me.in /\ t.buffer = me.buffer
    BY <1>1, <1>2, <1>6, OpSet
  <1> HIDE DEF t
  <1>8. Base(t, x)
    <2>1. Len(t.out) <= WireCapacity /\ Len(t.in) <= x.room
      BY <1>1, <1>7 DEF Base
    <2> QED BY <1>1, <1>7, <2>1, KeptBase
  <1> DEFINE now == t.op[o].steps
  <1>9. now = <<Had(<<>>)>>
    BY <1>3, <1>6, <1>7
  <1>10. /\ OnlyReads(now) /\ ToSend(now) = <<>> /\ HasCome(now) = <<>>
         /\ ClosingBy(o, now) = FALSE
         /\ LastBy(o, now, Len(t.received)) = Len(me.received)
    BY <1>2, <1>3, <1>7, <1>9, ToReadIs DEF ClosingBy, LastBy, Kept
  <1> HIDE DEF now
  <1>11. Working(e, t, o)
    <2>1. Fits(e, o, now, t.op[o].record)
      BY <1>2, <1>10 DEF Fits
    <2>2. t.connected = TRUE /\ o # "handshaker"
      BY <1>1, <1>2, <1>7 DEF Machines, Kept
    <2> QED BY <1>7, <2>1, <2>2 DEF Working, now, Kept
  <1>12. OutKept(x, t.out, ToSend(now), t.written, ClosingBy(o, now))
    BY <1>1, <1>7, <1>10 DEF Kept, Quiet
  <1>13. InKept(x, HasCome(now), t.buffer, t.in,
                LastBy(o, now, Len(t.received)))
    BY <1>1, <1>7, <1>10 DEF Quiet
  <1>14. Loaded(e, t, o, x)
    <2>1. Silent(t, ToSend(now))
      BY <1>10 DEF Silent
    <2> QED BY <1>8, <1>11, <1>12, <1>13, <2>1 DEF Loaded, now
  <1> QED BY <1>2, <1>4, <1>14, DoRead

LEMMA OutWrite ==
    ASSUME NEW e \in Ends, NEW me, NEW x, Resting(e, me, x), me.started, me.open
    PROVE  Goes(e, outWriteEvent(me), x)
  <1> DEFINE t == [me EXCEPT !.toWrite = @ - 1]
  <1>1. me \in Machines /\ Base(me, x)
    BY DEF Resting, Base, Local
  <1>2. CASE me.toWrite > 0
    <2>1. me.toWrite - 1 \in Nat
      BY <1>1, <1>2 DEF Machines
    <2>2. /\ t \in Machines /\ t.op = me.op /\ t.result = me.result
          /\ t.received = me.received /\ t.closed = me.closed
          /\ t.open = me.open
          /\ t.connected = me.connected /\ t.started = me.started
          /\ t.raised = me.raised /\ t.written = me.written
          /\ t.out = me.out /\ t.in = me.in /\ t.buffer = me.buffer
          /\ t.peerGone = me.peerGone /\ t.reset = me.reset
          /\ t.ended = me.ended
      BY <1>1, <2>1 DEF Machines
    <2>3. outWriteEvent(me) = setWriteOp(t)
      BY <1>1, <1>2 DEF outWriteEvent, Machines
    <2> HIDE DEF t
    <2>4. Base(t, x)
      BY <1>1, <2>2 DEF Base, Local
    <2>5. Resting(e, t, x)
      BY <2>2, <2>4 DEF Resting, AllOff, Silent
    <2> QED BY <2>2, <2>3, <2>5, SetWrite
  <1>3. CASE me.toWrite = 0 /\ me.app.closes
    <2>1. outWriteEvent(me) = setCloseOp(me)
      BY <1>3 DEF outWriteEvent
    <2> QED BY <2>1, SetClose
  <1>4. CASE ~(me.toWrite > 0) /\ ~(me.toWrite = 0 /\ me.app.closes)
    <2>1. outWriteEvent(me) = me
      BY <1>4 DEF outWriteEvent
    <2>2. me.result = NoResult
      BY DEF Resting
    <2> QED BY <2>1, <2>2 DEF Goes, Going
  <1> QED BY <1>2, <1>3, <1>4

LEMMA InEvents ==
    ASSUME NEW e \in Ends, NEW me, NEW x, Goes(e, me, x), me.open,
           NEW otherwise, Resting(e, me, x) => Goes(e, otherwise, x)
    PROVE  Goes(e, InEvent(me, otherwise), x)
  <1>1. CASE me.result = NoResult
    <2>1. Resting(e, me, x) /\ AllOff(me)
      BY <1>1 DEF Goes, Going, Resting
    <2>2. Sound(me, 1)
      BY <1>1, <2>1, SoundIs
    <2>3. /\ ~me.op["handshaker"].on /\ ~me.op["closer"].on
          /\ ~me.op["reader"].on /\ ~me.op["writer"].on
      BY <2>1, NoOpIs DEF AllOff, Operations
    <2>4. InEvent(me, otherwise) = otherwise
      BY <2>2, <2>3 DEF InEvent
    <2> QED BY <2>1, <2>4
  <1>2. CASE me.result # NoResult
    <2>1. PICK o \in Operations : Loaded(e, me, o, x)
      BY <1>2 DEF Goes, Going
    <2>2. OnlyOn(me, o)
      BY <2>1 DEF Loaded, Working
    <2>3. Sound(me, 1)
      BY <1>2, <2>2, SoundIs
    <2>4. me.op[o].on /\ \A y \in Operations \ {o} : ~me.op[y].on
      BY <2>2, NoOpIs DEF OnlyOn
    <2>5. CASE o = "handshaker"
      <3>1. InEvent(me, otherwise) = _doHandshakeOp(me)
        BY <2>3, <2>4, <2>5 DEF InEvent
      <3> QED BY <2>1, <2>5, <3>1, DoHandshake
    <2>6. CASE o = "closer"
      <3>1. InEvent(me, otherwise) = _doCloseOp(me)
        BY <2>3, <2>4, <2>6 DEF InEvent, Operations
      <3> QED BY <2>1, <2>6, <3>1, DoClose
    <2>7. CASE o = "reader"
      <3>1. InEvent(me, otherwise) = _doReadOp(me)
        BY <2>3, <2>4, <2>7 DEF InEvent, Operations
      <3> QED BY <2>1, <2>7, <3>1, DoRead
    <2>8. CASE o = "writer"
      <3>1. InEvent(me, otherwise) = _doWriteOp(me)
        BY <2>3, <2>4, <2>8 DEF InEvent, Operations
      <3> QED BY <2>1, <2>8, <3>1, DoWrite
    <2> QED BY <2>5, <2>6, <2>7, <2>8 DEF Operations
  <1> QED BY <1>1, <1>2

LEMMA InReadGoes ==
    ASSUME NEW e \in Ends, NEW me, NEW x, Goes(e, me, x), me.open
    PROVE  Goes(e, inReadEvent(me), x)
  <1>1. Resting(e, me, x) => Goes(e, StartReading(me), x)
    BY StartsReading DEF Goes
  <1> QED BY <1>1, InEvents DEF inReadEvent

LEMMA InWriteGoes ==
    ASSUME NEW e \in Ends, NEW me, NEW x, Goes(e, me, x), me.open
    PROVE  Goes(e, inWriteEvent(me), x)
  <1>1. Resting(e, me, x) => Goes(e, outWriteEvent(me), x)
    BY OutWrite DEF Goes
  <1> QED BY <1>1, InEvents DEF inWriteEvent

-----------------------------------------------------------------------------
(***************************************************************************)
(* The two ends.                                                           *)
(***************************************************************************)

LEMMA BytesOfSteps ==
    ASSUME NEW e, NEW me \in Machines, NEW o \in Operations,
           Fits(e, o, me.op[o].steps, me.op[o].record)
    PROVE  /\ ToSend(me.op[o].steps) \in Seq(Bytes)
           /\ HasCome(me.op[o].steps) \in Seq(Bytes)
  <1> DEFINE steps == me.op[o].steps
  <1>1. steps \in Seq(StepsToDo)
    BY DEF Machines, Generators
  <1>2. \/ OnlySends(steps) \/ OnlyReads(steps)
        \/ FlushesThenReads(steps) \/ ReadsThenFlushes(steps)
    BY DEF Fits, Operations
  <1> HIDE DEF steps
  <1>3. Len(steps) \in {1, 2}
    <2>1. \A a, b : Len(<<a>>) = 1 /\ Len(<<a, b>>) = 2
      OBVIOUS
    <2> QED BY <1>2, <2>1 DEF OnlySends, OnlyReads, FlushesThenReads,
                              ReadsThenFlushes
  <1>4. steps[1] \in StepsToDo /\ (Len(steps) = 2 => steps[2] \in StepsToDo)
    BY <1>1, <1>3
  <1>5. \A x \in StepsToDo : x.bytes \in Seq(Bytes)
    BY DEF StepsToDo, Parts
  <1> QED BY <1>4, <1>5, Concat DEF ToSend, HasCome, steps

\* The operation that is on is the one an end is doing.
LEMMA DoingIs ==
    ASSUME NEW me, NEW o \in Operations, OnlyOn(me, o)
    PROVE  Doing(me) = o /\ Current(me) = me.op[o].steps
  <1>1. \A y \in Operations : me.op[y].on <=> y = o
    BY NoOpIs DEF OnlyOn
  <1> QED BY <1>1 DEF Doing, Current

LEMMA EndTypes ==
    ASSUME NEW e \in Ends, NEW me, Fit(e, me)
    PROVE  /\ Partial(me) \in Seq(Bytes) /\ Outgoing(e, me) \in Seq(Bytes)
           /\ Closing(me) \in BOOLEAN /\ LastRead(me) \in Int
  <1>1. me \in Machines /\ me.received \in Seq(Nat) /\ me.closed \in BOOLEAN
    BY DEF Fit, Local, Machines
  <1>2. Hello(e) \in Seq(Bytes) /\ <<>> \in Seq(Bytes)
    BY RecordElements, Concat DEF Hello
  <1>3. Len(me.received) \in Int /\ -1 \in Int
    BY <1>1
  <1>4. CASE me.result = NoResult
    BY <1>1, <1>2, <1>3, <1>4 DEF Partial, Outgoing, Closing, LastRead
  <1>5. CASE me.result # NoResult
    <2>1. PICK o \in Operations : Working(e, me, o)
      BY <1>5 DEF Fit
    <2>2. Doing(me) = o /\ Current(me) = me.op[o].steps
      BY <2>1, DoingIs DEF Working
    <2>3. /\ ToSend(me.op[o].steps) \in Seq(Bytes)
          /\ HasCome(me.op[o].steps) \in Seq(Bytes)
      BY <1>1, <2>1, BytesOfSteps DEF Working
    <2>4. ClosingBy(o, me.op[o].steps) \in BOOLEAN
      BY DEF ClosingBy, OnlySends
    <2>5. LastBy(o, me.op[o].steps, Len(me.received)) \in Int
      BY <1>3 DEF LastBy
    <2> QED BY <1>2, <1>5, <2>2, <2>3, <2>4, <2>5
            DEF Partial, Outgoing, Closing, LastRead
  <1> QED BY <1>4, <1>5

\* What goes on at an end, by what it is doing.
Keeping(e, me, x) ==
    /\ Fit(e, me)
    /\ OutKept(x, me.out, Outgoing(e, me), me.written, Closing(me))
    /\ Silent(me, Outgoing(e, me))
    /\ ~Closing(me) =>
           InKept(x, Partial(me), me.buffer, me.in, LastRead(me))

LEMMA GoingIs ==
    ASSUME NEW e \in Ends, NEW me, NEW x, Base(me, x)
    PROVE  Going(e, me, x) <=> Keeping(e, me, x)
  <1>1. CASE me.result = NoResult
    <2>1. /\ Partial(me) = <<>> /\ Closing(me) = me.closed
          /\ LastRead(me) = IF me.connected THEN Len(me.received) ELSE -1
          /\ Outgoing(e, me) = IF me.started THEN <<>> ELSE Hello(e)
      BY <1>1 DEF Partial, Outgoing, Closing, LastRead
    <2>2. Fit(e, me) <=> AllOff(me) /\ (me.open => me.connected = me.started)
      BY <1>1 DEF Fit, Base
    <2> QED BY <1>1, <2>1, <2>2 DEF Going, Resting, Keeping
  <1>2. CASE me.result # NoResult
    <2>1. ASSUME NEW o \in Operations, Working(e, me, o)
          PROVE  LET steps == me.op[o].steps
                 IN  /\ Partial(me) = HasCome(steps)
                     /\ Outgoing(e, me) = ToSend(steps)
                     /\ Closing(me) = ClosingBy(o, steps)
                     /\ LastRead(me) = LastBy(o, steps, Len(me.received))
      <3>1. Doing(me) = o /\ Current(me) = me.op[o].steps /\ me.started
        BY <2>1, DoingIs DEF Working
      <3> QED BY <1>2, <3>1 DEF Partial, Outgoing, Closing, LastRead
    <2>2. Going(e, me, x) <=> \E o \in Operations : Loaded(e, me, o, x)
      BY <1>2 DEF Going
    <2>3. Fit(e, me) <=> \E o \in Operations : Working(e, me, o)
      BY <1>2 DEF Fit, Base
    <2>4. ASSUME NEW o \in Operations, Loaded(e, me, o, x)
          PROVE  Keeping(e, me, x)
      <3>1. Working(e, me, o)
        BY <2>4 DEF Loaded
      <3> QED BY <2>1, <2>3, <2>4, <3>1 DEF Loaded, Keeping
    <2>5. ASSUME Keeping(e, me, x)
          PROVE  \E o \in Operations : Loaded(e, me, o, x)
      <3>1. PICK o \in Operations : Working(e, me, o)
        BY <2>3, <2>5 DEF Keeping
      <3>2. Loaded(e, me, o, x)
        BY <2>1, <2>5, <3>1 DEF Loaded, Keeping
      <3> QED BY <3>2
    <2> QED BY <2>2, <2>4, <2>5
  <1> QED BY <1>1, <1>2

\* The two ends, me with the wires: out from it and w to it.
Pair(e, me, out, you, w) ==
    /\ RecordLength <= WireCapacity
    /\ Fit(e, me) /\ Fit(Peer(e), you)
    /\ out \in Seq(Bytes) /\ Len(out) <= WireCapacity
    /\ w \in Seq(Bytes) /\ Len(w) <= WireCapacity
    /\ Way(e, me, out, you) /\ Way(Peer(e), you, w, me)

\* What is there of the peer when n bytes of w have come.
Around(e, you, w, n) ==
    [before |-> Partial(you) \o you.buffer, read |-> LastRead(you),
     heard |-> ~Closing(you), gone |-> ~you.open,
     reported |-> Len(you.received),
     rest |-> After(w, n) \o Outgoing(Peer(e), you),
     written |-> you.written, closing |-> Closing(you), room |-> n]

AtWork(me, out, you, w, n, reset) ==
    [me EXCEPT !.out = out, !.in = CutTo(w, n), !.peerGone = ~you.open,
               !.reset = reset, !.ended = ~you.open /\ n = Len(w)]

AtRest(me) == [me EXCEPT !.out = <<>>, !.in = <<>>, !.reset = FALSE]

\* Ends that differ in what they have of the wire.
Alike(me, t) ==
    /\ t \in Machines
    /\ t.op = me.op /\ t.result = me.result
    /\ t.connected = me.connected /\ t.closed = me.closed
    /\ t.open = me.open /\ t.raised = me.raised /\ t.started = me.started
    /\ t.buffer = me.buffer /\ t.app = me.app /\ t.toWrite = me.toWrite
    /\ t.owes = me.owes /\ t.written = me.written
    /\ t.received = me.received
    /\ t.reset \/ me.raised = "socket" => t.peerGone

LEMMA AlikeIs ==
    ASSUME NEW e \in Ends, NEW me, NEW t, Alike(me, t), Fit(e, me)
    PROVE  /\ Fit(e, t)
           /\ Partial(t) = Partial(me) /\ Outgoing(e, t) = Outgoing(e, me)
           /\ Closing(t) = Closing(me) /\ LastRead(t) = LastRead(me)
  <1>1. Local(t)
    BY DEF Alike, Fit, Local
  <1>2. CASE me.result = NoResult
    BY <1>1, <1>2 DEF Alike, Fit, AllOff, Partial, Outgoing, Closing, LastRead
  <1>3. CASE me.result # NoResult
    <2>1. PICK o \in Operations : Working(e, me, o)
      BY <1>3 DEF Fit
    <2>2. Working(e, t, o)
      BY <2>1 DEF Working, OnlyOn, Alike
    <2>3. /\ Doing(me) = o /\ Current(me) = me.op[o].steps
          /\ Doing(t) = o /\ Current(t) = me.op[o].steps
      <3>1. OnlyOn(me, o) /\ OnlyOn(t, o) /\ t.op = me.op
        BY <2>1, <2>2 DEF Working, Alike
      <3> QED BY <3>1, DoingIs
    <2> QED BY <1>1, <1>3, <2>2, <2>3
            DEF Alike, Fit, Partial, Outgoing, Closing, LastRead
  <1> QED BY <1>2, <1>3

\* An end that has closed has nothing more to say and does not listen.
LEMMA ClosedIs ==
    ASSUME NEW e \in Ends, NEW me, Fit(e, me), ~me.open
    PROVE  Closing(me) = TRUE /\ Outgoing(e, me) = <<>>
  <1>1. me.closed = TRUE /\ me.started
    BY DEF Fit, Local, Machines
  <1>2. me.result = NoResult
    BY DEF Fit, Working
  <1> QED BY <1>1, <1>2 DEF Closing, Outgoing

LEMMA AfterAll ==
    ASSUME NEW s \in Seq(Bytes)
    PROVE  After(s, Len(s)) = <<>>
  <1>1. Len(s) \in Nat /\ Len(s) <= Len(s)
    OBVIOUS
  <1>2. /\ After(s, Len(s)) \in Seq(Bytes)
        /\ Len(After(s, Len(s))) = Len(s) - Len(s)
    BY <1>1, AfterElements
  <1> QED BY <1>1, <1>2

\* An end goes to work on what has come.
LEMMA TakesUp ==
    ASSUME NEW e \in Ends, NEW me, NEW out, NEW you, NEW w,
           Pair(e, me, out, you, w), NEW n \in 0..Len(w),
           NEW reset \in BOOLEAN, reset => ~you.open
    PROVE  LET t == AtWork(me, out, you, w, n, reset)
           IN  Going(e, t, Around(e, you, w, n)) /\ Alike(me, t)
  <1> DEFINE t == AtWork(me, out, you, w, n, reset)
             x == Around(e, you, w, n)
             cut == CutTo(w, n)
             left == After(w, n)
             b == Outgoing(e, me)
             d == Outgoing(Peer(e), you)
  <1>1. /\ Fit(e, me) /\ Fit(Peer(e), you) /\ Peer(e) \in Ends
        /\ me \in Machines /\ you \in Machines
        /\ out \in Seq(Bytes) /\ Len(out) <= WireCapacity
        /\ w \in Seq(Bytes) /\ Len(w) \in Nat /\ n \in Nat /\ n <= Len(w)
    BY DEF Pair, Fit, Local, Peer, Ends
  <1>2. /\ cut \in Seq(Bytes) /\ Len(cut) = n /\ left \in Seq(Bytes)
        /\ cut \o left = w
    BY <1>1, CutAndAfter, AfterElements
  <1> HIDE DEF cut, left
  <1>3. /\ Partial(me) \in Seq(Bytes) /\ b \in Seq(Bytes)
        /\ Partial(you) \in Seq(Bytes) /\ d \in Seq(Bytes)
        /\ Closing(you) \in BOOLEAN /\ LastRead(you) \in Int
    BY <1>1, EndTypes
  <1>4. /\ me.buffer \in Seq(Bytes) /\ you.buffer \in Seq(Bytes)
        /\ you.received \in Seq(Nat) /\ you.written \in Nat
        /\ you.open \in BOOLEAN
    BY <1>1 DEF Machines
  <1>5. t = [me EXCEPT !.out = out, !.in = cut, !.peerGone = ~you.open,
                       !.reset = reset, !.ended = ~you.open /\ n = Len(w)]
    BY DEF AtWork, cut
  <1>6. /\ x.before = Partial(you) \o you.buffer /\ x.read = LastRead(you)
        /\ x.heard = ~Closing(you) /\ x.gone = ~you.open
        /\ x.reported = Len(you.received)
        /\ x.rest = left \o d /\ x.written = you.written
        /\ x.closing = Closing(you) /\ x.room = n /\ x \in Contexts
    <2>1. Partial(you) \o you.buffer \in Seq(Bytes) /\ left \o d \in Seq(Bytes)
      BY <1>2, <1>3, <1>4, Concat
    <2>2. Len(you.received) \in Nat
      BY <1>4
    <2> HIDE DEF d
    <2> QED BY <1>1, <1>3, <1>4, <2>1, <2>2 DEF Around, Contexts, left, d
  <1> HIDE DEF t, x
  <1>7. /\ Alike(me, t) /\ t.out = out /\ t.in = cut
        /\ t.peerGone = ~you.open /\ t.ended = (~you.open /\ n = Len(w))
    <2>1. me.raised = "socket" => ~you.open
      BY DEF Pair, Fit, Local, Way
    <2>2. /\ t \in Machines /\ t.op = me.op /\ t.result = me.result
          /\ t.connected = me.connected /\ t.closed = me.closed
          /\ t.open = me.open /\ t.raised = me.raised
          /\ t.started = me.started /\ t.buffer = me.buffer
          /\ t.app = me.app /\ t.toWrite = me.toWrite
          /\ t.owes = me.owes /\ t.written = me.written
          /\ t.received = me.received /\ t.out = out /\ t.in = cut
          /\ t.peerGone = ~you.open /\ t.reset = reset
          /\ t.ended = (~you.open /\ n = Len(w))
      <3>1. PICK gone \in BOOLEAN : gone = ~you.open
        BY <1>4
      <3>2. PICK fin \in BOOLEAN : fin = (~you.open /\ n = Len(w))
        OBVIOUS
      <3>3. t = [me EXCEPT !.out = out, !.in = cut, !.peerGone = gone,
                           !.reset = reset, !.ended = fin]
        BY <1>5, <3>1, <3>2, Zenon
      <3>4. /\ t \in Machines /\ t.op = me.op /\ t.result = me.result
            /\ t.connected = me.connected /\ t.closed = me.closed
            /\ t.open = me.open /\ t.raised = me.raised
            /\ t.started = me.started /\ t.buffer = me.buffer
            /\ t.app = me.app /\ t.toWrite = me.toWrite
            /\ t.owes = me.owes /\ t.written = me.written
            /\ t.received = me.received /\ t.out = out /\ t.in = cut
            /\ t.peerGone = gone /\ t.reset = reset /\ t.ended = fin
        <4>1. me \in Machines /\ out \in Seq(Bytes) /\ cut \in Seq(Bytes)
          BY <1>1, <1>2
        <4> QED BY <4>1, <3>3 DEF Machines
      <3> QED BY <3>1, <3>2, <3>4, Zenon
    <2> QED BY <2>1, <2>2 DEF Alike
  <1>8. /\ Fit(e, t) /\ Partial(t) = Partial(me) /\ Outgoing(e, t) = b
        /\ Closing(t) = Closing(me) /\ LastRead(t) = LastRead(me)
    BY <1>1, <1>7, AlikeIs
  <1>9. Base(t, x)
    <2>1. Len(t.received) <= x.written /\ x.reported <= t.written
      BY <1>6, <1>7 DEF Pair, Way, Alike
    <2>2. t.peerGone => ~x.heard /\ x.gone
      BY <1>1, <1>6, <1>7, ClosedIs
    <2>3. ASSUME t.ended
          PROVE  x.rest = <<>> /\ x.closing
      <3>1. ~you.open /\ n = Len(w)
        BY <1>7, <2>3
      <3>2. left = <<>> /\ d = <<>> /\ Closing(you)
        BY <1>1, <3>1, AfterAll, ClosedIs DEF left
      <3> QED BY <1>6, <3>2, Concat
    <2>4. Len(t.in) <= x.room
      BY <1>1, <1>2, <1>6, <1>7
    <2> QED BY <1>1, <1>6, <1>7, <1>8, <2>1, <2>2, <2>3, <2>4
            DEF Base, Fit, Pair
  <1> HIDE DEF b, d
  <1>10. OutKept(x, t.out, b, t.written, Closing(me))
    <2> SUFFICES ASSUME x.heard
                 PROVE  Stream(x.before \o (out \o b), x.read, me.written,
                               Closing(me))
      BY <1>7 DEF OutKept, Alike
    <2>1. Stream(Partial(you) \o (you.buffer \o (out \o b)), LastRead(you),
                 me.written, Closing(me))
      BY <1>6 DEF Pair, Way, b
    <2>2. Partial(you) \o (you.buffer \o (out \o b)) = x.before \o (out \o b)
      <3>1. out \o b \in Seq(Bytes)
        BY <1>1, <1>3, Concat
      <3>2. (Partial(you) \o you.buffer) \o (out \o b)
              = Partial(you) \o (you.buffer \o (out \o b))
        BY <1>3, <1>4, <3>1, Assoc
      <3> QED BY <1>6, <3>2, Zenon
    <2> QED BY <1>6, <2>1, <2>2
  <1>11. ASSUME ~Closing(me)
         PROVE  InKept(x, Partial(me), t.buffer, t.in, LastRead(me))
    <2>1. Stream(Partial(me) \o (me.buffer \o (w \o d)), LastRead(me),
                 you.written, Closing(you))
      <3>1. Way(Peer(e), you, w, me)
        BY DEF Pair
      <3> QED BY <1>11, <3>1 DEF Way, d
    <2>2. w \o d = cut \o (left \o d)
      BY <1>2, <1>3, Assoc
    <2> QED BY <1>6, <1>7, <2>1, <2>2 DEF InKept, Alike
  <1>12. Keeping(e, t, x)
    <2>1. Silent(t, b)
      BY <1>7 DEF Silent, Pair, Way, Alike, b
    <2> QED BY <1>7, <1>8, <1>10, <1>11, <2>1 DEF Keeping
  <1>13. Going(e, t, x)
    BY <1>9, <1>12, GoingIs
  <1> QED BY <1>7, <1>13 DEF t, x

\* An end that has not started goes to its handshake.
LEMMA StartsHandshake ==
    ASSUME NEW e \in Ends, NEW me, NEW x, Resting(e, me, x), ~me.started
    PROVE  LET s == [me EXCEPT !.started = TRUE]
               t == [s EXCEPT !.op["handshaker"] = handshakeAsync(e)]
           IN  Sound(s, 0) /\ Goes(e, _doHandshakeOp(t), x)
  <1> DEFINE o == "handshaker"
             s == [me EXCEPT !.started = TRUE]
             g == handshakeAsync(e)
             t == [s EXCEPT !.op[o] = g]
  <1>1. /\ Base(me, x) /\ me \in Machines /\ AllOff(me)
        /\ me.result = NoResult /\ ~me.connected /\ ~me.closed
        /\ me.open = TRUE
        /\ me.received = <<>> /\ me.written = 0
        /\ OutKept(x, me.out, Hello(e), me.written, FALSE)
        /\ Silent(me, Hello(e))
        /\ InKept(x, <<>>, me.buffer, me.in, -1)
    <2>1. Base(me, x) /\ Local(me) /\ me \in Machines
      BY DEF Resting, Base, Local
    <2>3. ~me.closed /\ me.closed = FALSE /\ me.open = TRUE
      BY <2>1 DEF Local, Machines
    <2>2. ~me.connected
      BY <2>3 DEF Resting
    <2> QED BY <2>1, <2>2, <2>3 DEF Resting, Local
  <1>2. /\ s \in Machines /\ s.started = TRUE /\ s.op = me.op
        /\ s.result = me.result /\ s.connected = me.connected
        /\ s.closed = me.closed /\ s.open = me.open /\ s.raised = me.raised
        /\ s.received = me.received /\ s.written = me.written
        /\ s.out = me.out /\ s.in = me.in /\ s.buffer = me.buffer
        /\ s.peerGone = me.peerGone /\ s.reset = me.reset
        /\ s.ended = me.ended
    BY <1>1 DEF Machines
  <1> HIDE DEF s
  <1>3. Base(s, x) /\ AllOff(s) /\ s.result = NoResult
    BY <1>1, <1>2 DEF Base, Local, AllOff
  <1>4. o \in Operations /\ o = "handshaker" /\ Sound(s, 0)
    BY <1>3, SoundIs DEF Operations
  <1> HIDE DEF o
  <1> DEFINE z == RecordBytes("hello", 1)
             q == RecordBytes("hello", 2)
  <1>5. /\ <<>> \in Parts /\ Reads = Had(<<>>) /\ Reads \in StepsToDo
        /\ Flushes("hello", 1) \in StepsToDo
        /\ Flushes("hello", 2) \in StepsToDo
    <2>1. <<>> \in Parts
      BY SizesAssumption DEF Parts
    <2> QED BY <2>1, ToFlushAndReadIs, ToReadAndFlushIs
  <1> HIDE DEF z, q
  <1> DEFINE steps == IF e = Client THEN <<Flushes("hello", 1), Reads>>
                                    ELSE <<Reads, Flushes("hello", 2)>>
  <1>6. steps \in Seq(StepsToDo)
    BY <1>5, FirstOfSteps
  <1>7. g = Op(steps)
    BY DEF handshakeAsync
  <1>8. /\ ToSend(steps) = Hello(e) /\ HasCome(steps) = <<>>
        /\ Len(steps) = 2
        /\ IF e = Client THEN FlushesThenReads(steps)
                         ELSE ReadsThenFlushes(steps)
    <2>1. Hello(e) = IF e = Client THEN z ELSE q
      BY DEF Hello, z, q
    <2>2. LET l == <<Flushes("hello", 1), Reads>>
          IN  /\ ToSend(l) = z /\ HasCome(l) = <<>> /\ Len(l) = 2
              /\ FlushesThenReads(l)
      BY ToFlushAndReadIs DEF z
    <2>3. LET l == <<Reads, Flushes("hello", 2)>>
          IN  /\ ToSend(l) = q /\ HasCome(l) = <<>> /\ Len(l) = 2
              /\ ReadsThenFlushes(l)
      BY <1>5, ToReadAndFlushIs DEF q
    <2> QED BY <2>1, <2>2, <2>3
  <1> HIDE DEF steps
  <1>9. g \in Generators /\ g.on /\ g.steps = steps
    BY <1>6, <1>7, OpIs
  <1> HIDE DEF g
  <1>10. /\ t \in Machines /\ Kept(s, t) /\ t.op[o] = g /\ OnlyOn(t, o)
         /\ t.out = s.out /\ t.in = s.in /\ t.buffer = s.buffer
    BY <1>2, <1>3, <1>4, <1>9, OpSet
  <1> HIDE DEF t
  <1>11. Base(t, x)
    <2>1. Len(t.out) <= WireCapacity /\ Len(t.in) <= x.room
      BY <1>3, <1>10 DEF Base
    <2> QED BY <1>3, <1>10, <2>1, KeptBase
  <1>12. ~ClosingBy(o, steps) /\ LastBy(o, steps, Len(t.received)) = -1
    BY <1>4, <1>8 DEF ClosingBy, LastBy
  <1>13. Working(e, t, o)
    <2>1. Fits(e, o, steps, t.op[o].record)
      BY <1>4, <1>8 DEF Fits
    <2>2. t.started /\ t.open /\ t.connected = FALSE
      BY <1>1, <1>2, <1>10 DEF Kept, Machines
    <2> QED BY <1>4, <1>9, <1>10, <2>1, <2>2 DEF Working
  <1>14. ClosingBy(o, steps) = FALSE
    BY <1>12 DEF ClosingBy, OnlySends
  <1>15. OutKept(x, t.out, ToSend(steps), t.written, ClosingBy(o, steps))
    BY <1>1, <1>2, <1>8, <1>10, <1>14 DEF Kept
  <1>16. InKept(x, HasCome(steps), t.buffer, t.in,
                LastBy(o, steps, Len(t.received)))
    BY <1>1, <1>2, <1>8, <1>10, <1>12 DEF InKept
  <1>17. Loaded(e, t, o, x)
    <2>1. Silent(t, ToSend(steps))
      BY <1>1, <1>2, <1>8, <1>10 DEF Silent, Kept
    <2> QED BY <1>9, <1>10, <1>11, <1>13, <1>15, <1>16, <2>1 DEF Loaded
  <1> QED BY <1>4, <1>17, DoHandshake DEF s, t, g, o

\* What it has not taken stays under way, before what has not come.
LEMMA PutsBack ==
    ASSUME NEW e \in Ends, NEW me, NEW out, NEW you, NEW w,
           Pair(e, me, out, you, w), me.open, NEW n \in 0..Len(w),
           NEW t, Going(e, t, Around(e, you, w, n))
    PROVE  /\ Pair(e, AtRest(t), t.out, you, t.in \o After(w, n))
           /\ Alike(t, AtRest(t))
  <1> DEFINE x == Around(e, you, w, n)
             u == AtRest(t)
             left == After(w, n)
             d == Outgoing(Peer(e), you)
             b == Outgoing(e, t)
  <1>1. /\ Fit(Peer(e), you) /\ Peer(e) \in Ends /\ you \in Machines
        /\ w \in Seq(Bytes) /\ Len(w) \in Nat /\ n \in Nat /\ n <= Len(w)
        /\ Len(w) <= WireCapacity /\ RecordLength <= WireCapacity
        /\ ~you.peerGone
    BY DEF Pair, Way, Fit, Local, Peer, Ends
  <1>2. left \in Seq(Bytes) /\ Len(left) = Len(w) - n
    BY <1>1, AfterElements
  <1>3. /\ Partial(you) \in Seq(Bytes) /\ d \in Seq(Bytes)
        /\ you.buffer \in Seq(Bytes)
    BY <1>1, EndTypes DEF Machines
  <1>4. /\ x.before = Partial(you) \o you.buffer /\ x.read = LastRead(you)
        /\ x.heard = ~Closing(you) /\ x.gone = ~you.open
        /\ x.reported = Len(you.received)
        /\ x.rest = left \o d /\ x.written = you.written
        /\ x.closing = Closing(you) /\ x.room = n
    BY DEF Around
  <1> HIDE DEF x, left
  <1>5. Base(t, x) /\ Keeping(e, t, x)
    <2>1. Base(t, x)
      BY DEF Going, Resting, Loaded, x
    <2> QED BY <2>1, GoingIs DEF x
  <1>6. /\ t \in Machines /\ Fit(e, t)
        /\ t.out \in Seq(Bytes) /\ t.in \in Seq(Bytes)
        /\ t.buffer \in Seq(Bytes)
        /\ Len(t.out) <= WireCapacity /\ Len(t.in) <= n
        /\ Len(t.received) <= you.written
        /\ Len(you.received) <= t.written
    BY <1>4, <1>5 DEF Base, Keeping, Fit, Local, Machines
  <1>7. Partial(t) \in Seq(Bytes) /\ b \in Seq(Bytes)
    BY <1>6, EndTypes
  <1>8. /\ Alike(t, u) /\ u.out = <<>> /\ u.in = <<>>
        /\ u.peerGone = t.peerGone
    <2>1. <<>> \in Seq(Bytes)
      BY Concat
    <2>2. t.raised = "socket" => t.peerGone
      BY <1>6 DEF Fit, Local
    <2> QED BY <1>6, <2>1, <2>2 DEF AtRest, Alike, Machines
  <1> HIDE DEF u
  <1>9. /\ Fit(e, u) /\ Partial(u) = Partial(t) /\ Outgoing(e, u) = b
        /\ Closing(u) = Closing(t) /\ LastRead(u) = LastRead(t)
        /\ u.buffer = t.buffer /\ u.written = t.written
        /\ u.received = t.received /\ u.connected = t.connected
    BY <1>6, <1>8, AlikeIs DEF Alike
  <1> HIDE DEF b, d
  <1>10. /\ t.in \o left \in Seq(Bytes)
         /\ Len(t.in \o left) <= Len(w)
         /\ Len(t.in \o left) <= WireCapacity
    <2>1. /\ t.in \o left \in Seq(Bytes)
          /\ Len(t.in \o left) = Len(t.in) + Len(left)
      BY <1>2, <1>6, ConcatProperties
    <2>2. Len(t.in) \in Nat /\ WireCapacity \in Nat
      BY <1>6, SizesAssumption
    <2> QED BY <1>1, <1>2, <1>6, <2>1, <2>2
  <1>14. /\ u.peerGone => ~you.open
         /\ ~u.connected /\ b # <<>> => t.out = <<>>
    BY <1>4, <1>5, <1>8, <1>9 DEF Base, Keeping, Silent, b
  <1>15. ~you.connected /\ d # <<>> => t.in \o left = <<>>
    <2>1. ~you.connected /\ d # <<>> => w = <<>>
      BY DEF Pair, Way, d
    <2>2. w = <<>> => Len(t.in \o left) = 0
      BY <1>1, <1>10
    <2> QED BY <1>10, <2>1, <2>2
  <1>11. Way(e, u, t.out, you)
    <2> SUFFICES ASSUME ~Closing(you)
                 PROVE  Stream(Partial(you) \o (you.buffer \o (t.out \o b)),
                               LastRead(you), t.written, Closing(t))
      BY <1>6, <1>9, <1>14 DEF Way
    <2>1. Stream((Partial(you) \o you.buffer) \o (t.out \o b), LastRead(you),
                 t.written, Closing(t))
      BY <1>4, <1>5 DEF Keeping, OutKept, b
    <2>2. t.out \o b \in Seq(Bytes)
      BY <1>6, <1>7, Concat
    <2>3. (Partial(you) \o you.buffer) \o (t.out \o b)
            = Partial(you) \o (you.buffer \o (t.out \o b))
      BY <1>3, <2>2, Assoc
    <2> QED BY <2>1, <2>3, Zenon
  <1>12. Way(Peer(e), you, t.in \o left, u)
    <2> SUFFICES ASSUME ~Closing(t)
                 PROVE  Stream(Partial(t) \o
                                  (t.buffer \o ((t.in \o left) \o d)),
                               LastRead(t), you.written, Closing(you))
      BY <1>1, <1>6, <1>9, <1>15 DEF Way, d
    <2>1. Stream(Partial(t) \o (t.buffer \o (t.in \o (left \o d))),
                 LastRead(t), you.written, Closing(you))
      BY <1>4, <1>5 DEF Keeping, InKept
    <2>2. (t.in \o left) \o d = t.in \o (left \o d)
      <3>1. t.in \in Seq(Bytes) /\ left \in Seq(Bytes) /\ d \in Seq(Bytes)
        BY <1>2, <1>3, <1>6
      <3> QED BY <3>1, Assoc, Zenon
    <2> QED BY <2>1, <2>2, Zenon
  <1>13. Pair(e, u, t.out, you, t.in \o left)
    BY <1>1, <1>6, <1>9, <1>10, <1>11, <1>12 DEF Pair
  <1> QED BY <1>8, <1>13 DEF u, left

LEMMA PeerIs ==
    /\ \A e \in Ends : Peer(e) \in Ends /\ Peer(e) # e /\ Peer(Peer(e)) = e
    /\ \A e, f \in Ends : f = e \/ f = Peer(e)
  BY EndsAssumption DEF Ends, Peer

LEMMA PairTurned ==
    ASSUME NEW e \in Ends, NEW me, NEW out, NEW you, NEW w,
           Pair(e, me, out, you, w)
    PROVE  Pair(Peer(e), you, w, me, out)
  <1>1. Peer(Peer(e)) = e
    BY PeerIs
  <1> QED BY <1>1 DEF Pair

-----------------------------------------------------------------------------
(***************************************************************************)
(* The invariant, step by step.                                            *)
(***************************************************************************)
Bound(e) ==
    /\ fired[e] # {} => end[e].started
    /\ "read" \in fired[e] => end[e].open

LEMMA InvIs ==
    Inv <=> /\ TypeOK
            /\ \A e \in Ends :
                  /\ Pair(e, end[e], wire[e], end[Peer(e)], wire[Peer(e)])
                  /\ Bound(e)
  <1>1. \A e \in Ends : Peer(e) \in Ends /\ Peer(Peer(e)) = e
    BY PeerIs
  <1>2. ASSUME TypeOK
        PROVE  \A e \in Ends : wire[e] \in Seq(Bytes)
    BY <1>2 DEF TypeOK
  <1>3. Client \in Ends
    BY DEF Ends
  <1> QED BY <1>1, <1>2, <1>3 DEF Inv, Pair, Bound

LEMMA WithIs ==
    ASSUME NEW e \in Ends, NEW n, NEW reset
    PROVE  With(e, n, reset)
             = AtWork(end[e], wire[e], end[Peer(e)], wire[Peer(e)], n, reset)
  BY DEF With, AtWork

\* A turn of an end that leaves it going keeps the two ends as they are.
LEMMA TurnKeeps ==
    ASSUME Inv, NEW e \in Ends, end[e].open, NEW n \in 0..Len(wire[Peer(e)]), 
           NEW t, Becomes(e, n, t),
           Goes(e, t, Around(e, end[Peer(e)], wire[Peer(e)], n))
    PROVE  /\ end' \in [Ends -> Machines] /\ wire' \in [Ends -> Seq(Bytes)]
           /\ \A f \in Ends :
                 Pair(f, end'[f], wire'[f], end'[Peer(f)], wire'[Peer(f)])
           /\ end'[Peer(e)] = end[Peer(e)] /\ end'[e].started
  <1> DEFINE p == Peer(e)
             u == AtRest(t)
             w == t.in \o After(wire[p], n)
  <1>1. p \in Ends /\ p # e /\ Peer(p) = e /\ \A f \in Ends : f = e \/ f = p
    BY PeerIs
  <1>2. /\ end \in [Ends -> Machines] /\ wire \in [Ends -> Seq(Bytes)]
        /\ Pair(e, end[e], wire[e], end[p], wire[p])
    BY InvIs DEF TypeOK
  <1>3. Pair(e, u, t.out, end[p], w) /\ Alike(t, u) /\ t.started
    BY <1>2, PutsBack DEF Goes
  <1>4. end' = [end EXCEPT ![e] = u]
    BY DEF Becomes, AtRest
  <1>5. wire' = [wire EXCEPT ![e] = t.out, ![p] = w]
    BY <1>1, <1>2 DEF Becomes
  <1> HIDE DEF p, u, w
  <1>6. /\ end'[e] = u /\ end'[p] = end[p]
        /\ wire'[e] = t.out /\ wire'[p] = w
    BY <1>1, <1>2, <1>4, <1>5
  <1>7. u \in Machines /\ w \in Seq(Bytes) /\ t.out \in Seq(Bytes)
        /\ u.started
    BY <1>3 DEF Pair, Fit, Local, Alike
  <1>8. end' \in [Ends -> Machines] /\ wire' \in [Ends -> Seq(Bytes)]
    BY <1>1, <1>2, <1>4, <1>5, <1>7
  <1>9. Pair(p, end[p], w, u, t.out)
    BY <1>3, PairTurned DEF p
  <1>10. ASSUME NEW f \in Ends
         PROVE  Pair(f, end'[f], wire'[f], end'[Peer(f)], wire'[Peer(f)])
    <2>1. CASE f = e
      BY <1>3, <1>6, <2>1 DEF p
    <2>2. CASE f = p
      BY <1>1, <1>6, <1>9, <2>2
    <2> QED BY <1>1, <2>1, <2>2
  <1> QED BY <1>6, <1>7, <1>8, <1>10 DEF p

LEMMA InvNext ==
    ASSUME end' \in [Ends -> Machines], wire' \in [Ends -> Seq(Bytes)],
           fired' \in [Ends -> SUBSET {"read", "write"}],
           \A f \in Ends :
              /\ Pair(f, end'[f], wire'[f], end'[Peer(f)], wire'[Peer(f)])
              /\ fired'[f] # {} => end'[f].started
              /\ "read" \in fired'[f] => end'[f].open
    PROVE  Inv'
  <1>1. \A e \in Ends : Peer(e) \in Ends /\ Peer(Peer(e)) = e
    BY PeerIs
  <1>2. TypeOK'
    BY DEF TypeOK
  <1>3. ASSUME NEW e \in Ends
        PROVE  /\ Fit(e, end'[e])
               /\ Way(e, end'[e], wire'[e], end'[Peer(e)])
               /\ Len(wire'[e]) <= WireCapacity
    BY DEF Pair
  <1>4. RecordLength <= WireCapacity
    BY DEF Pair, Ends
  <1> QED BY <1>2, <1>3, <1>4 DEF Inv

LEMMA ResetsIs ==
    ASSUME NEW e \in Ends, NEW reset \in Resets(e)
    PROVE  reset \in BOOLEAN /\ (reset => ~end[Peer(e)].open)
  BY DEF Resets

\* An end with a select behind it handles its events.
LEMMA EventKeeps ==
    ASSUME Inv, NEW e \in Ends, NEW n \in 0..Len(wire[Peer(e)]), NEW t,
           NEW reset \in Resets(e), Becomes(e, n, t), end[e].started, end[e].open,
           NEW left \in SUBSET {"read", "write"}, "read" \notin left,
           fired' = [fired EXCEPT ![e] = left],
           \A x : Goes(e, With(e, n, reset), x) /\ With(e, n, reset).open
                     => Goes(e, t, x)
    PROVE  Inv'
  <1> DEFINE p == Peer(e)
             me == With(e, n, reset)
             x == Around(e, end[p], wire[p], n)
  <1>1. p \in Ends /\ p # e /\ \A f \in Ends : f = e \/ f = p
    BY PeerIs
  <1>2. /\ TypeOK /\ Pair(e, end[e], wire[e], end[p], wire[p]) /\ Bound(p)
    BY <1>1, InvIs
  <1>3. Going(e, me, x) /\ Alike(end[e], me)
    BY <1>2, WithIs, ResetsIs, TakesUp
  <1>4. Goes(e, me, x) /\ me.open
    BY <1>3 DEF Goes, Alike
  <1>5. Goes(e, t, x)
    BY <1>4
  <1>6. /\ end' \in [Ends -> Machines] /\ wire' \in [Ends -> Seq(Bytes)]
        /\ \A f \in Ends :
              Pair(f, end'[f], wire'[f], end'[Peer(f)], wire'[Peer(f)])
        /\ end'[p] = end[p] /\ end'[e].started
    BY <1>5, TurnKeeps
  <1> HIDE DEF p, me, x
  <1>7. /\ fired' \in [Ends -> SUBSET {"read", "write"}]
        /\ fired'[e] = left /\ fired'[p] = fired[p]
    BY <1>1, <1>2 DEF TypeOK
  <1>8. ASSUME NEW f \in Ends
        PROVE  /\ fired'[f] # {} => end'[f].started
               /\ "read" \in fired'[f] => end'[f].open
    BY <1>1, <1>2, <1>6, <1>7 DEF Bound
  <1> QED BY <1>6, <1>7, <1>8, InvNext

LEMMA SetHandshakeKeeps ==
    ASSUME Inv, NEW e \in Ends, SetHandshakeOp(e)
    PROVE  Inv'
  <1>0. PICK reset \in Resets(e) :
           LET me == [With(e, 0, reset) EXCEPT !.started = TRUE]
           IN  Becomes(e, 0, IF Sound(me, 0)
                             THEN _doHandshakeOp([me EXCEPT !.op["handshaker"]
                                                        = handshakeAsync(e)])
                             ELSE Raises(me, "assertion"))
    BY DEF SetHandshakeOp
  <1> DEFINE p == Peer(e)
             me == With(e, 0, reset)
             x == Around(e, end[p], wire[p], 0)
             s == [me EXCEPT !.started = TRUE]
             go == _doHandshakeOp([s EXCEPT !.op["handshaker"]
                                       = handshakeAsync(e)])
  <1>1. p \in Ends /\ p # e /\ \A f \in Ends : f = e \/ f = p
    BY PeerIs
  <1>2. /\ TypeOK /\ Pair(e, end[e], wire[e], end[p], wire[p])
        /\ Bound(p) /\ Bound(e)
        /\ 0 \in 0..Len(wire[p])
    <2>1. TypeOK /\ Pair(e, end[e], wire[e], end[p], wire[p])
          /\ Bound(p) /\ Bound(e)
      BY <1>1, InvIs
    <2>2. wire[p] \in Seq(Bytes)
      BY <1>1, <2>1 DEF TypeOK
    <2> QED BY <2>1, <2>2
  <1>3. Going(e, me, x) /\ Alike(end[e], me)
    BY <1>2, WithIs, ResetsIs, TakesUp
  <1>4. /\ ~me.started /\ Fit(e, me)
    <2>1. Base(me, x)
      BY <1>3 DEF Going, Resting, Loaded
    <2>2. Fit(e, me)
      BY <1>3, <2>1, GoingIs DEF Keeping
    <2> QED BY <1>3, <2>2 DEF SetHandshakeOp, Alike
  <1>5. Resting(e, me, x)
    <2>1. me.result = NoResult
      BY <1>4 DEF Fit, Working
    <2> QED BY <1>3, <2>1 DEF Going
  <1>6. Sound(s, 0) /\ Goes(e, go, x)
    <2> HIDE DEF me, x
    <2> QED BY <1>4, <1>5, StartsHandshake
  <1>7. /\ Becomes(e, 0, IF Sound(s, 0) THEN go
                         ELSE Raises(s, "assertion"))
        /\ fired' = fired
    BY <1>0 DEF SetHandshakeOp
  <1> HIDE DEF s, go
  <1>8. PICK t : t = go
    OBVIOUS
  <1>9. Becomes(e, 0, t) /\ Goes(e, t, x) /\ end[e].open
    <2>1. me.open
      BY <1>4 DEF Fit, Local, Machines
    <2> QED BY <1>3, <1>6, <1>7, <1>8, <2>1 DEF Alike
  <1>10. /\ end' \in [Ends -> Machines] /\ wire' \in [Ends -> Seq(Bytes)]
         /\ \A f \in Ends :
               Pair(f, end'[f], wire'[f], end'[Peer(f)], wire'[Peer(f)])
         /\ end'[p] = end[p] /\ end'[e].started
    BY <1>2, <1>9, TurnKeeps
  <1> HIDE DEF p, me, x
  <1>11. fired' \in [Ends -> SUBSET {"read", "write"}] /\ fired[e] = {}
    BY <1>2, <1>7 DEF TypeOK, Bound, SetHandshakeOp
  <1>12. ASSUME NEW f \in Ends
         PROVE  /\ fired'[f] # {} => end'[f].started
                /\ "read" \in fired'[f] => end'[f].open
    BY <1>1, <1>2, <1>7, <1>10, <1>11 DEF Bound
  <1> QED BY <1>10, <1>11, <1>12, InvNext

LEMMA SelectKeeps ==
    ASSUME Inv, NEW e \in Ends, Select(e)
    PROVE  Inv'
  <1>1. /\ TypeOK /\ \A f \in Ends :
              /\ Pair(f, end[f], wire[f], end[Peer(f)], wire[Peer(f)])
              /\ Bound(f)
    BY InvIs
  <1>2. /\ end' = end /\ wire' = wire
        /\ fired' = [fired EXCEPT ![e] = Events(e)]
        /\ Events(e) \in SUBSET {"read", "write"}
        /\ end[e].started /\ end[e].open
    BY DEF Select, Events
  <1>3. /\ fired' \in [Ends -> SUBSET {"read", "write"}]
        /\ \A f \in Ends : fired'[f] = IF f = e THEN Events(e) ELSE fired[f]
    BY <1>1, <1>2 DEF TypeOK
  <1>4. ASSUME NEW f \in Ends
        PROVE  /\ fired'[f] # {} => end'[f].started
               /\ "read" \in fired'[f] => end'[f].open
    BY <1>1, <1>2, <1>3 DEF Bound
  <1>5. end' \in [Ends -> Machines] /\ wire' \in [Ends -> Seq(Bytes)]
    BY <1>1, <1>2 DEF TypeOK
  <1> QED BY <1>1, <1>2, <1>3, <1>4, <1>5, InvNext

LEMMA HandleReadKeeps ==
    ASSUME Inv, NEW e \in Ends, HandleRead(e)
    PROVE  Inv'
  <1>1. PICK n \in 0..Len(wire[Peer(e)]), reset \in Resets(e) :
           Becomes(e, n, inReadEvent(With(e, n, reset)))
    BY DEF HandleRead
  <1>2. /\ "read" \in fired[e]
        /\ fired' = [fired EXCEPT ![e] = @ \ {"read"}]
    BY DEF HandleRead
  <1>3. /\ end[e].started /\ end[e].open
        /\ fired[e] \in SUBSET {"read", "write"}
    BY <1>2 DEF Inv, TypeOK
  <1>4. PICK t : t = inReadEvent(With(e, n, reset))
    OBVIOUS
  <1>5. \A x : Goes(e, With(e, n, reset), x) /\ With(e, n, reset).open
                  => Goes(e, t, x)
    BY <1>4, InReadGoes
  <1>6. Becomes(e, n, t)
    BY <1>1, <1>4
  <1>7. PICK left : left = fired[e] \ {"read"}
    OBVIOUS
  <1>8. /\ left \in SUBSET {"read", "write"} /\ "read" \notin left
        /\ fired' = [fired EXCEPT ![e] = left]
    BY <1>2, <1>3, <1>7
  <1> QED BY <1>3, <1>5, <1>6, <1>8, EventKeeps

LEMMA HandleWriteKeeps ==
    ASSUME Inv, NEW e \in Ends, HandleWrite(e)
    PROVE  Inv'
  <1>1. fired[e] = {"write"} /\ fired' = [fired EXCEPT ![e] = {}]
    BY DEF HandleWrite
  <1>2. end[e].started
    BY <1>1 DEF Inv
  <1>3. CASE end[e].open
    <2>1. PICK n \in 0..Len(wire[Peer(e)]), reset \in Resets(e) :
             Becomes(e, n, inWriteEvent(With(e, n, reset)))
      BY <1>3 DEF HandleWrite
    <2>2. PICK t : t = inWriteEvent(With(e, n, reset))
      OBVIOUS
    <2>3. \A x : Goes(e, With(e, n, reset), x) /\ With(e, n, reset).open
                    => Goes(e, t, x)
      BY <2>2, InWriteGoes
    <2>4. Becomes(e, n, t) /\ {} \in SUBSET {"read", "write"}
      BY <2>1, <2>2
    <2> QED BY <1>1, <1>2, <1>3, <2>3, <2>4, EventKeeps
  <1>4. CASE ~end[e].open
    <2>1. /\ TypeOK /\ \A f \in Ends :
                /\ Pair(f, end[f], wire[f], end[Peer(f)], wire[Peer(f)])
                /\ Bound(f)
      BY InvIs
    <2>2. end' = end /\ wire' = wire
      BY <1>4 DEF HandleWrite
    <2>3. /\ fired' \in [Ends -> SUBSET {"read", "write"}]
          /\ \A f \in Ends : fired'[f] = IF f = e THEN {} ELSE fired[f]
      BY <1>1, <2>1 DEF TypeOK
    <2>4. ASSUME NEW f \in Ends
          PROVE  /\ fired'[f] # {} => end'[f].started
                 /\ "read" \in fired'[f] => end'[f].open
      BY <2>1, <2>2, <2>3 DEF Bound
    <2>5. end' \in [Ends -> Machines] /\ wire' \in [Ends -> Seq(Bytes)]
      BY <2>1, <2>2 DEF TypeOK
    <2> QED BY <2>1, <2>2, <2>3, <2>4, <2>5, InvNext
  <1> QED BY <1>3, <1>4

LEMMA InvStep == Inv /\ [Next]_vars => Inv'
  <1> SUFFICES ASSUME Inv, [Next]_vars
               PROVE  Inv'
    OBVIOUS
  <1>1. ASSUME NEW e \in Ends, SetHandshakeOp(e)
        PROVE  Inv'
    BY <1>1, SetHandshakeKeeps
  <1>2. ASSUME NEW e \in Ends, Select(e)
        PROVE  Inv'
    BY <1>2, SelectKeeps
  <1>3. ASSUME NEW e \in Ends, HandleRead(e)
        PROVE  Inv'
    BY <1>3, HandleReadKeeps
  <1>4. ASSUME NEW e \in Ends, HandleWrite(e)
        PROVE  Inv'
    BY <1>4, HandleWriteKeeps
  <1>5. CASE UNCHANGED vars
    BY <1>5 DEF vars, Inv, TypeOK
  <1> QED BY <1>1, <1>2, <1>3, <1>4, <1>5 DEF Next, Loop

LEMMA StartIs ==
    ASSUME NEW e \in Ends,
           NEW app \in [writes : Nat, answers : BOOLEAN, closes : BOOLEAN]
    PROVE  LET me == Start(e, app)
           IN  /\ Fit(e, me) /\ me.peerGone = FALSE /\ me.result = NoResult /\ ~me.started
               /\ ~me.connected /\ me.closed = FALSE
               /\ me.received = <<>> /\ me.written = 0 /\ me.buffer = <<>>
  <1> DEFINE me == Start(e, app)
  <1>1. me \in Machines
    <2>1. <<>> \in Seq(Bytes) /\ <<>> \in Seq(Nat) /\ app.writes \in Nat
      BY Concat
    <2> QED BY <2>1, NoOpIs DEF Start, Machines, NoResult
  <1>2. /\ me.result = NoResult /\ me.started = FALSE
        /\ me.connected = FALSE /\ me.closed = FALSE /\ me.open = TRUE
        /\ me.raised = "no" /\ me.received = <<>> /\ me.written = 0
        /\ me.buffer = <<>> /\ me.peerGone = FALSE /\ me.reset = FALSE
        /\ me.op = [o \in Operations |-> NoOp]
    BY DEF Start
  <1> HIDE DEF me
  <1>3. Local(me) /\ AllOff(me)
    <2>1. AllOff(me)
      BY <1>2 DEF AllOff
    <2>2. \A i \in 1..Len(me.received) : me.received[i] = i
      BY <1>2
    <2> QED BY <1>1, <1>2, <2>1, <2>2 DEF Local
  <1>4. Fit(e, me)
    BY <1>2, <1>3 DEF Fit
  <1> QED BY <1>2, <1>4 DEF me

LEMMA InvInit == Init /\ RecordLength <= WireCapacity => Inv
  <1> SUFFICES ASSUME Init, RecordLength <= WireCapacity
               PROVE  Inv
    OBVIOUS
  <1>1. PICK apps \in Applications :
           end = [e \in Ends |-> Start(e, apps[e])]
    BY DEF Init
  <1>2. /\ wire = [e \in Ends |-> <<>>] /\ fired = [e \in Ends |-> {}]
    BY DEF Init
  <1>3. ASSUME NEW e \in Ends
        PROVE  /\ Fit(e, end[e]) /\ ~end[e].peerGone /\ end[e].result = NoResult
               /\ ~end[e].started /\ ~end[e].connected
               /\ end[e].closed = FALSE /\ end[e].received = <<>>
               /\ end[e].written = 0 /\ end[e].buffer = <<>>
    <2>1. apps[e] \in [writes : Nat, answers : BOOLEAN, closes : BOOLEAN]
      BY <1>1, ApplicationsAssumption
    <2> DEFINE me == Start(e, apps[e])
    <2>2. end[e] = me
      BY <1>1
    <2>3. /\ Fit(e, me) /\ ~me.peerGone /\ me.result = NoResult /\ ~me.started
          /\ ~me.connected /\ me.closed = FALSE
          /\ me.received = <<>> /\ me.written = 0 /\ me.buffer = <<>>
      BY <2>1, StartIs
    <2> HIDE DEF me
    <2> QED BY <2>2, <2>3
  <1>4. TypeOK
    <2>1. <<>> \in Seq(Bytes)
      BY Concat
    <2>2. \A e \in Ends : end[e] \in Machines
      BY <1>3 DEF Fit, Local
    <2> QED BY <1>1, <1>2, <2>1, <2>2 DEF TypeOK
  <1>5. ASSUME NEW e \in Ends
        PROVE  Way(e, end[e], wire[e], end[Peer(e)])
    <2> DEFINE you == end[Peer(e)]
    <2>1. Peer(e) \in Ends
      BY PeerIs
    <2>2. /\ Partial(you) = <<>> /\ you.buffer = <<>> /\ LastRead(you) = -1
          /\ you.received = <<>>
      BY <1>3, <2>1 DEF Partial, LastRead
    <2>3. /\ Outgoing(e, end[e]) = Hello(e) /\ Closing(end[e]) = FALSE
          /\ end[e].written = 0 /\ wire[e] = <<>>
      BY <1>2, <1>3 DEF Outgoing, Closing
    <2>4. Hello(e) \in Seq(Bytes) /\ Stream(Hello(e), -1, 0, FALSE)
      BY HelloStream, RecordElements DEF Hello
    <2>5. <<>> \o (<<>> \o (<<>> \o Hello(e))) = Hello(e)
      BY <2>4, Concat
    <2> HIDE DEF you
    <2>6. Stream(Partial(you) \o (you.buffer \o (wire[e] \o
                    Outgoing(e, end[e]))), LastRead(you), end[e].written,
                 Closing(end[e]))
      BY <2>2, <2>3, <2>4, <2>5
    <2>7. Len(you.received) <= end[e].written
      BY <2>2, <2>3
    <2>8. ~end[e].peerGone /\ wire[e] = <<>>
      BY <1>3, <2>3
    <2> QED BY <2>6, <2>7, <2>8 DEF Way, you
  <1>6. \A e \in Ends : fired[e] = {} /\ Len(wire[e]) <= WireCapacity
    BY <1>2, SizesAssumption
  <1> QED BY <1>3, <1>4, <1>5, <1>6 DEF Inv

-----------------------------------------------------------------------------
(***************************************************************************)
(* A wire that is shorter than a record: the client's first flight does    *)
(* not fit, its handshake fails with what fits under way, and the server,  *)
(* which never has a whole record, waits for one until that has come.      *)
(***************************************************************************)
Handshaking(me) == me.op["handshaker"]

Unused(me) ==
    /\ me.buffer = <<>> /\ me.received = <<>> /\ ~me.connected

Unbegun(me) ==
    /\ Unused(me) /\ AllOff(me) /\ me.result = NoResult
    /\ ~me.started /\ me.open /\ me.raised = "no"

\* b has come of the record that the end wants.
WaitsWith(me, b) ==
    /\ Unused(me) /\ OnlyOn(me, "handshaker") /\ me.result = "read"
    /\ Handshaking(me).steps = <<Had(b), Flushes("hello", 2)>>
    /\ me.started /\ me.open /\ me.raised = "no"

\* The handshake has failed, for one of the causes.
FailedBy(me, causes) ==
    /\ me.received = <<>> /\ ~me.connected
    /\ me.started /\ ~me.open /\ me.raised \in causes

\* What the client has sent does not make a record.
Wanting(me, w) ==
    \/ Unbegun(me) /\ Len(w) < RecordLength
    \/ \E b \in Parts : WaitsWith(me, b) /\ Len(b) + Len(w) < RecordLength

Narrow ==
    /\ TypeOK
    /\ wire[Server] = <<>> /\ fired[Client] = {}
    /\ fired[Server] # {} =>
           fired[Server] = {"read"} /\ end[Server].started /\ end[Server].open
    /\ \/ /\ Unbegun(end[Client]) /\ wire[Client] = <<>>
          /\ Unbegun(end[Server]) \/ WaitsWith(end[Server], <<>>)
       \/ /\ FailedBy(end[Client], {"socket"})
          /\ \/ Wanting(end[Server], wire[Client])
             \/ FailedBy(end[Server], {"socket", "abrupt"})

\* A machine as a generator that runs finds it.
LEMMA RunOfMachine ==
    ASSUME NEW me \in Machines, NEW o \in Operations
    PROVE  LET run == RunOf(me, o)
           IN  /\ run \in Runs
               /\ run.steps = me.op[o].steps /\ run.out = me.out
               /\ run.in = me.in /\ run.buffer = me.buffer
               /\ run.peerGone = me.peerGone /\ run.reset = me.reset
               /\ run.ended = me.ended
               /\ run.record = me.op[o].record /\ run.yields = "none"
  <1>1. me.op[o] \in Generators
    BY DEF Machines
  <1> QED BY <1>1 DEF RunOf, Runs, Machines, Generators, NoResult

\* The flight does not fit, and the handshake fails at its socket.
LEMMA FlightFails ==
    ASSUME RecordLength > WireCapacity, NEW me \in Machines,
           Handshaking(me).steps = <<Flushes("hello", 1), Reads>>,
           me.out = <<>>, ~me.peerGone, ~me.reset
    PROVE  LET t == _doHandshakeOp(me)
           IN  /\ t \in Machines /\ t.in = me.in
               /\ Len(t.out) < RecordLength
               /\ t.raised = "socket" /\ ~t.open /\ t.started = me.started
               /\ t.connected = me.connected /\ t.received = me.received
  <1> DEFINE o == "handshaker"
             z == RecordBytes("hello", 1)
             run == RunOf(me, o)
             r == Advance(run)
             R == Running(me, o)
  <1>1. o \in Operations
    BY DEF Operations
  <1>2. /\ run \in Runs /\ run.out = <<>> /\ run.in = me.in
        /\ run.steps = <<Flushes("hello", 1), Reads>>
        /\ ~run.peerGone /\ ~run.reset /\ run.yields = "none"
    BY <1>1, RunOfMachine DEF Handshaking
  <1>3. /\ Flushes("hello", 1) = Flushed(z) /\ z \in Parts
        /\ Flushes("hello", 1) \in StepsToDo /\ Reads \in StepsToDo
        /\ Len(z) = RecordLength
    BY ToFlushAndReadIs, RecordElements
  <1>4. Has(run, Flushed(z), <<Reads>>) /\ <<Reads>> \in Seq(StepsToDo)
    <2>1. Len(run.out) <= WireCapacity
      BY <1>2, SizesAssumption
    <2> HIDE DEF run, z
    <2> QED BY <1>2, <1>3, <2>1, FirstOfSteps DEF Has
  <1> HIDE DEF run, z
  <1>5. HasSent(run, r, "flush", z, <<Reads>>)
    BY <1>2, <1>3, <1>4, AdvanceSends DEF Flushed
  <1>6. /\ r \in Runs /\ Len(r.out) <= WireCapacity /\ r.in = me.in
        /\ r.yields = "socket"
    <2>1. run.out \o z = z
      BY <1>2, <1>3, Concat DEF Parts
    <2>2. r.out # z
      BY <1>3, <1>5, SizesAssumption DEF HasSent
    <2> QED BY <1>2, <1>5, <2>1, <2>2 DEF HasSent
  <1> HIDE DEF r
  <1>7. RunAfter(me, o) = r
    <2>1. Advance(r) = r
      BY <1>6, Stays
    <2> QED BY <2>1 DEF RunAfter, Resume, r, run
  <1>8. Failed(me, R, r)
    BY <1>1, <1>6, <1>7, RaisedIs
  <1> HIDE DEF R
  <1>9. Len(r.out) < RecordLength
    <2>1. r.out \in Seq(Bytes)
      BY <1>6 DEF Runs
    <2>2. Len(r.out) \in Nat
      BY <2>1
    <2> QED BY <1>6, <2>2, SizesAssumption
  <1>10. _doHandshakeOp(me) = R.me
    BY <1>8 DEF _doHandshakeOp, Failed, R
  <1> QED BY <1>6, <1>8, <1>9, <1>10 DEF Failed

\* What has come does not make a record: the end waits on, or its handshake
\* fails where the peer has closed.
LEMMA ReadWaits ==
    ASSUME NEW me \in Machines, NEW b \in Parts,
           Unused(me), OnlyOn(me, "handshaker"),
           Handshaking(me).steps = <<Had(b), Flushes("hello", 2)>>,
           me.started, me.open, me.raised = "no",
           Len(b) + Len(me.in) < RecordLength
    PROVE  LET t == _doHandshakeOp(me)
           IN  /\ t \in Machines /\ t.out = me.out
               /\ \/ FailedBy(t, {"socket", "abrupt"})
                     /\ (me.reset \/ me.ended)
                  \/ WaitsWith(t, b \o me.in) /\ t.in = <<>>
  <1> DEFINE o == "handshaker"
             run == RunOf(me, o)
             r == Advance(run)
             R == Running(me, o)
             have == b \o me.in
             hello == Flushes("hello", 2)
             taken == [run EXCEPT !.buffer = After(have, RecordLength),
                                  !.in = <<>>]
             steps == <<Had(have), hello>>
             next == [taken EXCEPT !.steps = steps,
                                   !.yields = IF run.ended THEN "abrupt"
                                                           ELSE "read"]
             fails == [run EXCEPT !.yields = "socket"]
  <1>1. o \in Operations
    BY DEF Operations
  <1>2. /\ run \in Runs /\ run.out = me.out /\ run.in = me.in
        /\ run.buffer = <<>> /\ run.steps = <<Had(b), hello>>
        /\ run.reset = me.reset /\ run.ended = me.ended
        /\ run.yields = "none"
    BY <1>1, RunOfMachine DEF Handshaking, Unused
  <1>3. /\ b \in Seq(Bytes) /\ me.in \in Seq(Bytes)
        /\ Len(b) \in Nat /\ Len(me.in) \in Nat
    BY DEF Parts, Machines
  <1>4. have \in Parts /\ After(have, RecordLength) = <<>>
    <2>1. have \in Seq(Bytes) /\ Len(have) = Len(b) + Len(me.in)
      BY <1>3
    <2> HIDE DEF have
    <2>2. Len(have) \in Int /\ Len(have) < RecordLength + 1
          /\ RecordLength + 1 \in Int /\ Len(have) <= RecordLength
          /\ Len(have) \in Nat
      BY <1>3, <2>1, SizesAssumption
    <2> QED BY <2>1, <2>2, SubSeqEmpty DEF Parts, After
  <1>5. hello \in StepsToDo /\ Had(b) \in StepsToDo /\ Had(have) \in StepsToDo
    BY <1>4, ToReadIs, ToReadAndFlushIs
  <1>6. r = IF me.reset THEN fails ELSE next
    <2>1. Advance(run) = Receiving(run)
      <3>1. Head(run.steps) = Had(b) /\ run.steps # <<>>
        BY <1>2
      <3> QED BY <1>2, <3>1 DEF Advance, Had
    <2>2. Head(run.steps).bytes = b /\ Tail(run.steps) = <<hello>>
      <3> HIDE DEF run, hello
      <3>1. Head(run.steps) = Had(b) /\ Tail(run.steps) = <<hello>>
        BY <1>2, <1>5, FirstOfSteps
      <3> QED BY <3>1 DEF Had
    <2>3. ~(Len(b) + Len(run.buffer) >= RecordLength)
      BY <1>2, <1>3, SizesAssumption
    <2>4. b \o run.buffer \o run.in = have
      BY <1>2, <1>3, Concat
    <2>5. ~(Len(have) >= RecordLength)
      BY <1>3, SizesAssumption
    <2>6. <<Had(have)>> \o <<hello>> = steps
      BY <1>5, FirstOfSteps
    <2>7. run.reset = me.reset /\ taken.steps = run.steps
      BY <1>2 DEF Runs
    <2> DEFINE enough == Len(b) + Len(run.buffer) >= RecordLength
               got == b \o run.buffer \o (IF enough THEN <<>> ELSE run.in)
               keeps == [run EXCEPT !.buffer = After(got, RecordLength),
                                    !.in = IF enough THEN @ ELSE <<>>]
    <2>8. got = have /\ keeps = taken
      BY <2>3, <2>4
    <2>9. Receiving(run) =
            IF run.reset /\ ~enough THEN fails
            ELSE IF Len(got) >= RecordLength
            THEN [keeps EXCEPT !.steps = AfterRead(got[1], @),
                               !.record = got[1]]
            ELSE [keeps EXCEPT !.steps = <<Had(got)>> \o Tail(@),
                               !.yields = IF run.ended THEN "abrupt"
                                                       ELSE "read"]
      BY <2>2 DEF Receiving, Had
    <2> HIDE DEF run, have, hello, steps, got, keeps, taken, fails
    <2>10. [taken EXCEPT !.steps = <<Had(have)>> \o Tail(@),
                         !.yields = IF run.ended THEN "abrupt" ELSE "read"]
             = next
      BY <2>2, <2>6, <2>7
    <2> HIDE DEF next, enough
    <2> QED BY <2>1, <2>3, <2>5, <2>7, <2>8, <2>9, <2>10 DEF enough
  <1>7. steps \in Seq(StepsToDo)
    BY <1>5, FirstOfSteps
  <1> HIDE DEF run, have, hello, steps
  <1>8. /\ r \in Runs /\ r.out = me.out
        /\ \/ r.yields \in {"socket", "abrupt"} /\ (me.reset \/ me.ended)
           \/ /\ r.yields = "read" /\ r.buffer = <<>> /\ r.in = <<>>
              /\ r.steps = steps
    <2>1. <<>> \in Seq(Bytes)
      BY Concat
    <2>2. /\ taken \in Runs /\ taken.out = me.out /\ taken.buffer = <<>>
          /\ taken.in = <<>> /\ taken.reset = me.reset
      BY <1>2, <1>4, <2>1 DEF Runs
    <2> HIDE DEF taken
    <2>3. CASE me.reset
      BY <1>2, <1>6, <2>3 DEF Runs
    <2>4. CASE ~me.reset
      BY <1>2, <1>6, <1>7, <2>2, <2>4 DEF Runs
    <2> QED BY <2>3, <2>4
  <1> HIDE DEF r
  <1>9. RunAfter(me, o) = r
    <2>1. Advance(r) = r
      BY <1>8, Stays
    <2> QED BY <2>1 DEF RunAfter, Resume, r, run
  <1>10. _doHandshakeOp(me) = IF R.done THEN [R.me EXCEPT !.connected = TRUE]
                                        ELSE R.me
    BY DEF _doHandshakeOp
  <1> HIDE DEF R
  <1>11. CASE r.yields \in {"socket", "abrupt"}
    <2>1. Failed(me, R, r)
      BY <1>1, <1>8, <1>9, <1>11, RaisedIs DEF R
    <2> QED BY <1>8, <1>10, <1>11, <2>1 DEF Failed, FailedBy, Unused
  <1>12. CASE r.yields = "read"
    <2>1. Ran(me, R, r, o)
      BY <1>1, <1>8, <1>9, <1>12, RunningIs DEF R
    <2>2. /\ ~R.done /\ R.me.result = "read" /\ R.me \in Machines
          /\ R.me.in = <<>> /\ R.me.buffer = <<>> /\ R.me.out = me.out
          /\ R.me.op[o].on /\ R.me.op[o].steps = steps
          /\ \A y \in Operations \ {o} : R.me.op[y] = NoOp
          /\ Kept(me, R.me)
      BY <1>8, <1>12, <2>1 DEF Ran, OnlyOn, NoResult
    <2>3. WaitsWith(R.me, have)
      BY <2>2 DEF WaitsWith, Kept, Unused, OnlyOn, Handshaking, steps, hello
    <2> QED BY <1>10, <2>2, <2>3 DEF have
  <1> QED BY <1>8, <1>11, <1>12

\* An end with a select behind it, and what a turn of it leaves.
LEMMA TakenUp ==
    ASSUME TypeOK, NEW e \in Ends, NEW n \in 0..Len(wire[Peer(e)]),
           NEW reset \in BOOLEAN
    PROVE  LET me == With(e, n, reset)
           IN  /\ me \in Machines /\ me.out = wire[e]
               /\ me.in = CutTo(wire[Peer(e)], n)
               /\ me.peerGone = ~end[Peer(e)].open /\ me.reset = reset
               /\ me.ended => ~end[Peer(e)].open
               /\ me.op = end[e].op /\ me.result = end[e].result
               /\ me.connected = end[e].connected
               /\ me.started = end[e].started /\ me.open = end[e].open
               /\ me.raised = end[e].raised /\ me.buffer = end[e].buffer
               /\ me.received = end[e].received
  <1>1. /\ Peer(e) \in Ends /\ end[e] \in Machines
        /\ end[Peer(e)] \in Machines /\ wire[e] \in Seq(Bytes)
        /\ wire[Peer(e)] \in Seq(Bytes)
    BY PeerIs DEF TypeOK
  <1>2. CutTo(wire[Peer(e)], n) \in Seq(Bytes)
    <2>1. n \in Nat /\ n <= Len(wire[Peer(e)])
      BY <1>1
    <2> QED BY <1>1, <2>1, CutAndAfter
  <1>3. PICK gone \in BOOLEAN : gone = ~end[Peer(e)].open
    OBVIOUS
  <1>4. PICK fin \in BOOLEAN :
           fin = (~end[Peer(e)].open /\ n = Len(wire[Peer(e)]))
    OBVIOUS
  <1>5. PICK old, out, in :
           /\ old = end[e] /\ out = wire[e]
           /\ in = CutTo(wire[Peer(e)], n)
    OBVIOUS
  <1>6. PICK me : me = [old EXCEPT !.out = out, !.in = in,
                                   !.peerGone = gone, !.reset = reset,
                                   !.ended = fin]
    OBVIOUS
  <1>7. With(e, n, reset) = me
    BY <1>3, <1>4, <1>5, <1>6, Zenon DEF With
  <1>8. /\ me \in Machines /\ me.out = out /\ me.in = in
        /\ me.peerGone = gone /\ me.reset = reset /\ me.ended = fin
        /\ me.op = old.op /\ me.result = old.result
        /\ me.connected = old.connected
        /\ me.started = old.started /\ me.open = old.open
        /\ me.raised = old.raised /\ me.buffer = old.buffer
        /\ me.received = old.received
    <2>1. old \in Machines /\ out \in Seq(Bytes) /\ in \in Seq(Bytes)
      BY <1>1, <1>2, <1>5
    <2> QED BY <1>6, <2>1 DEF Machines
  <1> QED BY <1>3, <1>4, <1>5, <1>7, <1>8, Zenon

LEMMA TurnLeaves ==
    ASSUME TypeOK, NEW e \in Ends, NEW n \in 0..Len(wire[Peer(e)]),
           NEW t \in Machines, Becomes(e, n, t)
    PROVE  /\ end' \in [Ends -> Machines] /\ wire' \in [Ends -> Seq(Bytes)]
           /\ end'[e] = AtRest(t) /\ end'[Peer(e)] = end[Peer(e)]
           /\ wire'[e] = t.out
           /\ wire'[Peer(e)] = t.in \o After(wire[Peer(e)], n)
  <1> DEFINE p == Peer(e)
             w == t.in \o After(wire[p], n)
  <1>1. /\ p \in Ends /\ p # e
        /\ end \in [Ends -> Machines] /\ wire \in [Ends -> Seq(Bytes)]
    BY PeerIs DEF TypeOK
  <1>2. AtRest(t) \in Machines /\ t.out \in Seq(Bytes)
    BY Concat DEF AtRest, Machines
  <1>3. w \in Seq(Bytes)
    <2>1. PICK v \in Seq(Bytes) : v = wire[p]
      BY <1>1
    <2>2. n \in Nat /\ n <= Len(v)
      BY <2>1
    <2>3. After(v, n) \in Seq(Bytes)
      BY <2>2, AfterElements
    <2>4. t.in \in Seq(Bytes)
      BY DEF Machines
    <2> QED BY <2>1, <2>3, <2>4, Concat
  <1>4. end' = [end EXCEPT ![e] = AtRest(t)]
    BY DEF Becomes, AtRest
  <1>5. wire' = [wire EXCEPT ![e] = t.out, ![p] = w]
    BY <1>1 DEF Becomes
  <1> HIDE DEF w
  <1> QED BY <1>1, <1>2, <1>3, <1>4, <1>5 DEF p, w

LEMMA AtRestIs ==
    ASSUME NEW t \in Machines
    PROVE  /\ \A b : WaitsWith(t, b) => WaitsWith(AtRest(t), b)
           /\ \A causes : FailedBy(t, causes) => FailedBy(AtRest(t), causes)
  <1> DEFINE u == AtRest(t)
  <1>1. /\ u.op = t.op /\ u.result = t.result /\ u.buffer = t.buffer
        /\ u.received = t.received /\ u.connected = t.connected
        /\ u.started = t.started /\ u.open = t.open /\ u.raised = t.raised
    BY DEF AtRest, Machines
  <1> HIDE DEF u
  <1> QED BY <1>1 DEF WaitsWith, FailedBy, Unused, OnlyOn, Handshaking, u

\* The server reads some of what has come.
LEMMA ServerTurn ==
    ASSUME TypeOK, wire[Server] = <<>>,
           NEW n \in 0..Len(wire[Client]), NEW me \in Machines, NEW b \in Parts,
           Unused(me), OnlyOn(me, "handshaker"),
           Handshaking(me).steps = <<Had(b), Flushes("hello", 2)>>,
           me.started, me.open, me.raised = "no",
           me.out = <<>>, me.in = CutTo(wire[Client], n),
           me.reset \/ me.ended => ~end[Client].open,
           Len(b) + Len(wire[Client]) < RecordLength,
           Becomes(Server, n, _doHandshakeOp(me))
    PROVE  /\ end' \in [Ends -> Machines] /\ wire' \in [Ends -> Seq(Bytes)]
           /\ end'[Client] = end[Client] /\ wire'[Server] = <<>>
           /\ \/ /\ Wanting(end'[Server], wire'[Client])
                 /\ wire[Client] = <<>> =>
                       wire'[Client] = <<>> /\ WaitsWith(end'[Server], b)
              \/ /\ FailedBy(end'[Server], {"socket", "abrupt"})
                 /\ ~end[Client].open
  <1> DEFINE t == _doHandshakeOp(me)
             w == wire[Client]
             left == After(w, n)
  <1>1. Server \in Ends /\ Client \in Ends /\ Peer(Server) = Client
    BY EndsAssumption DEF Ends, Peer
  <1>2. /\ w \in Seq(Bytes) /\ n \in Nat /\ n <= Len(w)
        /\ Len(b) \in Nat /\ Len(w) \in Nat
    <2>1. w \in Seq(Bytes) /\ b \in Seq(Bytes)
      BY <1>1 DEF TypeOK, Parts
    <2> HIDE DEF w
    <2> QED BY <2>1 DEF w
  <1>3. /\ me.in \in Seq(Bytes) /\ Len(me.in) = n
        /\ left \in Seq(Bytes) /\ me.in \o left = w
    <2>1. me.in = CutTo(w, n)
      OBVIOUS
    <2> HIDE DEF w
    <2>2. /\ CutTo(w, n) \in Seq(Bytes) /\ Len(CutTo(w, n)) = n
          /\ CutTo(w, n) \o After(w, n) = w
      BY <1>2, CutAndAfter
    <2>3. After(w, n) \in Seq(Bytes)
      BY <1>2, AfterElements
    <2> QED BY <2>1, <2>2, <2>3
  <1>4. Len(b) + n + Len(left) < RecordLength /\ Len(left) \in Nat
    <2> HIDE DEF left, w
    <2>1. Len(w) = Len(me.in) + Len(left)
      BY <1>3
    <2>2. Len(left) \in Nat
      BY <1>3
    <2> QED BY <1>2, <1>3, <2>1, <2>2, SizesAssumption DEF w
  <1>5. /\ t \in Machines /\ t.out = <<>>
        /\ \/ FailedBy(t, {"socket", "abrupt"}) /\ (me.reset \/ me.ended)
           \/ WaitsWith(t, b \o me.in) /\ t.in = <<>>
    <2>1. Len(b) + Len(me.in) < RecordLength
      BY <1>2, <1>3, <1>4, SizesAssumption
    <2> QED BY <2>1, ReadWaits
  <1> HIDE DEF t
  <1>6. /\ end' \in [Ends -> Machines] /\ wire' \in [Ends -> Seq(Bytes)]
        /\ end'[Server] = AtRest(t) /\ end'[Client] = end[Client]
        /\ wire'[Server] = <<>> /\ wire'[Client] = t.in \o left
    BY <1>1, <1>5, TurnLeaves DEF t
  <1> HIDE DEF left
  <1>7. CASE FailedBy(t, {"socket", "abrupt"}) /\ (me.reset \/ me.ended)
    BY <1>5, <1>6, <1>7, AtRestIs
  <1>8. CASE WaitsWith(t, b \o me.in) /\ t.in = <<>>
    <2> DEFINE c == b \o me.in
    <2>1. c \in Seq(Bytes) /\ Len(c) = Len(b) + n
      BY <1>3 DEF Parts
    <2>2. WaitsWith(end'[Server], c)
      BY <1>5, <1>6, <1>8, AtRestIs
    <2> HIDE DEF c
    <2>3. wire'[Client] = left
      BY <1>3, <1>6, <1>8, Concat
    <2>4. c \in Parts /\ Len(c) + Len(left) < RecordLength
      BY <1>2, <1>4, <2>1, SizesAssumption DEF Parts
    <2>5. ASSUME w = <<>>
          PROVE  left = <<>> /\ WaitsWith(end'[Server], b)
      <3> HIDE DEF w
      <3>1. n = 0 /\ Len(left) = 0
        BY <1>2, <1>3, <2>5
      <3>2. left = <<>> /\ me.in = <<>>
        BY <1>3, <3>1, EmptySeq
      <3>3. c = b
        BY <3>2, Concat DEF c, Parts
      <3> QED BY <2>2, <3>2, <3>3
    <2> QED BY <1>6, <2>2, <2>3, <2>4, <2>5 DEF Wanting
  <1> QED BY <1>5, <1>7, <1>8

LEMMA NarrowHandshake ==
    ASSUME Narrow, RecordLength > WireCapacity,
           NEW e \in Ends, SetHandshakeOp(e)
    PROVE  Narrow'
  <1>0. /\ Client \in Ends /\ Server \in Ends /\ TypeOK
        /\ Peer(Server) = Client /\ Peer(Client) = Server
        /\ Client # Server /\ fired' = fired
    BY EndsAssumption DEF Ends, Peer, Narrow, SetHandshakeOp
  <1>1. PICK reset \in Resets(e) :
           LET me == [With(e, 0, reset) EXCEPT !.started = TRUE]
           IN  Becomes(e, 0, IF Sound(me, 0)
                             THEN _doHandshakeOp([me EXCEPT !.op["handshaker"]
                                                        = handshakeAsync(e)])
                             ELSE Raises(me, "assertion"))
    BY DEF SetHandshakeOp
  <1> DEFINE p == Peer(e)
             me == With(e, 0, reset)
             s == [me EXCEPT !.started = TRUE]
             g == handshakeAsync(e)
             t == [s EXCEPT !.op["handshaker"] = g]
             steps == IF e = Client THEN <<Flushes("hello", 1), Reads>>
                                    ELSE <<Reads, Flushes("hello", 2)>>
  <1>2. /\ reset \in BOOLEAN /\ (reset => ~end[p].open)
        /\ 0 \in 0..Len(wire[p]) /\ wire[p] \in Seq(Bytes)
    <2>1. p \in Ends /\ wire[p] \in Seq(Bytes)
      BY <1>0, PeerIs DEF TypeOK
    <2> HIDE DEF p
    <2> QED BY <2>1, ResetsIs DEF p
  <1>3. Unbegun(end[e])
    <2>1. ~end[e].started
      BY DEF SetHandshakeOp
    <2>2. e = Client \/ e = Server
      BY DEF Ends
    <2> QED BY <2>1, <2>2 DEF Narrow, Wanting, WaitsWith, FailedBy
  <1>4. /\ me \in Machines /\ me.out = wire[e] /\ me.in = <<>>
        /\ me.peerGone = ~end[p].open /\ me.reset = reset
        /\ me.ended => ~end[p].open
        /\ AllOff(me) /\ me.result = NoResult /\ Unused(me)
        /\ me.open /\ me.raised = "no"
    <2>1. CutTo(wire[p], 0) = <<>>
      <3> HIDE DEF p
      <3>1. CutTo(wire[p], 0) \in Seq(Bytes) /\ Len(CutTo(wire[p], 0)) = 0
        BY <1>2, CutAndAfter
      <3> QED BY <3>1, EmptySeq
    <2> QED BY <1>0, <1>2, <1>3, <2>1, TakenUp
            DEF Unbegun, Unused, AllOff
  <1> HIDE DEF me
  <1>5. /\ s \in Machines /\ s.started = TRUE /\ s.op = me.op
        /\ s.result = me.result /\ s.connected = me.connected
        /\ s.open = me.open /\ s.raised = me.raised
        /\ s.received = me.received
        /\ s.out = me.out /\ s.in = me.in /\ s.buffer = me.buffer
        /\ s.peerGone = me.peerGone /\ s.reset = me.reset
        /\ s.ended = me.ended
    BY <1>4 DEF Machines
  <1> HIDE DEF s
  <1>6. AllOff(s) /\ Sound(s, 0)
    <2>1. AllOff(s) /\ s.result = NoResult
      BY <1>4, <1>5 DEF AllOff
    <2> QED BY <2>1, SoundIs
  <1>7. g = Op(steps) /\ steps \in Seq(StepsToDo)
    BY ToFlushAndReadIs, ToReadAndFlushIs, FirstOfSteps DEF handshakeAsync
  <1> HIDE DEF steps, g
  <1>8. g \in Generators /\ g.on /\ g.steps = steps
    BY <1>7, OpIs
  <1>9. /\ t \in Machines /\ Kept(s, t) /\ t.op["handshaker"] = g
        /\ OnlyOn(t, "handshaker")
        /\ t.out = s.out /\ t.in = s.in /\ t.buffer = s.buffer
    <2>1. "handshaker" \in Operations
      BY DEF Operations
    <2> QED BY <1>5, <1>6, <1>8, <2>1, OpSet
  <1>10. Becomes(e, 0, _doHandshakeOp(t))
    BY <1>1, <1>6 DEF s, me, g, t
  <1> HIDE DEF t
  <1>11. /\ Unused(t) /\ t.started /\ t.open /\ t.raised = "no"
         /\ Handshaking(t).steps = steps /\ t.in = <<>>
         /\ t.out = wire[e] /\ t.peerGone = ~end[p].open
         /\ t.reset = reset /\ (t.ended => ~end[p].open)
    BY <1>4, <1>5, <1>8, <1>9 DEF Kept, Unused, Handshaking
  <1>12. CASE e = Client
    <2> DEFINE u == _doHandshakeOp(t)
    <2>1. /\ p = Server /\ wire[Server] = <<>> /\ wire[Client] = <<>>
          /\ Unbegun(end[Server]) \/ WaitsWith(end[Server], <<>>)
          /\ steps = <<Flushes("hello", 1), Reads>>
      BY <1>0, <1>3, <1>12 DEF Narrow, Unbegun, FailedBy, steps
    <2>2. end[Server].open
      BY <2>1 DEF Unbegun, WaitsWith
    <2>3. /\ u \in Machines /\ u.in = <<>> /\ Len(u.out) < RecordLength
          /\ u.raised = "socket" /\ ~u.open /\ u.started
          /\ ~u.connected /\ u.received = <<>>
      <3>1. t.out = <<>> /\ ~t.peerGone /\ ~t.reset
        BY <1>2, <1>11, <1>12, <2>1, <2>2
      <3> QED BY <1>9, <1>11, <2>1, <3>1, FlightFails DEF Unused
    <2> HIDE DEF u
    <2>4. /\ end' \in [Ends -> Machines] /\ wire' \in [Ends -> Seq(Bytes)]
          /\ end'[Client] = AtRest(u) /\ end'[Server] = end[Server]
          /\ wire'[Client] = u.out /\ wire'[Server] = u.in \o After(<<>>, 0)
      <3>1. 0 \in 0..Len(wire[Peer(Client)]) /\ Becomes(Client, 0, u)
        BY <1>2, <1>10, <1>12 DEF u
      <3>2. Peer(Client) = Server /\ wire[Peer(Client)] = <<>>
        BY <1>0, <2>1
      <3>3. /\ end' \in [Ends -> Machines] /\ wire' \in [Ends -> Seq(Bytes)]
            /\ end'[Client] = AtRest(u) /\ end'[Peer(Client)] = end[Peer(Client)]
            /\ wire'[Client] = u.out
            /\ wire'[Peer(Client)] = u.in \o After(wire[Peer(Client)], 0)
        BY <1>0, <2>3, <3>1, TurnLeaves
      <3> HIDE DEF p
      <3> QED BY <3>2, <3>3
    <2>5. wire'[Server] = <<>>
      BY <2>3, <2>4 DEF After
    <2>6. FailedBy(end'[Client], {"socket"})
      BY <2>3, <2>4, AtRestIs DEF FailedBy
    <2>7. Wanting(end'[Server], wire'[Client])
      <3>1. u.out \in Seq(Bytes) /\ <<>> \in Parts
        BY <2>3, ToFlushAndReadIs DEF Machines
      <3>2. Len(<<>>) + Len(u.out) < RecordLength
        BY <2>3, <3>1, SizesAssumption
      <3> QED BY <2>1, <2>3, <2>4, <3>1, <3>2 DEF Wanting
    <2> QED BY <1>0, <2>4, <2>5, <2>6, <2>7 DEF Narrow, TypeOK
  <1>13. CASE e = Server
    <2>1. /\ p = Client /\ wire[Server] = <<>> /\ fired[Server] = {}
          /\ Len(wire[Client]) < RecordLength
          /\ steps = <<Had(<<>>), Flushes("hello", 2)>> /\ <<>> \in Parts
      <3>1. Len(<<>>) < RecordLength
        BY SizesAssumption
      <3> QED BY <1>0, <1>3, <1>13, <3>1, ToFlushAndReadIs
              DEF Narrow, Unbegun, WaitsWith, FailedBy, Wanting, steps
    <2>2. Len(<<>>) + Len(wire[Client]) < RecordLength
      <3>1. Len(wire[Client]) \in Nat
        BY <1>2, <2>1
      <3> QED BY <2>1, <3>1, SizesAssumption
    <2>3. /\ t.out = <<>> /\ t.in = CutTo(wire[Client], 0)
          /\ t.reset \/ t.ended => ~end[Client].open
          /\ 0 \in 0..Len(wire[Client])
      <3>1. CutTo(wire[Client], 0) = <<>>
        BY <1>2, <2>1, CutAndAfter, EmptySeq
      <3> QED BY <1>2, <1>11, <1>13, <2>1, <3>1
    <2>4. /\ end' \in [Ends -> Machines] /\ wire' \in [Ends -> Seq(Bytes)]
          /\ end'[Client] = end[Client] /\ wire'[Server] = <<>>
          /\ \/ /\ Wanting(end'[Server], wire'[Client])
                /\ wire[Client] = <<>> =>
                      wire'[Client] = <<>> /\ WaitsWith(end'[Server], <<>>)
             \/ /\ FailedBy(end'[Server], {"socket", "abrupt"})
                /\ ~end[Client].open
      BY <1>0, <1>9, <1>10, <1>11, <1>13, <2>1, <2>2, <2>3, ServerTurn
    <2>5. fired' \in [Ends -> SUBSET {"read", "write"}]
          /\ fired'[Client] = {} /\ fired'[Server] = {}
      BY <1>0, <2>1 DEF Narrow, TypeOK
    <2> QED BY <2>4, <2>5 DEF Narrow, TypeOK, Unbegun
  <1> QED BY <1>12, <1>13 DEF Ends

LEMMA NarrowRead ==
    ASSUME Narrow, NEW e \in Ends, HandleRead(e)
    PROVE  Narrow'
  <1>0. /\ Client \in Ends /\ Server \in Ends /\ TypeOK
        /\ Peer(Server) = Client /\ Client # Server /\ wire[Server] = <<>>
    BY EndsAssumption DEF Ends, Peer, Narrow
  <1>1. /\ "read" \in fired[e]
        /\ fired' = [fired EXCEPT ![e] = @ \ {"read"}]
    BY DEF HandleRead
  <1>2. /\ e = Server /\ fired[Server] = {"read"} /\ fired[Client] = {}
        /\ end[Server].started /\ end[Server].open
    BY <1>1 DEF Narrow, Ends
  <1>3. /\ fired' \in [Ends -> SUBSET {"read", "write"}]
        /\ fired'[Client] = {} /\ fired'[Server] = {}
    BY <1>0, <1>1, <1>2 DEF TypeOK
  <1>4. PICK n \in 0..Len(wire[Client]), reset \in Resets(Server) :
           Becomes(Server, n, inReadEvent(With(Server, n, reset)))
    BY <1>0, <1>2 DEF HandleRead
  <1>5. PICK b \in Parts :
           /\ WaitsWith(end[Server], b)
           /\ Len(b) + Len(wire[Client]) < RecordLength
           /\ \/ Unbegun(end[Client]) /\ wire[Client] = <<>> /\ b = <<>>
              \/ FailedBy(end[Client], {"socket"})
    <2>1. ~Unbegun(end[Server]) /\ ~FailedBy(end[Server], {"socket", "abrupt"})
      BY <1>2 DEF Unbegun, FailedBy
    <2>2. <<>> \in Parts /\ Len(<<>>) + Len(<<>>) < RecordLength
      BY ToFlushAndReadIs, SizesAssumption
    <2> QED BY <2>1, <2>2 DEF Narrow, Wanting
  <1> DEFINE me == With(Server, n, reset)
  <1>6. /\ me \in Machines /\ me.out = <<>>
        /\ me.in = CutTo(wire[Client], n)
        /\ me.reset \/ me.ended => ~end[Client].open
        /\ me.started /\ me.open /\ me.raised = "no" /\ me.result = "read"
        /\ Unused(me) /\ OnlyOn(me, "handshaker")
        /\ Handshaking(me).steps = <<Had(b), Flushes("hello", 2)>>
    <2>1. reset \in BOOLEAN /\ (reset => ~end[Client].open)
      BY <1>0, ResetsIs
    <2>2. /\ me \in Machines /\ me.out = wire[Server]
          /\ me.in = CutTo(wire[Client], n) /\ me.reset = reset
          /\ me.ended => ~end[Client].open
          /\ me.op = end[Server].op /\ me.result = end[Server].result
          /\ me.connected = end[Server].connected
          /\ me.started = end[Server].started
          /\ me.open = end[Server].open
          /\ me.raised = end[Server].raised
          /\ me.buffer = end[Server].buffer
          /\ me.received = end[Server].received
      <3>1. n \in 0..Len(wire[Peer(Server)])
        BY <1>0
      <3> QED BY <1>0, <2>1, <3>1, TakenUp
    <2> HIDE DEF me
    <2> QED BY <1>0, <1>5, <2>1, <2>2
            DEF WaitsWith, Unused, OnlyOn, Handshaking
  <1>7. Becomes(Server, n, _doHandshakeOp(me))
    <2> HIDE DEF me
    <2>1. Sound(me, 1) /\ me.op["handshaker"].on
      <3>1. "handshaker" \in Operations /\ me.result # NoResult
        BY <1>6 DEF Operations, NoResult
      <3> QED BY <1>6, <3>1, SoundIs DEF OnlyOn
    <2>2. inReadEvent(me) = _doHandshakeOp(me)
      BY <2>1 DEF inReadEvent, InEvent
    <2> QED BY <1>4, <2>2 DEF me
  <1> HIDE DEF me
  <1>8. /\ end' \in [Ends -> Machines] /\ wire' \in [Ends -> Seq(Bytes)]
        /\ end'[Client] = end[Client] /\ wire'[Server] = <<>>
        /\ \/ /\ Wanting(end'[Server], wire'[Client])
              /\ wire[Client] = <<>> =>
                    wire'[Client] = <<>> /\ WaitsWith(end'[Server], b)
           \/ /\ FailedBy(end'[Server], {"socket", "abrupt"})
              /\ ~end[Client].open
    BY <1>0, <1>5, <1>6, <1>7, ServerTurn
  <1> QED BY <1>3, <1>5, <1>8 DEF Narrow, TypeOK, Unbegun

LEMMA NarrowSelect ==
    ASSUME Narrow, NEW e \in Ends, Select(e)
    PROVE  Narrow'
  <1>1. /\ Client \in Ends /\ Server \in Ends /\ Client # Server
        /\ TypeOK /\ end' = end /\ wire' = wire
        /\ end[e].started /\ end[e].open /\ fired[e] = {}
        /\ fired' = [fired EXCEPT ![e] = Events(e)] /\ Events(e) # {}
    BY EndsAssumption DEF Ends, Narrow, Select
  <1>2. e = Server /\ end[Server].result = "read"
    BY <1>1 DEF Narrow, Ends, Unbegun, FailedBy, Wanting, WaitsWith
  <1>3. Events(e) = {"read"}
    <2>1. ~ReadyToWrite(e)
      BY <1>2 DEF ReadyToWrite, wantsWriteEvent, NoResult
    <2> QED BY <1>1, <2>1 DEF Events
  <1>4. /\ fired' \in [Ends -> SUBSET {"read", "write"}]
        /\ fired'[Client] = {} /\ fired'[Server] = {"read"}
    BY <1>1, <1>2, <1>3 DEF TypeOK, Narrow
  <1> QED BY <1>1, <1>2, <1>4
          DEF Narrow, TypeOK, Unbegun, Wanting, WaitsWith, FailedBy, Unused,
              AllOff, OnlyOn, Handshaking

LEMMA NarrowStep ==
    Narrow /\ RecordLength > WireCapacity /\ [Next]_vars => Narrow'
  <1> SUFFICES ASSUME Narrow, RecordLength > WireCapacity, [Next]_vars
               PROVE  Narrow'
    OBVIOUS
  <1>1. ASSUME NEW e \in Ends, SetHandshakeOp(e)
        PROVE  Narrow'
    BY <1>1, NarrowHandshake
  <1>2. ASSUME NEW e \in Ends, Select(e)
        PROVE  Narrow'
    BY <1>2, NarrowSelect
  <1>3. ASSUME NEW e \in Ends, HandleRead(e)
        PROVE  Narrow'
    BY <1>3, NarrowRead
  <1>4. ASSUME NEW e \in Ends, HandleWrite(e)
        PROVE  FALSE
    BY <1>4 DEF HandleWrite, Narrow, Ends
  <1>5. CASE UNCHANGED vars
    BY <1>5 DEF vars, Narrow, TypeOK, Unbegun, Wanting, WaitsWith, FailedBy,
                Unused, AllOff, OnlyOn, Handshaking
  <1> QED BY <1>1, <1>2, <1>3, <1>4, <1>5 DEF Next, Loop

LEMMA NarrowInit == Init => Narrow
  <1> SUFFICES ASSUME Init
               PROVE  Narrow
    OBVIOUS
  <1>1. PICK apps \in Applications :
           end = [e \in Ends |-> Start(e, apps[e])]
    BY DEF Init
  <1>2. /\ wire = [e \in Ends |-> <<>>] /\ fired = [e \in Ends |-> {}]
        /\ Client \in Ends /\ Server \in Ends
    BY DEF Init, Ends
  <1>3. ASSUME NEW e \in Ends
        PROVE  end[e] \in Machines /\ Unbegun(end[e])
    <2>1. apps[e] \in [writes : Nat, answers : BOOLEAN, closes : BOOLEAN]
      BY <1>1, ApplicationsAssumption
    <2> DEFINE me == Start(e, apps[e])
    <2>2. end[e] = me
      BY <1>1
    <2>3. /\ Fit(e, me) /\ me.result = NoResult /\ ~me.started
          /\ ~me.connected /\ me.received = <<>> /\ me.buffer = <<>>
      BY <2>1, StartIs
    <2>4. me.open /\ me.raised = "no"
      BY DEF Start
    <2> HIDE DEF me
    <2> QED BY <2>2, <2>3, <2>4 DEF Fit, Local, Unbegun, Unused
  <1>4. TypeOK
    <2>1. <<>> \in Seq(Bytes)
      BY Concat
    <2> QED BY <1>1, <1>2, <1>3, <2>1 DEF TypeOK
  <1> QED BY <1>2, <1>3, <1>4 DEF Narrow

-----------------------------------------------------------------------------
(***************************************************************************)
(* The theorems.                                                           *)
(***************************************************************************)
Invariant == IF RecordLength <= WireCapacity THEN Inv ELSE Narrow

LEMMA AtAnySize ==
    /\ Init => Invariant
    /\ Invariant /\ [Next]_vars => Invariant'
  <1>1. ~(RecordLength <= WireCapacity) => RecordLength > WireCapacity
    BY SizesAssumption
  <1> QED BY <1>1, InvInit, InvStep, NarrowInit, NarrowStep DEF Invariant

\* Whatever the applications write, answer and close, however the select
\* loop's events fall and however little the wire holds: _checkAssert of
\* integration/asyncstatemachine.py holds at each call; an operation fails at
\* its socket only when the peer has closed, or in a handshake whose flight
\* does not fit into the wire; and only the failure of such a handshake is
\* taken for a truncation.
THEOREM AsyncRaisesForCause == Spec => []RaisesForCause
  <1>1. Inv => RaisesForCause
    BY DEF Inv, Fit, Local, Way, RaisesForCause
  <1>2. Narrow /\ RecordLength > WireCapacity => RaisesForCause
    <2> SUFFICES ASSUME Narrow, RecordLength > WireCapacity, NEW e \in Ends
                 PROVE  /\ end[e].raised # "assertion"
                        /\ end[e].raised \in {"socket", "abrupt"} =>
                              ~end[e].connected
                        /\ end[e].raised = "abrupt" =>
                              ~end[Peer(e)].connected
      BY DEF RaisesForCause
    <2>1. e = Client \/ (e = Server /\ Peer(e) = Client)
      BY EndsAssumption DEF Ends, Peer
    <2> QED BY <2>1 DEF Narrow, Unbegun, Wanting, WaitsWith, FailedBy, Unused
  <1>3. Invariant => RaisesForCause
    BY <1>1, <1>2, SizesAssumption DEF Invariant
  <1> QED BY <1>3, AtAnySize, PTL DEF Spec

\* The read callbacks of an end are given the records that the peer wrote,
\* each once and in order, through the wire, the read-ahead of
\* BufferedSocket and generators suspended within a record.
THEOREM AsyncReportedInOrder == Spec => []ReportedInOrder
  <1>1. Inv => ReportedInOrder
    <2> SUFFICES ASSUME Inv, NEW e \in Ends
                 PROVE  /\ Len(end[e].received) <= end[Peer(e)].written
                        /\ \A i \in 1..Len(end[e].received) :
                              end[e].received[i] = i
      BY DEF ReportedInOrder
    <2>1. Peer(e) \in Ends /\ Peer(Peer(e)) = e
      BY PeerIs
    <2> QED BY <2>1 DEF Inv, Way, Fit, Local
  <1>2. Narrow => ReportedInOrder
    <2> SUFFICES ASSUME Narrow, NEW e \in Ends
                 PROVE  /\ Len(end[e].received) <= end[Peer(e)].written
                        /\ \A i \in 1..Len(end[e].received) :
                              end[e].received[i] = i
      BY DEF ReportedInOrder
    <2>1. end[e].received = <<>>
      BY DEF Narrow, Unbegun, Wanting, WaitsWith, FailedBy, Unused, Ends
    <2>2. end[Peer(e)].written \in Nat
      BY PeerIs DEF Narrow, TypeOK, Machines
    <2> QED BY <2>1, <2>2
  <1>3. Invariant => ReportedInOrder
    BY <1>1, <1>2 DEF Invariant
  <1> QED BY <1>3, AtAnySize, PTL DEF Spec

=============================================================================
