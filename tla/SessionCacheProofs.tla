-------------------------- MODULE SessionCacheProofs --------------------------
(***************************************************************************)
(* For every size of the ring and every age: the session cache is type     *)
(* correct, its two data structures always describe the same sessions, so  *)
(* that no del of __setitem__ or _purge ever raises, and it implements the *)
(* bounded queue of SessionStore if the clock never goes back.             *)
(***************************************************************************)
EXTENDS SessionCache, SequenceTheorems, TLAPS

-----------------------------------------------------------------------------
(***************************************************************************)
(* Walking the ring.                                                       *)
(***************************************************************************)

\* The successor of a slot, without the modulo of the code.
LEMMA NextSlotValue ==
    ASSUME NEW i \in Slots
    PROVE  /\ NextSlot(i) = IF i = MaxEntries - 1 THEN 0 ELSE i + 1
           /\ NextSlot(i) \in Slots
           /\ NextSlot(i) # i
<1>1. MaxEntries \in Nat /\ MaxEntries > 1 /\ i \in Int
  BY MaxEntriesAssumption DEF Slots
<1>2. CASE i = MaxEntries - 1
  BY <1>1, <1>2 DEF NextSlot, Slots
<1>3. CASE i # MaxEntries - 1
  BY <1>1, <1>3 DEF NextSlot, Slots
<1> QED
  BY <1>2, <1>3

\* The slots between two indices do not include the second.
LEMMA BetweenSlots ==
    ASSUME NEW i \in Slots, NEW j \in Slots
    PROVE  Between(i, j) \subseteq Slots /\ j \notin Between(i, j)
BY MaxEntriesAssumption DEF Between, Slots

\* __setitem__ of a ring that is not full adds the slot it wrote.
LEMMA BetweenGrows ==
    ASSUME NEW i \in Slots, NEW j \in Slots, NextSlot(j) # i
    PROVE  Between(i, NextSlot(j)) = Between(i, j) \cup {j}
<1>1. CASE j = MaxEntries - 1
  BY <1>1, NextSlotValue, MaxEntriesAssumption DEF Between, Slots
<1>2. CASE j # MaxEntries - 1
  BY <1>2, NextSlotValue, MaxEntriesAssumption DEF Between, Slots
<1> QED
  BY <1>1, <1>2

\* __setitem__ of a full ring replaces the oldest slot by the one it wrote.
LEMMA BetweenSlides ==
    ASSUME NEW i \in Slots, NEW j \in Slots, NextSlot(j) = i
    PROVE  /\ Between(NextSlot(i), i) = (Between(i, j) \cup {j}) \ {i}
           /\ i \in Between(i, j)
<1>1. CASE j = MaxEntries - 1
  BY <1>1, NextSlotValue, MaxEntriesAssumption DEF Between, Slots
<1>2. CASE j # MaxEntries - 1
  BY <1>2, NextSlotValue, MaxEntriesAssumption DEF Between, Slots
<1> QED
  BY <1>1, <1>2

\* _purge cuts the live slots in two at the slot where it stops.
LEMMA BetweenSplits ==
    ASSUME NEW i \in Slots, NEW j \in Slots, NEW k \in Between(i, j) \cup {j}
    PROVE  /\ Between(i, j) = Between(i, k) \cup Between(k, j)
           /\ Between(i, k) \cap Between(k, j) = {}
           /\ k \in Slots
BY MaxEntriesAssumption DEF Between, Slots

-----------------------------------------------------------------------------
(***************************************************************************)
(* The inductive invariant.  RingMatchesDict alone is not inductive: that  *)
(* the ID of a new entry differs from those of the live slots needs the    *)
(* history of the IDs handed out.                                          *)
(***************************************************************************)
LiveIDsUsed == IDsAt(Live) \subseteq usedIDs

IInv == TypeOK /\ RingMatchesDict /\ LiveIDsUsed

LEMMA InitIInv == Init => IInv
<1> SUFFICES ASSUME Init PROVE IInv
  OBVIOUS
<1>1. Live = {}
  BY DEF Init, Live, Between
<1>2. 0 \in Slots
  BY MaxEntriesAssumption DEF Slots
<1>3. TypeOK
  <2>1. entriesDict \in [{} -> Sessions] /\ {} \in SUBSET SessionIDs
    BY DEF Init
  <2> QED
    BY <2>1, <1>2, ClockAssumption DEF Init, TypeOK, Unused, Times
<1> QED
  BY <1>1, <1>3 DEF Init, IInv, RingMatchesDict, LiveIDsUsed, IDsAt

\* __setitem__: the new ID is in no live slot, so the entry that is evicted
\* from a full ring is in the dictionary, under no other slot.
LEMMA SetItemKeepsIInv ==
    ASSUME IInv, NEW id \in SessionIDs, NEW s \in Sessions, SetItem(id, s)
    PROVE  IInv'
<1> DEFINE dict == With(entriesDict, id, s)
           list == [entriesList EXCEPT ![lastIndex] = [id |-> id, at |-> clock]]
           oldest == list[firstIndex].id
<1> USE DEF IInv
<1>1. /\ firstIndex \in Slots /\ lastIndex \in Slots
      /\ NextSlot(firstIndex) \in Slots /\ NextSlot(lastIndex) \in Slots
      /\ NextSlot(lastIndex) # lastIndex
  BY NextSlotValue DEF TypeOK
<1>2. Live \subseteq Slots /\ lastIndex \notin Live
  BY <1>1, BetweenSlots DEF Live
<1>3. /\ list \in [Slots -> [id : SessionIDs \cup {NoID}, at : Times]]
      /\ list[lastIndex].id = id
      /\ \A k \in Slots \ {lastIndex} : list[k] = entriesList[k]
  BY <1>1 DEF TypeOK
<1>4. /\ DOMAIN dict = DOMAIN entriesDict \cup {id}
      /\ dict \in [DOMAIN dict -> Sessions]
  BY DEF With, TypeOK
<1>5. DOMAIN dict \subseteq SessionIDs
  BY <1>4 DEF TypeOK
<1>6. id \notin IDsAt(Live) /\ id \notin DOMAIN entriesDict
  BY DEF SetItem, LiveIDsUsed, RingMatchesDict
<1>7. /\ DOMAIN entriesDict = {list[k].id : k \in Live}
      /\ \A j, k \in Live : list[j].id = list[k].id => j = k
      /\ \A k \in Live : list[k].id # id
  BY <1>2, <1>3, <1>6 DEF RingMatchesDict, IDsAt
<1>8. entriesList' = list /\ lastIndex' = NextSlot(lastIndex)
  BY DEF SetItem
<1>9. CASE NextSlot(lastIndex) = firstIndex
  <2>1. firstIndex \in Live /\ firstIndex # lastIndex
    BY <1>1, <1>9, <1>2, BetweenSlides DEF Live
  <2>2. oldest \in DOMAIN dict /\ oldest # id
    BY <1>4, <1>7, <2>1
  <2>3. /\ entriesDict' = Without(dict, {oldest})
        /\ firstIndex' = NextSlot(firstIndex)
    BY <1>9, <2>2 DEF SetItem, Full
  <2>4. Live' = (Live \cup {lastIndex}) \ {firstIndex}
    BY <1>1, <1>8, <1>9, <2>3, BetweenSlides DEF Live
  <2>5. DOMAIN entriesDict' = DOMAIN dict \ {oldest}
    BY <2>3 DEF Without
  <2>6. TypeOK'
    <3>1. /\ entriesDict' \in [DOMAIN dict \ {oldest} -> Sessions]
          /\ DOMAIN dict \ {oldest} \in SUBSET SessionIDs
      BY <2>3, <1>4, <1>5 DEF Without
    <3> QED
      BY <3>1, <2>3, <1>1, <1>3, <1>8 DEF SetItem, TypeOK
  <2>7. RingMatchesDict'
    BY <1>3, <1>4, <1>7, <1>8, <2>1, <2>2, <2>4, <2>5
    DEF RingMatchesDict, IDsAt
  <2>8. LiveIDsUsed'
    BY <1>2, <1>3, <1>8, <2>4 DEF LiveIDsUsed, IDsAt, SetItem
  <2> QED
    BY <2>6, <2>7, <2>8
<1>10. CASE NextSlot(lastIndex) # firstIndex
  <2>1. entriesDict' = dict /\ firstIndex' = firstIndex
    BY <1>10 DEF SetItem, Full
  <2>2. Live' = Live \cup {lastIndex}
    BY <1>1, <1>8, <1>10, <2>1, BetweenGrows DEF Live
  <2>3. TypeOK'
    BY <2>1, <1>1, <1>3, <1>4, <1>5, <1>8 DEF SetItem, TypeOK
  <2>4. RingMatchesDict'
    BY <1>3, <1>4, <1>7, <1>8, <2>1, <2>2 DEF RingMatchesDict, IDsAt
  <2>5. LiveIDsUsed'
    BY <1>2, <1>3, <1>8, <2>2 DEF LiveIDsUsed, IDsAt, SetItem
  <2> QED
    BY <2>3, <2>4, <2>5
<1> QED
  BY <1>9, <1>10

\* _purge never deletes an entry that is not in the dictionary.
LEMMA PurgeSucceeds ==
    ASSUME IInv, NEW k \in Slots, PurgeStop(k)
    PROVE  ~PurgeFails(k)
<1> USE DEF IInv
<1>1. /\ firstIndex \in Slots /\ lastIndex \in Slots
      /\ k \in Live \cup {lastIndex}
  BY DEF TypeOK, PurgeStop
<1>2. Between(firstIndex, k) \subseteq Live /\ k \notin Between(firstIndex, k)
  BY <1>1, BetweenSplits, BetweenSlots DEF Live
<1>3. k \in Live => Deletable(k)
  BY <1>2 DEF Deletable, RingMatchesDict, IDsAt
<1> QED
  BY <1>1, <1>3 DEF PurgeFails, PurgeStop

\* __getitem__: the purge stops at an entry that has not expired, never at
\* one it cannot delete, and takes the entries before it out of both.
LEMMA GetItemKeepsIInv ==
    ASSUME IInv, NEW id \in SessionIDs, GetItem(id)
    PROVE  IInv'
<1> USE DEF IInv
<1>1. PICK k \in Slots :
          /\ PurgeStop(k)
          /\ entriesDict' = Without(entriesDict, IDsAt(Between(firstIndex, k)))
          /\ firstIndex' = IF PurgeFails(k) THEN firstIndex ELSE k
          /\ returned' =
                IF /\ ~PurgeFails(k)
                   /\ id \in DOMAIN entriesDict'
                   /\ Valid(entriesDict'[id])
                THEN entriesDict'[id]
                ELSE KeyError
  BY DEF GetItem
<1>2. /\ firstIndex \in Slots /\ lastIndex \in Slots
      /\ k \in Live \cup {lastIndex}
  BY <1>1 DEF TypeOK, PurgeStop
<1>3. /\ Live = Between(firstIndex, k) \cup Between(k, lastIndex)
      /\ Between(firstIndex, k) \cap Between(k, lastIndex) = {}
  BY <1>2, BetweenSplits DEF Live
<1>5. ~PurgeFails(k)
  BY <1>1, PurgeSucceeds
<1>6. firstIndex' = k /\ Live' = Between(k, lastIndex)
  BY <1>1, <1>5 DEF GetItem, Live
<1>7. DOMAIN entriesDict' = DOMAIN entriesDict \ IDsAt(Between(firstIndex, k))
  BY <1>1 DEF Without
<1>8. TypeOK'
  <2>1. /\ entriesDict' \in [DOMAIN entriesDict' -> Sessions]
        /\ DOMAIN entriesDict' \in SUBSET SessionIDs
    BY <1>1, <1>7 DEF Without, TypeOK
  <2>2. returned' \in Sessions \cup {KeyError}
    BY <1>1, <2>1
  <2> QED
    BY <1>1, <1>6, <2>1, <2>2 DEF GetItem, TypeOK
<1>9. RingMatchesDict'
  <2>1. entriesList' = entriesList
    BY DEF GetItem
  <2>2. \A i, j \in Live : entriesList[i].id = entriesList[j].id => i = j
    BY DEF RingMatchesDict
  <2>3. IDsAt(Live) \ IDsAt(Between(firstIndex, k)) =
            IDsAt(Between(k, lastIndex))
    BY <1>3, <2>2 DEF IDsAt
  <2>4. DOMAIN entriesDict' = IDsAt(Live)'
    BY <1>6, <1>7, <2>1, <2>3 DEF RingMatchesDict, IDsAt
  <2> QED
    BY <1>3, <1>6, <2>1, <2>2, <2>4 DEF RingMatchesDict
<1>10. LiveIDsUsed'
  BY <1>3, <1>6 DEF LiveIDsUsed, IDsAt, GetItem
<1> QED
  BY <1>8, <1>9, <1>10

LEMMA StepKeepsIInv == IInv /\ [Next]_vars => IInv'
<1> SUFFICES ASSUME IInv, [Next]_vars PROVE IInv'
  OBVIOUS
<1>1. ASSUME NEW id \in SessionIDs, NEW s \in Sessions, SetItem(id, s)
      PROVE  IInv'
  BY <1>1, SetItemKeepsIInv
<1>2. ASSUME NEW id \in SessionIDs, GetItem(id) PROVE IInv'
  BY <1>2, GetItemKeepsIInv
<1>3. ASSUME NEW s \in Sessions, Invalidate(s) PROVE IInv'
  BY <1>3
  DEF Invalidate, IInv, TypeOK, RingMatchesDict, LiveIDsUsed, IDsAt, Live
<1>4. CASE Tick
  BY <1>4 DEF Tick, IInv, TypeOK, RingMatchesDict, LiveIDsUsed, IDsAt, Live
<1>5. CASE UNCHANGED vars
  BY <1>5 DEF vars, IInv, TypeOK, RingMatchesDict, LiveIDsUsed, IDsAt, Live
<1> QED
  BY <1>1, <1>2, <1>3, <1>4, <1>5 DEF Next

\* The cache is type correct.
THEOREM SessionCacheTypeOK == Spec => []TypeOK
<1>1. IInv => TypeOK
  BY DEF IInv
<1> QED
  BY InitIInv, StepKeepsIInv, <1>1, PTL DEF Spec

\* The dictionary and the live part of the ring describe the same sessions:
\* the del statements of __setitem__ and _purge never raise.
THEOREM SessionCacheConsistent == Spec => []RingMatchesDict
<1>1. IInv => RingMatchesDict
  BY DEF IInv
<1> QED
  BY InitIInv, StepKeepsIInv, <1>1, PTL DEF Spec

-----------------------------------------------------------------------------
(***************************************************************************)
(* The refinement of SessionStore.  The ring is a queue: its i-th element  *)
(* is in the slot i - 1 after the oldest one.                              *)
(***************************************************************************)
Ahead(first, i) == (first + i - 1) % MaxEntries
Distance(first, last) == (last - first + MaxEntries) % MaxEntries

\* Places in the ring and distances, without the modulo of the code.
LEMMA AheadValue ==
    ASSUME NEW first \in Slots, NEW i \in 1..MaxEntries
    PROVE  /\ Ahead(first, i) = IF first + i - 1 < MaxEntries THEN first + i - 1
                                ELSE first + i - 1 - MaxEntries
           /\ Ahead(first, i) \in Slots
<1>1. MaxEntries \in Nat /\ MaxEntries > 1 /\ i \in Int /\ first \in Int
  BY MaxEntriesAssumption DEF Slots
<1>2. CASE first + i - 1 < MaxEntries
  BY <1>1, <1>2 DEF Ahead, Slots
<1>3. CASE first + i - 1 >= MaxEntries
  BY <1>1, <1>3 DEF Ahead, Slots
<1> QED
  BY <1>1, <1>2, <1>3

LEMMA DistanceValue ==
    ASSUME NEW first \in Slots, NEW last \in Slots
    PROVE  /\ Distance(first, last) = IF first <= last THEN last - first
                                      ELSE last - first + MaxEntries
           /\ Distance(first, last) \in Slots
<1>1. MaxEntries \in Nat /\ MaxEntries > 1 /\ first \in Int /\ last \in Int
  BY MaxEntriesAssumption DEF Slots
<1>2. CASE first <= last
  BY <1>1, <1>2 DEF Distance, Slots
<1>3. CASE first > last
  BY <1>1, <1>3 DEF Distance, Slots
<1> QED
  BY <1>1, <1>2, <1>3

\* Counting along the ring reaches each live slot once, then the free one.
LEMMA AheadWalks ==
    ASSUME NEW first \in Slots, NEW last \in Slots
    PROVE  /\ \A k \in Between(first, last) :
                 \E i \in 1..Distance(first, last) : k = Ahead(first, i)
           /\ \A i \in 1..Distance(first, last) :
                 Ahead(first, i) \in Between(first, last)
           /\ \A i, j \in 1..MaxEntries :
                 Ahead(first, i) = Ahead(first, j) => i = j
           /\ Ahead(first, Distance(first, last) + 1) = last
<1>0. /\ MaxEntries \in Nat /\ MaxEntries > 1
      /\ first \in Slots /\ last \in Slots
  BY MaxEntriesAssumption
<1>1. Distance(first, last) \in 0..(MaxEntries - 1)
  BY DistanceValue DEF Slots
<1>2. \A i \in 1..MaxEntries :
         Ahead(first, i) = IF first + i - 1 < MaxEntries THEN first + i - 1
                           ELSE first + i - 1 - MaxEntries
  BY AheadValue
<1>3. CASE first <= last
  <2>1. Distance(first, last) = last - first
    BY <1>3, DistanceValue
  <2>2. ASSUME NEW k \in Between(first, last)
        PROVE  \E i \in 1..Distance(first, last) : k = Ahead(first, i)
    <3>1. k - first + 1 \in 1..Distance(first, last)
          /\ k - first + 1 \in 1..MaxEntries
      BY <1>0, <1>3, <2>1, <2>2 DEF Between, Slots
    <3>2. k = Ahead(first, k - first + 1)
      BY <1>0, <1>2, <1>3, <2>2, <3>1 DEF Between, Slots
    <3> QED
      BY <3>1, <3>2
  <2>3. \A i \in 1..Distance(first, last) :
           Ahead(first, i) \in Between(first, last)
    BY <1>0, <1>2, <1>3, <2>1 DEF Between, Slots
  <2>4. \A i, j \in 1..MaxEntries : Ahead(first, i) = Ahead(first, j) => i = j
    BY <1>0, <1>2 DEF Slots
  <2>5. Ahead(first, Distance(first, last) + 1) = last
    BY <1>0, <1>1, <1>2, <1>3, <2>1 DEF Slots
  <2> QED
    BY <2>2, <2>3, <2>4, <2>5
<1>4. CASE first > last
  <2>1. Distance(first, last) = last - first + MaxEntries
    BY <1>0, <1>4, DistanceValue DEF Slots
  <2>2. ASSUME NEW k \in Between(first, last)
        PROVE  \E i \in 1..Distance(first, last) : k = Ahead(first, i)
    <3>1. CASE k >= first
      <4>1. k - first + 1 \in 1..Distance(first, last)
            /\ k - first + 1 \in 1..MaxEntries
        BY <1>0, <1>4, <2>1, <2>2, <3>1 DEF Between, Slots
      <4>2. k = Ahead(first, k - first + 1)
        BY <1>0, <1>2, <1>4, <2>2, <3>1, <4>1 DEF Between, Slots
      <4> QED
        BY <4>1, <4>2
    <3>2. CASE k < first
      <4>1. k - first + MaxEntries + 1 \in 1..Distance(first, last)
            /\ k - first + MaxEntries + 1 \in 1..MaxEntries
        BY <1>0, <1>4, <2>1, <2>2, <3>2 DEF Between, Slots
      <4>2. k = Ahead(first, k - first + MaxEntries + 1)
        BY <1>0, <1>2, <1>4, <2>2, <3>2, <4>1 DEF Between, Slots
      <4> QED
        BY <4>1, <4>2
    <3> QED
      BY <1>0, <1>4, <2>2, <3>1, <3>2 DEF Between, Slots
  <2>3. \A i \in 1..Distance(first, last) :
           Ahead(first, i) \in Between(first, last)
    BY <1>0, <1>2, <1>4, <2>1 DEF Between, Slots
  <2>4. \A i, j \in 1..MaxEntries : Ahead(first, i) = Ahead(first, j) => i = j
    BY <1>0, <1>2 DEF Slots
  <2>5. Ahead(first, Distance(first, last) + 1) = last
    BY <1>0, <1>1, <1>2, <1>4, <2>1 DEF Slots
  <2> QED
    BY <2>2, <2>3, <2>4, <2>5
<1> QED
  BY <1>0, <1>3, <1>4 DEF Slots

-----------------------------------------------------------------------------
\* The entry of slot k.
Entry(list, dict, k) ==
    [id |-> list[k].id, session |-> dict[list[k].id], at |-> list[k].at]

\* The queue lists the live slots, from the oldest on.
LEMMA HeldFacts ==
    ASSUME TypeOK
    PROVE  /\ LiveCount = Distance(firstIndex, lastIndex)
           /\ LiveCount \in 0..(MaxEntries - 1)
           /\ HeldEntries =
                 [i \in 1..LiveCount |->
                     Entry(entriesList, entriesDict, Ahead(firstIndex, i))]
           /\ HeldEntries \in
                 Seq({Entry(entriesList, entriesDict, k) : k \in Slots})
           /\ Len(HeldEntries) = LiveCount
           /\ DOMAIN HeldEntries = 1..LiveCount
<1>1. LiveCount = Distance(firstIndex, lastIndex)
  BY DEF LiveCount, Distance
<1>2. LiveCount \in 0..(MaxEntries - 1)
  BY <1>1, DistanceValue DEF TypeOK, Slots
<1>3. HeldEntries =
         [i \in 1..LiveCount |->
             Entry(entriesList, entriesDict, Ahead(firstIndex, i))]
  BY DEF HeldEntries, Entry, Ahead
<1>4. \A i \in 1..LiveCount : Ahead(firstIndex, i) \in Slots
  BY <1>2, MaxEntriesAssumption, AheadValue DEF TypeOK
<1> DEFINE S == {Entry(entriesList, entriesDict, k) : k \in Slots}
<1>5. HeldEntries \in [1..LiveCount -> S]
  BY <1>3, <1>4
<1>6. HeldEntries \in Seq(S)
  BY <1>2, <1>5, MaxEntriesAssumption, SeqDef
<1>7. Len(HeldEntries) = LiveCount /\ DOMAIN HeldEntries = 1..LiveCount
  BY <1>2, <1>5, <1>6, LenProperties
<1> QED
  BY <1>1, <1>2, <1>3, <1>6, <1>7

\* Operations on the queue, element by element.
LEMMA AppendElements ==
    ASSUME NEW S, NEW q \in Seq(S), NEW x
    PROVE  Append(q, x) =
              [i \in 1..(Len(q) + 1) |-> IF i = Len(q) + 1 THEN x ELSE q[i]]
<1> DEFINE R == S \cup {x}
           a == Append(q, x)
<1>1. q \in Seq(R)
  BY SeqMonotonic
<1>2. /\ a \in Seq(R) /\ Len(a) = Len(q) + 1
      /\ \A i \in 1..Len(q) : a[i] = q[i]
      /\ a[Len(q) + 1] = x
  BY <1>1, AppendProperties
<1>3. a \in [1..(Len(q) + 1) -> R] /\ Len(q) \in Nat
  BY <1>1, <1>2, LenProperties
<1> HIDE DEF a
<1>4. a = [i \in 1..(Len(q) + 1) |-> IF i = Len(q) + 1 THEN x ELSE q[i]]
  BY <1>2, <1>3
<1> QED
  BY <1>4 DEF a

LEMMA AppendLength ==
    ASSUME NEW S, NEW q \in Seq(S), NEW x
    PROVE  /\ Append(q, x) \in Seq(S \cup {x})
           /\ Append(q, x) # <<>> /\ Len(Append(q, x)) = Len(q) + 1
<1>1. q \in Seq(S \cup {x})
  BY SeqMonotonic
<1> QED
  BY <1>1, AppendProperties

LEMMA TailElements ==
    ASSUME NEW S, NEW q \in Seq(S), q # <<>>
    PROVE  Tail(q) = [i \in 1..(Len(q) - 1) |-> q[i + 1]]
<1> DEFINE t == Tail(q)
<1>1. /\ t \in Seq(S) /\ Len(t) = Len(q) - 1
      /\ \A i \in 1..Len(t) : t[i] = q[i + 1]
  BY HeadTailProperties
<1>2. t \in [1..(Len(q) - 1) -> S]
  BY <1>1, LenProperties
<1> HIDE DEF t
<1>3. t = [i \in 1..(Len(q) - 1) |-> q[i + 1]]
  BY <1>1, <1>2
<1> QED
  BY <1>3 DEF t

LEMMA SubSeqElements ==
    ASSUME NEW S, NEW q \in Seq(S), NEW n \in 0..Len(q)
    PROVE  SubSeq(q, n + 1, Len(q)) = [i \in 1..(Len(q) - n) |-> q[i + n]]
<1> DEFINE t == SubSeq(q, n + 1, Len(q))
<1>0. Len(q) \in Nat
  BY LenProperties
<1>1. /\ t \in Seq({q[i] : i \in (n + 1)..Len(q)})
      /\ Len(t) = IF n + 1 <= Len(q) THEN Len(q) - (n + 1) + 1 ELSE 0
      /\ \A i \in 1..(Len(q) - (n + 1) + 1) : t[i] = q[n + 1 + i - 1]
  BY <1>0, SubSeqProperties
<1>2. Len(t) = Len(q) - n
  BY <1>0, <1>1
<1>3. t \in [1..(Len(q) - n) -> {q[i] : i \in (n + 1)..Len(q)}]
  BY <1>1, <1>2, LenProperties
<1> HIDE DEF t
<1>4. \A i \in 1..(Len(q) - n) : t[i] = q[i + n]
  BY <1>0, <1>1
<1>5. t = [i \in 1..(Len(q) - n) |-> q[i + n]]
  BY <1>3, <1>4
<1> QED
  BY <1>5 DEF t

-----------------------------------------------------------------------------
\* __setitem__ of a ring that is not full counts one slot more.
LEMMA DistanceGrows ==
    ASSUME NEW first \in Slots, NEW last \in Slots, NextSlot(last) # first
    PROVE  Distance(first, NextSlot(last)) = Distance(first, last) + 1
<1>0. MaxEntries \in Nat /\ MaxEntries > 1
  BY MaxEntriesAssumption
<1>1. /\ NextSlot(last) \in Slots
      /\ NextSlot(last) = IF last = MaxEntries - 1 THEN 0 ELSE last + 1
  BY NextSlotValue
<1>2. /\ Distance(first, last) = IF first <= last THEN last - first
                                 ELSE last - first + MaxEntries
      /\ Distance(first, NextSlot(last)) =
            IF first <= NextSlot(last) THEN NextSlot(last) - first
            ELSE NextSlot(last) - first + MaxEntries
  BY <1>1, DistanceValue
<1> QED
  BY <1>0, <1>1, <1>2 DEF Slots

\* A ring is full when all slots but one are live; both ends move then.
LEMMA DistanceFull ==
    ASSUME NEW first \in Slots, NEW last \in Slots, NextSlot(last) = first
    PROVE  /\ Distance(first, last) = MaxEntries - 1
           /\ Distance(NextSlot(first), NextSlot(last)) = MaxEntries - 1
<1>0. MaxEntries \in Nat /\ MaxEntries > 1
  BY MaxEntriesAssumption
<1>1. /\ NextSlot(last) = IF last = MaxEntries - 1 THEN 0 ELSE last + 1
      /\ NextSlot(first) = IF first = MaxEntries - 1 THEN 0 ELSE first + 1
      /\ NextSlot(first) \in Slots
  BY NextSlotValue
<1>2. Distance(first, last) = IF first <= last THEN last - first
                              ELSE last - first + MaxEntries
  BY DistanceValue
<1>3. Distance(NextSlot(first), first) =
            IF NextSlot(first) <= first THEN first - NextSlot(first)
            ELSE first - NextSlot(first) + MaxEntries
  BY <1>1, DistanceValue
<1> QED
  BY <1>0, <1>1, <1>2, <1>3 DEF Slots

\* Counting from a slot further on.
LEMMA AheadFrom ==
    ASSUME NEW first \in Slots, NEW last \in Slots,
           NEW k \in Between(first, last) \cup {last}
    PROVE  /\ Distance(first, k) \in 0..Distance(first, last)
           /\ Distance(k, last) = Distance(first, last) - Distance(first, k)
           /\ \A i \in 1..Distance(k, last) :
                 Ahead(k, i) = Ahead(first, i + Distance(first, k))
<1>0. MaxEntries \in Nat /\ MaxEntries > 1 /\ k \in Slots
  BY MaxEntriesAssumption, BetweenSlots
<1>1. /\ Distance(first, last) = IF first <= last THEN last - first
                                 ELSE last - first + MaxEntries
      /\ Distance(first, k) = IF first <= k THEN k - first
                              ELSE k - first + MaxEntries
      /\ Distance(k, last) = IF k <= last THEN last - k
                             ELSE last - k + MaxEntries
      /\ Distance(first, last) \in Slots
      /\ Distance(k, last) \in Slots
  BY <1>0, DistanceValue
<1>2. /\ Distance(first, k) \in 0..Distance(first, last)
      /\ Distance(k, last) = Distance(first, last) - Distance(first, k)
  BY <1>0, <1>1 DEF Between, Slots
<1>3. ASSUME NEW i \in 1..Distance(k, last)
      PROVE  Ahead(k, i) = Ahead(first, i + Distance(first, k))
  <2>1. i \in 1..MaxEntries /\ i + Distance(first, k) \in 1..MaxEntries
    BY <1>0, <1>1, <1>2 DEF Slots
  <2>2. /\ Ahead(k, i) = IF k + i - 1 < MaxEntries THEN k + i - 1
                         ELSE k + i - 1 - MaxEntries
        /\ Ahead(first, i + Distance(first, k)) =
              IF first + (i + Distance(first, k)) - 1 < MaxEntries
              THEN first + (i + Distance(first, k)) - 1
              ELSE first + (i + Distance(first, k)) - 1 - MaxEntries
    BY <1>0, <2>1, AheadValue
  <2> QED
    BY <1>0, <1>1, <2>1, <2>2 DEF Slots
<1> QED
  BY <1>2, <1>3

\* Counting from the next slot.
LEMMA AheadNext ==
    ASSUME NEW first \in Slots, NEW i \in 1..(MaxEntries - 1)
    PROVE  Ahead(NextSlot(first), i) = Ahead(first, i + 1)
<1>0. MaxEntries \in Nat /\ MaxEntries > 1
  BY MaxEntriesAssumption
<1>1. /\ NextSlot(first) \in Slots
      /\ NextSlot(first) = IF first = MaxEntries - 1 THEN 0 ELSE first + 1
      /\ i \in 1..MaxEntries /\ i + 1 \in 1..MaxEntries
  BY <1>0, NextSlotValue
<1>2. /\ Ahead(NextSlot(first), i) =
            IF NextSlot(first) + i - 1 < MaxEntries THEN NextSlot(first) + i - 1
            ELSE NextSlot(first) + i - 1 - MaxEntries
      /\ Ahead(first, i + 1) =
            IF first + (i + 1) - 1 < MaxEntries THEN first + (i + 1) - 1
            ELSE first + (i + 1) - 1 - MaxEntries
  BY <1>1, AheadValue
<1> QED
  BY <1>0, <1>1, <1>2 DEF Slots

-----------------------------------------------------------------------------
\* __setitem__ appends to the queue, and drops the oldest of MaxEntries.
LEMMA SetItemQueues ==
    ASSUME IInv, NEW id \in SessionIDs, NEW s \in Sessions, SetItem(id, s)
    PROVE  LET all == Append(HeldEntries,
                             [id |-> id, session |-> s, at |-> clock])
           IN  HeldEntries' = IF Len(all) > MaxEntries - 1 THEN Tail(all)
                              ELSE all
<1> DEFINE new == [id |-> id, session |-> s, at |-> clock]
           q == HeldEntries
           n == LiveCount
           all == Append(q, new)
<1> USE DEF IInv
<1>0. MaxEntries \in Nat /\ MaxEntries > 1
  BY MaxEntriesAssumption
<1>1. /\ firstIndex \in Slots /\ lastIndex \in Slots
      /\ NextSlot(firstIndex) \in Slots /\ NextSlot(lastIndex) \in Slots
  BY NextSlotValue DEF TypeOK
<1>2. /\ n = Distance(firstIndex, lastIndex) /\ n \in 0..(MaxEntries - 1)
      /\ q = [i \in 1..n |->
                 Entry(entriesList, entriesDict, Ahead(firstIndex, i))]
      /\ q \in Seq({Entry(entriesList, entriesDict, k) : k \in Slots})
      /\ Len(q) = n
  BY HeldFacts
<1>3. /\ LiveCount' = Distance(firstIndex', lastIndex')
      /\ HeldEntries' =
            [i \in 1..LiveCount' |->
                Entry(entriesList', entriesDict', Ahead(firstIndex', i))]
  BY DEF LiveCount, Distance, HeldEntries, Entry, Ahead
<1>4. all = [i \in 1..(n + 1) |-> IF i = n + 1 THEN new ELSE q[i]]
  BY <1>2, AppendElements
<1>5. /\ lastIndex' = NextSlot(lastIndex)
      /\ \A k \in Slots \ {lastIndex} : entriesList'[k] = entriesList[k]
      /\ entriesList'[lastIndex] = [id |-> id, at |-> clock]
  BY <1>1 DEF SetItem, TypeOK
<1>6. /\ \A k \in Live : k \in Slots \ {lastIndex}
      /\ \A i \in 1..n : Ahead(firstIndex, i) \in Live
      /\ \A i, j \in 1..MaxEntries :
            Ahead(firstIndex, i) = Ahead(firstIndex, j) => i = j
      /\ Ahead(firstIndex, n + 1) = lastIndex
  BY <1>1, <1>2, BetweenSlots, AheadWalks DEF Live
<1>7. /\ id \notin DOMAIN entriesDict
      /\ \A k \in Live : entriesList[k].id \in DOMAIN entriesDict
      /\ \A j, k \in Live : entriesList[j].id = entriesList[k].id => j = k
  BY DEF SetItem, LiveIDsUsed, RingMatchesDict, IDsAt
<1>8. CASE NextSlot(lastIndex) # firstIndex
  <2>1. entriesDict' = With(entriesDict, id, s) /\ firstIndex' = firstIndex
    BY <1>8 DEF SetItem, Full
  <2>2. LiveCount' = n + 1 /\ n + 1 \in 1..(MaxEntries - 1)
    <3>1. LiveCount' = n + 1
      BY <1>1, <1>2, <1>3, <1>5, <1>8, <2>1, DistanceGrows
    <3>2. LiveCount' \in Slots
      BY <1>1, <1>3, <1>5, <2>1, DistanceValue
    <3> QED
      BY <1>2, <3>1, <3>2 DEF Slots
  <2>3. \A k \in Live : Entry(entriesList', entriesDict', k) =
                        Entry(entriesList, entriesDict, k)
    BY <1>5, <1>6, <1>7, <2>1 DEF Entry, With
  <2>4. Entry(entriesList', entriesDict', lastIndex) = new
    BY <1>5, <2>1 DEF Entry, With
  <2>5. \A i \in 1..(n + 1) :
           Entry(entriesList', entriesDict', Ahead(firstIndex, i)) =
              IF i = n + 1 THEN new ELSE q[i]
    BY <1>2, <1>6, <2>3, <2>4
  <2>6. HeldEntries' = all
    BY <1>3, <1>4, <2>1, <2>2, <2>5
  <2>7. Len(all) = n + 1
    BY <1>2, AppendLength
  <2> QED
    BY <1>0, <1>2, <2>2, <2>6, <2>7
<1>9. CASE NextSlot(lastIndex) = firstIndex
  <2> DEFINE dict == With(entriesDict, id, s)
             oldest == entriesList[firstIndex].id
  <2>1. firstIndex \in Live
    BY <1>1, <1>9, BetweenSlides DEF Live
  <2>2. /\ entriesDict' = Without(dict, {oldest})
        /\ firstIndex' = NextSlot(firstIndex)
    <3>1. oldest = entriesList'[firstIndex].id
      BY <1>5, <1>6, <2>1
    <3>2. oldest \in DOMAIN dict
      BY <1>7, <2>1 DEF With
    <3> QED
      BY <1>9, <3>1, <3>2 DEF SetItem, Full
  <2>3. n = MaxEntries - 1 /\ LiveCount' = n
    BY <1>1, <1>2, <1>3, <1>5, <1>9, <2>2, DistanceFull
  <2>4. \A k \in Live \ {firstIndex} : Entry(entriesList', entriesDict', k) =
                                       Entry(entriesList, entriesDict, k)
    BY <1>5, <1>6, <1>7, <2>1, <2>2 DEF Entry, With, Without
  <2>5. Entry(entriesList', entriesDict', lastIndex) = new
    BY <1>5, <1>7, <2>1, <2>2 DEF Entry, With, Without
  <2>6. Ahead(firstIndex, 1) = firstIndex
    BY <1>0, <1>1, AheadValue DEF Slots
  <2>7. \A i \in 1..n : i + 1 \in 1..(n + 1) /\ i + 1 # 1
                        /\ i + 1 \in 1..MaxEntries /\ 1 \in 1..MaxEntries
    BY <1>0, <1>2, <2>3
  <2>8. \A i \in 1..n :
           Ahead(firstIndex', i) = Ahead(firstIndex, i + 1)
    BY <1>1, <2>2, <2>3, AheadNext
  <2>9. \A i \in 1..n :
           Entry(entriesList', entriesDict', Ahead(firstIndex', i)) =
              IF i + 1 = n + 1 THEN new ELSE q[i + 1]
    BY <1>2, <1>6, <2>4, <2>5, <2>6, <2>7, <2>8
  <2>10. HeldEntries' = [i \in 1..n |-> all[i + 1]]
    BY <1>3, <1>4, <2>3, <2>7, <2>9
  <2>11. /\ Len(all) = n + 1 /\ all # <<>>
         /\ all \in Seq({Entry(entriesList, entriesDict, k) : k \in Slots}
                        \cup {new})
    BY <1>2, AppendLength
  <2>12. Tail(all) = [i \in 1..n |-> all[i + 1]]
    BY <1>2, <2>11, TailElements
  <2> QED
    BY <1>0, <2>3, <2>10, <2>11, <2>12
<1> QED
  BY <1>8, <1>9

-----------------------------------------------------------------------------
\* The queue is in the order of the times its sessions were stored.
Aged(q, now) ==
    /\ \A i \in DOMAIN q : q[i].at \in Int /\ q[i].at <= now
    /\ \A i, j \in DOMAIN q : i <= j => q[i].at <= q[j].at
Aging == Aged(HeldEntries, clock)

LEMMA AgedAppends ==
    ASSUME NEW S, NEW q \in Seq(S), NEW now \in Int, Aged(q, now),
           NEW id, NEW s, NEW a,
           a = Append(q, [id |-> id, session |-> s, at |-> now])
    PROVE  Aged(a, now) /\ (a # <<>> => Aged(Tail(a), now))
<1> DEFINE new == [id |-> id, session |-> s, at |-> now]
<1>1. Len(q) \in Nat /\ DOMAIN q = 1..Len(q)
  BY LenProperties
<1>2. a = [i \in 1..(Len(q) + 1) |-> IF i = Len(q) + 1 THEN new ELSE q[i]]
  BY AppendElements
<1>3. Aged(a, now)
  BY <1>1, <1>2 DEF Aged
<1>4. Tail(a) = [i \in 1..Len(q) |-> a[i + 1]]
  BY <1>1, AppendLength, TailElements
<1> HIDE DEF new
<1>5. Aged(Tail(a), now)
  <2>1. DOMAIN a = 1..(Len(q) + 1) /\ DOMAIN Tail(a) = 1..Len(q)
    BY <1>2, <1>4
  <2>2. \A i \in DOMAIN Tail(a) :
           i \in Int /\ i + 1 \in DOMAIN a /\ Tail(a)[i] = a[i + 1]
    BY <1>1, <1>4, <2>1
  <2>3. \A i, j \in DOMAIN Tail(a) : i <= j => i + 1 <= j + 1
    BY <1>1, <2>1
  <2> QED
    BY <1>3, <2>2, <2>3 DEF Aged
<1> QED
  BY <1>3, <1>5

LEMMA AgedForgets ==
    ASSUME NEW q, NEW len \in Nat, DOMAIN q = 1..len, NEW n \in 0..len,
           NEW now \in Int, Aged(q, now)
    PROVE  Aged([i \in 1..(len - n) |-> q[i + n]], now)
<1>1. \A i \in 1..(len - n) : i + n \in DOMAIN q
  OBVIOUS
<1>2. \A i, j \in 1..(len - n) : i <= j => i + n <= j + n
  OBVIOUS
<1> QED
  BY <1>1, <1>2 DEF Aged

LEMMA TimesAreIntegers ==
    ASSUME TypeOK
    PROVE  /\ clock \in Int /\ MaxAge \in Int
           /\ \A k \in Slots : entriesList[k].at \in Int
<1>1. clock \in Times /\ \A k \in Slots : entriesList[k].at \in Times
  BY DEF TypeOK
<1> QED
  BY <1>1, ClockAssumption, MaxAgeAssumption DEF Times

\* __getitem__ forgets the sessions that are too old, and answers from those
\* that are left.
LEMMA GetItemForgets ==
    ASSUME IInv, Aging, NEW id \in SessionIDs, GetItem(id)
    PROVE  /\ \E n \in 0..Len(HeldEntries) :
                 /\ \A i \in DOMAIN HeldEntries :
                       Abstract!Fresh(HeldEntries[i]) <=> i > n
                 /\ HeldEntries' = SubSeq(HeldEntries, n + 1, Len(HeldEntries))
           /\ returned' \in
                 LET hits == {i \in DOMAIN HeldEntries' :
                                 /\ HeldEntries'[i].id = id
                                 /\ HeldEntries'[i].session \in resumable}
                 IN  IF hits = {} THEN {KeyError}
                     ELSE {HeldEntries'[i].session : i \in hits}
<1> DEFINE q == HeldEntries
           len == LiveCount
<1> USE DEF IInv
<1>1. PICK k \in Slots :
          /\ PurgeStop(k)
          /\ entriesDict' = Without(entriesDict, IDsAt(Between(firstIndex, k)))
          /\ firstIndex' = IF PurgeFails(k) THEN firstIndex ELSE k
          /\ returned' =
                IF /\ ~PurgeFails(k)
                   /\ id \in DOMAIN entriesDict'
                   /\ Valid(entriesDict'[id])
                THEN entriesDict'[id]
                ELSE KeyError
  BY DEF GetItem
<1>2. ~PurgeFails(k) /\ firstIndex' = k
  BY <1>1, PurgeSucceeds
<1>3. /\ firstIndex \in Slots /\ lastIndex \in Slots
      /\ k \in Between(firstIndex, lastIndex) \cup {lastIndex}
      /\ lastIndex' = lastIndex /\ entriesList' = entriesList
  BY <1>1 DEF TypeOK, PurgeStop, Live, GetItem
<1> DEFINE n == Distance(firstIndex, k)
<1>4. /\ len = Distance(firstIndex, lastIndex) /\ len \in 0..(MaxEntries - 1)
      /\ q = [i \in 1..len |->
                 Entry(entriesList, entriesDict, Ahead(firstIndex, i))]
      /\ q \in Seq({Entry(entriesList, entriesDict, j) : j \in Slots})
      /\ Len(q) = len
  BY HeldFacts
<1>5. /\ LiveCount' = Distance(k, lastIndex)
      /\ HeldEntries' =
            [i \in 1..LiveCount' |->
                Entry(entriesList, entriesDict', Ahead(k, i))]
  BY <1>2, <1>3 DEF LiveCount, Distance, HeldEntries, Entry, Ahead
<1>6. /\ n \in 0..len /\ LiveCount' = len - n
      /\ \A i \in 1..(len - n) : Ahead(k, i) = Ahead(firstIndex, i + n)
  <2>1. /\ n \in 0..Distance(firstIndex, lastIndex)
        /\ Distance(k, lastIndex) = Distance(firstIndex, lastIndex) - n
        /\ \A i \in 1..Distance(k, lastIndex) :
              Ahead(k, i) = Ahead(firstIndex, i + n)
    BY <1>3, AheadFrom
  <2> QED
    BY <1>4, <1>5, <2>1
<1> HIDE DEF n, len, q
<1>7. HeldEntries' = [i \in 1..(len - n) |-> q[i + n]]
  <2>1. ASSUME NEW i \in 1..(len - n)
        PROVE  Entry(entriesList, entriesDict', Ahead(k, i)) = q[i + n]
    <3>1. Ahead(k, i) \in Between(k, lastIndex)
      BY <1>3, <1>5, <1>6, AheadWalks
    <3>2. entriesList[Ahead(k, i)].id \notin IDsAt(Between(firstIndex, k))
          /\ entriesList[Ahead(k, i)].id \in DOMAIN entriesDict
      BY <1>3, <3>1, BetweenSplits DEF Live, RingMatchesDict, IDsAt
    <3>3. Entry(entriesList, entriesDict', Ahead(k, i)) =
          Entry(entriesList, entriesDict, Ahead(k, i))
      BY <1>1, <3>2 DEF Entry, Without
    <3>4. i + n \in 1..len
      BY <1>4, <1>6
    <3> QED
      BY <1>4, <1>6, <3>3, <3>4
  <2> QED
    BY <1>5, <1>6, <2>1
<1>8. HeldEntries' = SubSeq(q, n + 1, Len(q))
  BY <1>4, <1>6, <1>7, SubSeqElements
<1>9. ASSUME NEW i \in DOMAIN q
      PROVE  Abstract!Fresh(q[i]) <=> i > n
  <2>1. /\ i \in 1..len /\ i \in Int /\ n \in Int /\ len \in Int
        /\ q[i].at = entriesList[Ahead(firstIndex, i)].at
        /\ q[i].at \in Int
    BY <1>4, <1>6, <1>9, MaxEntriesAssumption DEF Entry, Aging, Aged, q
  <2>2. CASE i <= n
    <3>1. Ahead(firstIndex, i) \in Between(firstIndex, k)
      BY <1>3, <2>1, <2>2, AheadWalks DEF n
    <3>2. clock - q[i].at > MaxAge
      BY <1>1, <2>1, <3>1 DEF PurgeStop, Expired
    <3> QED
      BY <2>1, <2>2, <3>2, TimesAreIntegers DEF Abstract!Fresh
  <2>3. CASE i > n
    <3>1. n + 1 \in 1..len /\ n + 1 <= i /\ k # lastIndex
      BY <1>4, <1>6, <2>1, <2>3 DEF n
    <3>2. Ahead(firstIndex, n + 1) = k
      BY <1>3, AheadWalks DEF n
    <3>3. q[n + 1].at = entriesList[k].at
      BY <1>4, <3>1, <3>2 DEF Entry
    <3>4. ~(clock - q[n + 1].at > MaxAge)
      BY <1>2, <3>1, <3>3 DEF PurgeFails, Expired
    <3>5. /\ q[n + 1].at <= q[i].at
          /\ q[n + 1].at \in Int /\ q[i].at \in Int
      BY <1>4, <2>1, <3>1 DEF Aging, Aged, q
    <3> QED
      BY <2>1, <2>3, <3>4, <3>5, TimesAreIntegers DEF Abstract!Fresh
  <2> QED
    BY <2>1, <2>2, <2>3
<1>10. returned' \in
          LET hits == {i \in DOMAIN HeldEntries' :
                          /\ HeldEntries'[i].id = id
                          /\ HeldEntries'[i].session \in resumable}
          IN  IF hits = {} THEN {KeyError}
              ELSE {HeldEntries'[i].session : i \in hits}
  <2>1. DOMAIN entriesDict' = {entriesList[j].id : j \in Between(k, lastIndex)}
    <3>1. IInv'
      BY GetItemKeepsIInv
    <3> QED
      BY <1>2, <1>3, <3>1 DEF RingMatchesDict, IDsAt, Live
  <2> DEFINE r == [i \in 1..Distance(k, lastIndex) |->
                      Entry(entriesList, entriesDict', Ahead(k, i))]
             dict == entriesDict'
  <2>2. /\ HeldEntries' = r
        /\ DOMAIN r = 1..Distance(k, lastIndex)
        /\ \A i \in DOMAIN r : r[i] = Entry(entriesList, dict, Ahead(k, i))
        /\ \A j \in Between(k, lastIndex) : entriesList[j].id \in DOMAIN dict
        /\ \A x \in DOMAIN dict :
              \E j \in Between(k, lastIndex) : entriesList[j].id = x
    BY <1>5, <2>1
  <2> HIDE DEF r, dict
  <2>3. ASSUME NEW i \in DOMAIN r
        PROVE  r[i].id \in DOMAIN dict /\ r[i].session = dict[r[i].id]
    <3>1. Ahead(k, i) \in Between(k, lastIndex)
      BY <1>3, <2>2, AheadWalks
    <3> QED
      BY <2>2, <3>1 DEF Entry
  <2>4. ASSUME NEW x \in DOMAIN dict
        PROVE  \E i \in DOMAIN r : r[i].id = x
    <3>1. PICK j \in Between(k, lastIndex) : entriesList[j].id = x
      BY <2>2
    <3>2. PICK i \in DOMAIN r : j = Ahead(k, i)
      BY <1>3, <2>2, AheadWalks
    <3> QED
      BY <2>2, <3>1, <3>2 DEF Entry
  <2>5. returned' \in
           LET hits == {i \in DOMAIN r : /\ r[i].id = id
                                         /\ r[i].session \in resumable}
           IN  IF hits = {} THEN {KeyError} ELSE {r[i].session : i \in hits}
    BY <1>1, <1>2, <2>3, <2>4 DEF Valid, dict
  <2> QED
    BY <2>2, <2>5
<1> QED
  BY <1>4, <1>6, <1>8, <1>9, <1>10 DEF q

\* The queue stays in the order of the times if the clock never goes back.
LEMMA AgingStep ==
    ASSUME ClockSteps \subseteq Nat, IInv, Aging, [Next]_vars
    PROVE  Aging'
<1> USE DEF IInv
<1>0. /\ clock \in Int /\ HeldEntries \in
            Seq({Entry(entriesList, entriesDict, k) : k \in Slots})
      /\ Len(HeldEntries) \in Nat /\ DOMAIN HeldEntries = 1..Len(HeldEntries)
  BY TimesAreIntegers, HeldFacts, LenProperties
<1>1. ASSUME NEW id \in SessionIDs, NEW s \in Sessions, SetItem(id, s)
      PROVE  Aging'
  <2> DEFINE all == Append(HeldEntries,
                           [id |-> id, session |-> s, at |-> clock])
  <2>1. HeldEntries' = IF Len(all) > MaxEntries - 1 THEN Tail(all) ELSE all
    BY <1>1, SetItemQueues
  <2>2. all # <<>>
    BY <1>0, AppendLength
  <2>3. Aged(all, clock) /\ Aged(Tail(all), clock)
    BY <1>0, <2>2, AgedAppends DEF Aging
  <2>4. clock' = clock
    BY <1>1 DEF SetItem
  <2> QED
    BY <2>1, <2>3, <2>4 DEF Aging
<1>2. ASSUME NEW id \in SessionIDs, GetItem(id)
      PROVE  Aging'
  <2>1. PICK n \in 0..Len(HeldEntries) :
           HeldEntries' = SubSeq(HeldEntries, n + 1, Len(HeldEntries))
    BY <1>2, GetItemForgets
  <2>2. SubSeq(HeldEntries, n + 1, Len(HeldEntries)) =
           [i \in 1..(Len(HeldEntries) - n) |-> HeldEntries[i + n]]
    BY <1>0, SubSeqElements
  <2>3. clock' = clock
    BY <1>2 DEF GetItem
  <2>4. Aged([i \in 1..(Len(HeldEntries) - n) |-> HeldEntries[i + n]], clock)
    BY <1>0, AgedForgets DEF Aging
  <2> QED
    BY <2>1, <2>2, <2>3, <2>4 DEF Aging
<1>3. ASSUME NEW s \in Sessions, Invalidate(s)
      PROVE  Aging'
  BY <1>3 DEF Invalidate, Aging, HeldEntries, LiveCount
<1>4. CASE Tick
  <2>1. HeldEntries' = HeldEntries
    BY <1>4 DEF Tick, HeldEntries, LiveCount
  <2>2. clock' \in Int /\ clock <= clock'
    BY <1>0, <1>4 DEF Tick
  <2>3. Aged(HeldEntries, clock')
    BY <1>0, <2>2 DEF Aging, Aged
  <2> QED
    BY <2>1, <2>3 DEF Aging
<1>5. CASE UNCHANGED vars
  BY <1>5 DEF vars, Aging, HeldEntries, LiveCount
<1> QED
  BY <1>1, <1>2, <1>3, <1>4, <1>5 DEF Next

\* Each step of the cache is a step of the store.
LEMMA StepImplements ==
    ASSUME IInv, Aging, [Next]_vars
    PROVE  [Abstract!Next]_(Abstract!svars)
<1> USE DEF IInv
<1>1. ASSUME NEW id \in SessionIDs, NEW s \in Sessions, SetItem(id, s)
      PROVE  Abstract!Store(id, s)
  <2>1. \A i \in DOMAIN HeldEntries : HeldEntries[i].id # id
    <3>1. \A i \in DOMAIN HeldEntries : Ahead(firstIndex, i) \in Live
      BY HeldFacts, AheadWalks DEF TypeOK, Live
    <3>2. \A i \in DOMAIN HeldEntries :
             HeldEntries[i].id = entriesList[Ahead(firstIndex, i)].id
      BY HeldFacts DEF Entry
    <3>3. id \notin IDsAt(Live)
      BY <1>1 DEF SetItem, LiveIDsUsed
    <3> QED
      BY <3>1, <3>2, <3>3 DEF IDsAt
  <2> QED
    BY <1>1, <2>1, SetItemQueues DEF Abstract!Store, SetItem
<1>2. ASSUME NEW id \in SessionIDs, GetItem(id)
      PROVE  Abstract!Lookup(id)
  BY <1>2, GetItemForgets DEF Abstract!Lookup, GetItem
<1>3. ASSUME NEW s \in Sessions, Invalidate(s)
      PROVE  Abstract!Invalidate(s)
  BY <1>3 DEF Invalidate, Abstract!Invalidate, HeldEntries, LiveCount
<1>4. ASSUME Tick
      PROVE  Abstract!Tick
  <2>1. HeldEntries' = HeldEntries
    BY <1>4 DEF Tick, HeldEntries, LiveCount
  <2>2. UNCHANGED <<resumable, returned>>
    BY <1>4 DEF Tick
  <2>3. \E d \in ClockSteps : clock' = clock + d
    BY <1>4 DEF Tick
  <2> QED
    BY <2>1, <2>2, <2>3 DEF Abstract!Tick
<1>5. CASE UNCHANGED vars
  BY <1>5 DEF vars, Abstract!svars, HeldEntries, LiveCount
<1> QED
  BY <1>1, <1>2, <1>3, <1>4, <1>5 DEF Next, Abstract!Next

\* The ring and the dictionary implement a bounded queue of sessions, for
\* every size and age, on a machine whose clock never goes back: a session
\* is lost only as the oldest of MaxEntries or for its age, and a session
\* too old or no longer resumable is never handed out.
THEOREM SessionCacheRefined ==
    ASSUME ClockSteps \subseteq Nat
    PROVE  Spec => ImplementsSessionStore
<1>1. Init => IInv /\ Aging /\ Abstract!Init
  <2>1. SUFFICES ASSUME Init
                 PROVE  IInv /\ Aging /\ Abstract!Init
    OBVIOUS
  <2>2. IInv
    BY <2>1, InitIInv
  <2>3. LiveCount = 0
    <3>1. 0 \in Slots
      BY MaxEntriesAssumption DEF Slots
    <3>2. Distance(0, 0) = 0
      BY <3>1, DistanceValue
    <3>3. LiveCount = Distance(0, 0)
      BY <2>1 DEF Init, LiveCount, Distance
    <3> QED
      BY <3>2, <3>3
  <2>4. HeldEntries = <<>>
    BY <2>3 DEF HeldEntries
  <2>5. Aging
    BY <2>4 DEF Aging, Aged
  <2> QED
    BY <2>1, <2>2, <2>4, <2>5 DEF Init, Abstract!Init
<1>2. IInv /\ Aging /\ [Next]_vars => IInv' /\ Aging'
  BY StepKeepsIInv, AgingStep
<1>3. IInv /\ Aging /\ [Next]_vars => [Abstract!Next]_(Abstract!svars)
  BY StepImplements
<1> QED
  BY <1>1, <1>2, <1>3, PTL DEF Spec, ImplementsSessionStore, Abstract!Spec
=============================================================================
