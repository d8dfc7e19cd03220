-------------------------- MODULE MappedDnsProofs --------------------------
(***************************************************************************)
(* Proofs about MappedDns, for any set of names and any size of the cache. *)
(***************************************************************************)
EXTENDS MappedDns, ListLemmas, TLAPS

\* OneCache, with the list as one without repetitions, and the types it needs.
CacheInv ==
    /\ list \in Seq(Names) /\ NoRepeat(list)
    /\ tree \subseteq Names
    /\ \A n \in Names : n \in tree <=> InList(list, n)
    /\ records \in [Slots -> Names \cup {None}]
    /\ idx \in [Names -> Slots \cup {None}]
    /\ use = Len(list) /\ use <= CacheSize
    /\ \A n \in Names : n \in tree <=> idx[n] # None
    /\ \A n \in tree : idx[n] < use /\ records[idx[n]] = n
    /\ \A i \in Slots : i >= use <=> records[i] = None
    /\ \A i \in Slots :
          records[i] # None => records[i] \in tree /\ idx[records[i]] = i

LEMMA NoneIsNoSlot == None \notin Slots /\ None \notin Names
BY NoneAssumption DEF Slots

LEMMA EmptyCacheInv ==
    ASSUME tree = {}, list = <<>>, use = 0,
           records = [i \in Slots |-> None], idx = [n \in Names |-> None]
    PROVE  CacheInv
<1>1. list \in Seq(Names) /\ Len(list) = 0 /\ \A n : ~InList(list, n)
  BY DEF InList
<1>2. NoRepeat(list)
  BY <1>1 DEF NoRepeat
<1>3. CacheSize \in Nat /\ \A i \in Slots : i >= 0
  BY CacheSizeAssumption DEF Slots
<1> QED
  BY <1>1, <1>2, <1>3 DEF CacheInv

\* A name that is used again: the order of the list changes and nothing else.
LEMMA MovedKeepsCache ==
    ASSUME CacheInv, NEW n \in tree, list' = MovedToTail(n),
           UNCHANGED <<tree, records, idx, use>>
    PROVE  CacheInv'
<1> DEFINE rest == RemoveFirst(list, n)
<1>1. n \in Names /\ InList(list, n) /\ Len(list) \in Nat
  BY LenProperties DEF CacheInv
<1>2. /\ rest \in Seq(Names) /\ NoRepeat(rest)
      /\ Len(rest) = Len(list) - 1
      /\ \A x : InList(rest, x) <=> InList(list, x) /\ x # n
  BY <1>1, RemoveFirstProperties DEF CacheInv
<1> HIDE DEF rest
<1>3. /\ Append(rest, n) \in Seq(Names) /\ NoRepeat(Append(rest, n))
      /\ Len(Append(rest, n)) = Len(rest) + 1
      /\ \A x : InList(Append(rest, n), x) <=> InList(rest, x) \/ x = n
  BY <1>1, <1>2, AppendList
<1>4. list' = Append(rest, n)
  BY DEF MovedToTail, rest
<1>5. /\ list' \in Seq(Names) /\ NoRepeat(list') /\ Len(list') = Len(list)
      /\ \A x : InList(list', x) <=> InList(list, x)
  BY <1>1, <1>2, <1>3, <1>4
<1> QED
  BY <1>5 DEF CacheInv

LEMMA FindFreeKeepsCache ==
    ASSUME CacheInv, NEW n \in Names, FindFree(n)
    PROVE  CacheInv'
<1>1. /\ n \notin tree /\ ~InList(list, n)
      /\ use \in Nat /\ use \in Slots /\ CacheSize \in Nat
  BY CacheSizeAssumption, LenProperties DEF CacheInv, FindFree, Slots
<1>2. /\ list' \in Seq(Names) /\ NoRepeat(list')
      /\ Len(list') = Len(list) + 1
      /\ \A x : InList(list', x) <=> InList(list, x) \/ x = n
  BY <1>1, AppendList DEF CacheInv, FindFree
<1>3. /\ tree' = tree \cup {n} /\ use' = use + 1
      /\ records' = [records EXCEPT ![use] = n]
      /\ idx' = [idx EXCEPT ![n] = use]
  BY DEF FindFree
<1>4. /\ records' \in [Slots -> Names \cup {None}]
      /\ idx' \in [Names -> Slots \cup {None}]
  BY <1>1, <1>3 DEF CacheInv
<1>5. use' = Len(list') /\ use' <= CacheSize
  BY <1>1, <1>2, <1>3 DEF CacheInv, FindFree
<1>6. \A m \in Names : m \in tree' <=> idx'[m] # None
  BY <1>1, <1>3, NoneIsNoSlot DEF CacheInv
<1>7. ASSUME NEW m \in tree' PROVE idx'[m] < use' /\ records'[idx'[m]] = m
  <2>1. CASE m = n
    BY <1>1, <1>3, <2>1 DEF CacheInv
  <2>2. CASE m # n
    <3>1. m \in tree /\ m \in Names
      BY <1>3, <2>2 DEF CacheInv
    <3>2. idx[m] \in Slots /\ idx[m] < use /\ records[idx[m]] = m /\ idx'[m] = idx[m]
      BY <1>3, <2>2, <3>1 DEF CacheInv
    <3>3. idx[m] \in Int
      BY <3>2 DEF Slots
    <3> QED
      BY <1>1, <1>3, <3>2, <3>3 DEF CacheInv
  <2> QED
    BY <2>1, <2>2
<1>8. ASSUME NEW i \in Slots PROVE i >= use' <=> records'[i] = None
  <2>1. i \in Int
    BY DEF Slots
  <2>2. records'[i] = IF i = use THEN n ELSE records[i]
    BY <1>3 DEF CacheInv
  <2>3. i >= use <=> records[i] = None
    BY DEF CacheInv
  <2> QED
    BY <1>1, <1>3, <2>1, <2>2, <2>3, NoneIsNoSlot
<1>9. ASSUME NEW i \in Slots, records'[i] # None
      PROVE  records'[i] \in tree' /\ idx'[records'[i]] = i
  <2>1. CASE i = use
    BY <1>1, <1>3, <2>1 DEF CacheInv
  <2>2. CASE i # use
    <3>1. records'[i] = records[i] /\ records[i] \in tree /\ idx[records[i]] = i
      BY <1>3, <1>9, <2>2 DEF CacheInv
    <3> QED
      BY <1>1, <1>3, <3>1 DEF CacheInv
  <2> QED
    BY <2>1, <2>2
<1> QED
  BY <1>1, <1>2, <1>3, <1>4, <1>5, <1>6, <1>7, <1>8, <1>9 DEF CacheInv

\* The name used longest ago is not the new one, as the cache is not empty.
LEMMA FindEvictKeepsCache ==
    ASSUME CacheInv, NEW n \in Names, FindEvict(n)
    PROVE  CacheInv'
<1> DEFINE longer == Append(list, n)
           freed == Head(longer)
<1>1. /\ n \notin tree /\ ~InList(list, n)
      /\ use \in Nat /\ CacheSize \in Nat /\ use = CacheSize /\ use > 0
      /\ Len(list) = use
  BY CacheSizeAssumption, LenProperties DEF CacheInv, FindEvict
<1>2. /\ longer \in Seq(Names) /\ NoRepeat(longer)
      /\ Len(longer) = Len(list) + 1
      /\ \A x : InList(longer, x) <=> InList(list, x) \/ x = n
  BY <1>1, AppendList DEF CacheInv
<1>3. freed = list[1] /\ freed \in tree /\ freed \in Names /\ freed # n
  <2>1. list \in Seq(Names) /\ 1 \in 1 .. Len(list)
    BY <1>1 DEF CacheInv
  <2>2. longer[1] = list[1]
    BY <2>1, AppendProperties
  <2>3. freed = longer[1]
    BY <1>1, <1>2, HeadTailProperties
  <2>4. list[1] \in Names /\ InList(list, list[1])
    BY <2>1 DEF InList
  <2> QED
    BY <1>1, <2>2, <2>3, <2>4 DEF CacheInv
<1>4. InList(longer, freed)
  BY <1>2, <1>3 DEF CacheInv
<1> HIDE DEF freed, longer
<1>5. /\ list' \in Seq(Names) /\ NoRepeat(list')
      /\ Len(list') = Len(list)
      /\ \A x : InList(list', x) <=> (InList(list, x) \/ x = n) /\ x # freed
  <2>1. list' = RemoveFirst(longer, freed)
    BY DEF FindEvict, longer, freed
  <2> QED
    BY <1>1, <1>2, <1>4, <2>1, RemoveFirstProperties
<1>6. /\ tree' = (tree \cup {n}) \ {freed} /\ use' = use
      /\ records' = [records EXCEPT ![idx[freed]] = n]
      /\ idx' = [idx EXCEPT ![freed] = None, ![n] = idx[freed]]
  BY DEF FindEvict, TreeAfter, longer, freed
<1>7. idx[freed] \in Slots /\ idx[freed] < use /\ records[idx[freed]] = freed
  BY <1>3 DEF CacheInv
<1>8. /\ records' \in [Slots -> Names \cup {None}]
      /\ idx' \in [Names -> Slots \cup {None}]
  BY <1>6, <1>7 DEF CacheInv
<1>9. \A m \in Names : idx'[m] = IF m = n THEN idx[freed]
                                 ELSE IF m = freed THEN None ELSE idx[m]
  BY <1>3, <1>6 DEF CacheInv
<1>10. \A m \in Names : m \in tree' <=> idx'[m] # None
  BY <1>3, <1>6, <1>7, <1>9, NoneIsNoSlot DEF CacheInv
<1>11. ASSUME NEW m \in tree' PROVE idx'[m] < use' /\ records'[idx'[m]] = m
  <2>1. m \in Names
    BY <1>6 DEF CacheInv
  <2>2. CASE m = n
    BY <1>6, <1>7, <1>9, <2>1, <2>2 DEF CacheInv
  <2>3. CASE m # n
    <3>1. m \in tree /\ m # freed /\ idx'[m] = idx[m]
      BY <1>6, <1>9, <2>1, <2>3
    <3>2. idx[m] \in Slots /\ idx[m] < use /\ records[idx[m]] = m
      BY <2>1, <3>1 DEF CacheInv
    <3>3. idx[m] # idx[freed]
      BY <1>7, <3>1, <3>2
    <3> QED
      BY <1>6, <3>1, <3>2, <3>3 DEF CacheInv
  <2> QED
    BY <2>2, <2>3
<1>12. ASSUME NEW i \in Slots PROVE i >= use' <=> records'[i] = None
  <2>1. i \in Int /\ idx[freed] \in Int
    BY <1>7 DEF Slots
  <2>2. records'[i] = IF i = idx[freed] THEN n ELSE records[i]
    BY <1>6 DEF CacheInv
  <2>3. i >= use <=> records[i] = None
    BY DEF CacheInv
  <2> QED
    BY <1>1, <1>6, <1>7, <2>1, <2>2, <2>3, NoneIsNoSlot
<1>13. tree' \subseteq Names /\ \A m \in Names : m \in tree' <=> InList(list', m)
  BY <1>5, <1>6 DEF CacheInv
<1>14. ASSUME NEW i \in Slots, records'[i] # None
       PROVE  records'[i] \in tree' /\ idx'[records'[i]] = i
  <2>1. CASE i = idx[freed]
    <3>1. records'[i] = n
      BY <1>6, <1>7, <2>1 DEF CacheInv
    <3>2. n \in tree'
      BY <1>3, <1>6
    <3>3. idx'[n] = i
      BY <1>9, <2>1
    <3> QED
      BY <3>1, <3>2, <3>3
  <2>2. CASE i # idx[freed]
    <3>1. records'[i] = records[i] /\ records[i] \in tree /\ idx[records[i]] = i
      BY <1>6, <1>14, <2>2 DEF CacheInv
    <3>2. records[i] # freed /\ records[i] # n /\ records[i] \in Names
      BY <1>1, <2>2, <3>1 DEF CacheInv
    <3>3. records[i] \in tree'
      BY <1>6, <3>1, <3>2
    <3>4. idx'[records[i]] = i
      BY <1>9, <3>1, <3>2
    <3> QED
      BY <3>1, <3>3, <3>4
  <2> QED
    BY <2>1, <2>2
<1> QED
  BY <1>1, <1>5, <1>6, <1>8, <1>10, <1>11, <1>12, <1>13, <1>14 DEF CacheInv

LEMMA FindKeepsCache ==
    ASSUME CacheInv, NEW n \in Names, Find(n)
    PROVE  CacheInv' /\ idx'[n] \in Slots
<1>1. CacheInv' /\ n \in tree'
  <2>1. CASE FindHit(n)
    BY <2>1, MovedKeepsCache DEF FindHit
  <2>2. CASE FindFree(n)
    BY <2>2, FindFreeKeepsCache DEF FindFree
  <2>3. CASE FindEvict(n)
    <3>1. CacheInv'
      BY <2>3, FindEvictKeepsCache
    <3>2. idx'[n] # None
      <4>1. ~InList(list, n) /\ Len(list) > 0 /\ list \in Seq(Names)
        BY <2>3, CacheSizeAssumption, LenProperties DEF FindEvict, CacheInv
      <4>2. Head(Append(list, n)) = list[1]
        BY <4>1, AppendProperties, HeadTailProperties, LenProperties
      <4>3. list[1] \in tree /\ list[1] # n
        BY <4>1, LenProperties DEF InList, CacheInv
      <4>4. idx'[n] = idx[list[1]]
        BY <2>3, <4>2, <4>3 DEF FindEvict, CacheInv
      <4> QED
        BY <4>3, <4>4, NoneIsNoSlot DEF CacheInv
    <3> QED
      BY <3>1, <3>2 DEF CacheInv
  <2> QED
    BY <2>1, <2>2, <2>3 DEF Find
<1> QED
  BY <1>1 DEF CacheInv

-----------------------------------------------------------------------------
(* The packets                                                             *)

\* The loop stays within the questions, and an answer is filed under one.
PacketInv ==
    /\ query \in Seq(Question) \cup {None}
    /\ off \in 1 .. MaxQuestions + 1
    /\ query # None => Len(query) <= MaxQuestions
    /\ answers \in Seq([at : 1 .. MaxQuestions, host : Slots])

TargetType == target \in [mapped : BOOLEAN, host : Hosts, name : Names \cup {None}]

DnsInv == CacheInv /\ PacketInv /\ TargetType

LEMMA InitDnsInv == Init => DnsInv
<1> SUFFICES ASSUME Init PROVE DnsInv
  OBVIOUS
<1>1. CacheInv
  BY EmptyCacheInv DEF Init, EmptyCache
<1>2. PacketInv
  BY QuestionsAssumption DEF Init, PacketInv
<1>3. TargetType
  BY CacheSizeAssumption DEF Init, NoTarget, TargetType, Hosts
<1> QED
  BY <1>1, <1>2, <1>3 DEF DnsInv

\* The question the loop is at.
LEMMA QuestionType ==
    ASSUME PacketInv, query # None, off <= Len(query)
    PROVE  /\ off \in 1 .. MaxQuestions /\ off + 1 \in 1 .. MaxQuestions + 1
           /\ query[off].type = "A" => query[off].name \in Names
<1>1. query \in Seq(Question) /\ Len(query) \in Nat /\ off \in Nat /\ off >= 1
  BY QuestionsAssumption, LenProperties DEF PacketInv
<1>2. query[off] \in Question
  BY <1>1
<1>3. query[off].type = "A" => query[off].name \in Names
  BY <1>2 DEF Question
<1> QED
  BY <1>1, <1>3, QuestionsAssumption DEF PacketInv

LEMMA ReceiveInv ==
    ASSUME DnsInv, NEW q \in Packets, Receive(q)
    PROVE  DnsInv'
<1>1. PICK k \in 0 .. MaxQuestions : q \in [1 .. k -> Question]
  BY DEF Packets
<1>2. q \in Seq(Question) /\ Len(q) = k /\ k <= MaxQuestions
  BY <1>1, QuestionsAssumption
<1>3. PacketInv'
  BY <1>2, QuestionsAssumption DEF Receive, PacketInv
<1>4. CacheInv' /\ TargetType'
  BY DEF Receive, cache, DnsInv, CacheInv, TargetType
<1> QED
  BY <1>3, <1>4 DEF DnsInv

LEMMA AskAddressInv == DnsInv /\ AskAddress => DnsInv'
<1> SUFFICES ASSUME DnsInv, AskAddress PROVE DnsInv'
  OBVIOUS
<1> DEFINE name == query[off].name
           answer == Answer(idx'[name])
<1>1. /\ query # None /\ off <= Len(query) /\ query[off].type = "A" /\ Find(name)
      /\ answers' = Append(answers, answer) /\ off' = off + 1
      /\ UNCHANGED <<query, target>>
  BY DEF AskAddress
<1>2. off \in 1 .. MaxQuestions /\ off + 1 \in 1 .. MaxQuestions + 1 /\ name \in Names
  BY <1>1, QuestionType DEF DnsInv
<1> HIDE DEF name
<1>3. CacheInv' /\ idx'[name] \in Slots
  BY <1>1, <1>2, FindKeepsCache DEF DnsInv
<1>4. answer \in [at : 1 .. MaxQuestions, host : Slots]
  BY <1>2, <1>3 DEF Answer
<1> HIDE DEF answer
<1>5. answers' \in Seq([at : 1 .. MaxQuestions, host : Slots])
  BY <1>1, <1>4, AppendProperties DEF DnsInv, PacketInv
<1>6. PacketInv' /\ TargetType'
  BY <1>1, <1>2, <1>5 DEF DnsInv, PacketInv, TargetType
<1> QED
  BY <1>3, <1>6 DEF DnsInv

LEMMA AskRestInv == DnsInv /\ (AskOther \/ AskCut \/ Reply) => DnsInv'
<1> SUFFICES ASSUME DnsInv, AskOther \/ AskCut \/ Reply PROVE DnsInv'
  OBVIOUS
<1>1. UNCHANGED cache /\ UNCHANGED target
  BY DEF AskOther, AskCut, Reply
<1>2. CacheInv' /\ TargetType'
  BY <1>1 DEF cache, DnsInv, CacheInv, TargetType
<1>3. CASE AskOther
  <2>1. off + 1 \in 1 .. MaxQuestions + 1
    BY <1>3, QuestionType DEF AskOther, DnsInv
  <2>2. PacketInv'
    BY <1>3, <2>1 DEF AskOther, DnsInv, PacketInv
  <2> QED
    BY <1>2, <2>2 DEF DnsInv
<1>4. CASE AskCut \/ Reply
  <2>1. query' = None /\ off' = 1 /\ answers' = <<>>
    BY <1>4 DEF AskCut, Reply
  <2>2. 1 \in 1 .. MaxQuestions + 1
    BY QuestionsAssumption
  <2>3. PacketInv'
    BY <2>1, <2>2 DEF PacketInv
  <2> QED
    BY <1>2, <2>3 DEF DnsInv
<1> QED
  BY <1>3, <1>4

LEMMA LookupInv ==
    ASSUME DnsInv, NEW mapped \in BOOLEAN, NEW host \in Hosts, Lookup(mapped, host)
    PROVE  DnsInv'
<1>1. SlotOf(host) \in Names \cup {None}
  BY CacheSizeAssumption DEF SlotOf, DnsInv, CacheInv, Hosts, Slots
<1>2. TargetType'
  BY <1>1 DEF Lookup, TargetType
<1>3. PacketInv'
  BY DEF Lookup, packet, DnsInv, PacketInv
<1>4. CacheInv'
  <2>1. CASE SlotOf(host) = None
    BY <2>1 DEF Lookup, DnsInv, CacheInv
  <2>2. CASE SlotOf(host) # None
    <3>1. host \in Slots /\ records[host] = SlotOf(host) /\ host < use
      BY <2>2, LenProperties, CacheSizeAssumption DEF SlotOf, Slots, Hosts, DnsInv, CacheInv
    <3>2. SlotOf(host) \in tree
      BY <3>1, <1>1, <2>2 DEF DnsInv, CacheInv
    <3> QED
      BY <2>2, <3>2, MovedKeepsCache DEF Lookup, DnsInv
  <2> QED
    BY <2>1, <2>2
<1> QED
  BY <1>2, <1>3, <1>4 DEF DnsInv

LEMMA NextDnsInv == DnsInv /\ [Next]_vars => DnsInv'
<1> SUFFICES ASSUME DnsInv, [Next]_vars PROVE DnsInv'
  OBVIOUS
<1>1. ASSUME NEW q \in Packets, Receive(q) PROVE DnsInv'
  BY <1>1, ReceiveInv
<1>2. CASE AskAddress
  BY <1>2, AskAddressInv
<1>3. CASE AskOther \/ AskCut \/ Reply
  BY <1>3, AskRestInv
<1>4. ASSUME NEW mapped \in BOOLEAN, NEW host \in Hosts, Lookup(mapped, host)
      PROVE  DnsInv'
  BY <1>4, LookupInv
<1>5. CASE Restart
  <2>1. CacheInv'
    <3>1. (tree = {} /\ list = <<>> /\ use = 0 /\ records = [i \in Slots |-> None]
             /\ idx = [n \in Names |-> None])'
      BY <1>5 DEF Restart
    <3> QED
      BY <3>1, EmptyCacheInv, PTL
  <2>2. PacketInv' /\ TargetType'
    BY <1>5, CacheSizeAssumption
       DEF Restart, packet, NoTarget, Hosts, DnsInv, PacketInv, TargetType
  <2> QED
    BY <2>1, <2>2 DEF DnsInv
<1>6. CASE UNCHANGED vars
  BY <1>6 DEF vars, cache, packet, DnsInv, CacheInv, PacketInv, TargetType
<1> QED
  BY <1>1, <1>2, <1>3, <1>4, <1>5, <1>6 DEF Next

LEMMA DnsInvariant == Spec => []DnsInv
BY InitDnsInv, NextDnsInv, PTL DEF Spec

-----------------------------------------------------------------------------
(* The tree, the list, the records and the indices are one cache after any *)
(* sequence of packets and connections, cut packets and restarts included. *)
THEOREM CacheIsOne == Spec => []OneCache
<1>1. DnsInv => OneCache
  <2> SUFFICES ASSUME DnsInv PROVE OneCache
    OBVIOUS
  <2> USE DEF DnsInv, CacheInv
  <2>1. tree = ToSet(list)
    BY LenProperties DEF ToSet, InList
  <2>2. Cardinality(ToSet(list)) = Len(list)
    BY NoRepeatCardinality
  <2> QED
    BY <2>1, <2>2 DEF OneCache
<1> QED
  BY <1>1, DnsInvariant, PTL

(* Every variable keeps its type: no eviction and no packet, however many  *)
(* questions it has, leads to a slot outside the records.                  *)
THEOREM TypeCorrect == Spec => []TypeOK
<1>1. DnsInv => TypeOK
  BY LenProperties, CacheSizeAssumption
     DEF DnsInv, CacheInv, PacketInv, TargetType, TypeOK
<1> QED
  BY <1>1, DnsInvariant, PTL

-----------------------------------------------------------------------------
(* The answers                                                             *)

\* The names the packet being handled has been given answers for.
Answered == {query[answers[i].at].name : i \in 1 .. Len(answers)}

\* Each answer is the address its name has in the cache.  The answered names
\* are the ones used last, so that an eviction reaches them only when the
\* cache holds no other name.
AnswerInv ==
    query # None /\ Cardinality(Asked) <= CacheSize =>
        /\ \A i \in 1 .. Len(answers) :
              LET a == answers[i] IN
                /\ a.at \in 1 .. Len(query) /\ query[a.at].type = "A"
                /\ query[a.at].name \in tree /\ idx[query[a.at].name] = a.host
        /\ Closed(list, Answered)

LEMMA AskedIsFinite ==
    ASSUME PacketInv, query # None
    PROVE  IsFiniteSet(Asked)
<1> DEFINE J == {j \in 1 .. Len(query) : query[j].type = "A"}
           f == [j \in J |-> query[j].name]
<1>1. Len(query) \in Nat
  BY LenProperties DEF PacketInv
<1>2. IsFiniteSet(J)
  <2>1. IsFiniteSet(1 .. Len(query))
    BY <1>1, FS_Interval
  <2>2. J \in SUBSET (1 .. Len(query))
    OBVIOUS
  <2> QED
    BY <2>1, <2>2, FS_Subset
<1>3. f \in Surjection(J, Asked)
  BY DEF Surjection, Asked
<1> QED
  BY <1>2, <1>3, FS_Surjection

\* An eviction while there is room for all names asked for takes none of them.
LEMMA EvictedIsNotAnswered ==
    ASSUME CacheInv, PacketInv, query # None, Cardinality(Asked) <= CacheSize,
           Closed(list, Answered), Answered \subseteq Asked,
           NEW n \in Asked, n \notin tree, n \in Names, use = CacheSize
    PROVE  list[1] \notin Answered
<1> SUFFICES ASSUME list[1] \in Answered PROVE FALSE
  OBVIOUS
<1>1. /\ Len(list) = CacheSize /\ CacheSize \in Nat /\ CacheSize >= 1
      /\ DOMAIN list = 1 .. Len(list)
  <2>1. list \in Seq(Names) /\ Len(list) = CacheSize
    BY DEF CacheInv
  <2>2. CacheSize \in Nat /\ CacheSize >= 1
    BY CacheSizeAssumption
  <2> QED
    BY <2>1, <2>2, LenProperties
<1>2. \A q \in 1 .. Len(list) : list[q] \in Answered
  BY <1>1 DEF Closed
<1>3. ToSet(list) \subseteq Asked
  BY <1>1, <1>2 DEF ToSet
<1>4. n \notin ToSet(list)
  BY <1>1 DEF ToSet, CacheInv, InList
<1>5. IsFiniteSet(ToSet(list)) /\ Cardinality(ToSet(list)) = CacheSize
  BY <1>1, NoRepeatCardinality DEF CacheInv
<1>6. Cardinality(ToSet(list) \cup {n}) = CacheSize + 1
  BY <1>4, <1>5, FS_AddElement
<1>7. ToSet(list) \cup {n} \in SUBSET Asked
  BY <1>3
<1>8. Cardinality(ToSet(list) \cup {n}) <= Cardinality(Asked)
  BY <1>7, AskedIsFinite, FS_Subset
<1>9. Cardinality(Asked) \in Nat
  BY AskedIsFinite, FS_CardinalityType
<1> QED
  BY <1>1, <1>6, <1>8, <1>9

\* What finding a name does to the answered ones.
LEMMA FindKeepsAnswered ==
    ASSUME CacheInv, PacketInv, query # None, Cardinality(Asked) <= CacheSize,
           Closed(list, Answered), Answered \subseteq Asked, Answered \subseteq tree,
           NEW n \in Asked, n \in Names, Find(n)
    PROVE  /\ Closed(list', Answered \cup {n})
           /\ \A m \in Answered \cup {n} : m \in tree'
           /\ \A m \in Answered : idx'[m] = idx[m]
<1> USE DEF CacheInv
<1>1. CASE FindHit(n)
  <2> DEFINE rest == RemoveFirst(list, n)
  <2>1. InList(list, n)
    BY <1>1 DEF FindHit
  <2>2. /\ rest \in Seq(Names) /\ ~InList(rest, n)
        /\ Closed(rest, Answered)
    BY <2>1, RemoveFirstProperties, RemoveFirstClosed
  <2>3. list' = Append(rest, n)
    BY <1>1 DEF FindHit, MovedToTail
  <2> HIDE DEF rest
  <2>4. Closed(list', Answered \cup {n})
    BY <2>2, <2>3, AppendClosed
  <2> QED
    BY <1>1, <2>4 DEF FindHit
<1>2. CASE FindFree(n)
  <2>1. ~InList(list, n) /\ list' = Append(list, n)
    BY <1>2 DEF FindFree
  <2>2. Closed(list', Answered \cup {n})
    BY <2>1, AppendClosed
  <2>3. \A m \in Answered : m # n /\ idx'[m] = idx[m]
    BY <1>2 DEF FindFree
  <2> QED
    BY <1>2, <2>2, <2>3 DEF FindFree
<1>3. CASE FindEvict(n)
  <2> DEFINE longer == Append(list, n)
             freed == Head(longer)
  <2>1. /\ n \notin tree /\ ~InList(list, n) /\ use = CacheSize
        /\ Len(list) \in Nat /\ Len(list) >= 1
    BY <1>3, CacheSizeAssumption, LenProperties DEF FindEvict
  <2>2. /\ longer \in Seq(Names) /\ NoRepeat(longer) /\ longer # <<>>
        /\ \A x : InList(longer, x) <=> InList(list, x) \/ x = n
        /\ Closed(longer, Answered \cup {n})
    BY <2>1, AppendList, AppendClosed
  <2>3. freed = list[1]
    <3>1. list \in Seq(Names) /\ 1 \in 1 .. Len(list)
      BY <2>1
    <3>2. longer[1] = list[1]
      BY <3>1, AppendProperties
    <3>3. freed = longer[1]
      BY <2>2, HeadTailProperties
    <3> QED
      BY <3>2, <3>3
  <2>4. freed \notin Answered
    BY <2>1, <2>3, EvictedIsNotAnswered
  <2>5. InList(longer, freed) /\ freed # n
    BY <2>1, <2>2, <2>3 DEF InList
  <2>6. /\ list' = RemoveFirst(longer, freed)
        /\ tree' = (tree \cup {n}) \ {freed}
        /\ idx' = [idx EXCEPT ![freed] = None, ![n] = idx[freed]]
    BY <1>3 DEF FindEvict, TreeAfter
  <2> HIDE DEF freed, longer
  <2>7. Closed(list', Answered \cup {n})
    BY <2>2, <2>5, <2>6, RemoveFirstClosed
  <2>8. \A m \in Answered \cup {n} : m \in tree'
    BY <2>4, <2>5, <2>6
  <2>9. \A m \in Answered : idx'[m] = idx[m]
    BY <2>1, <2>4, <2>6
  <2> QED
    BY <2>7, <2>8, <2>9
<1> QED
  BY <1>1, <1>2, <1>3 DEF Find

LEMMA AskAddressAnswerInv == DnsInv /\ AnswerInv /\ AskAddress => AnswerInv'
<1> SUFFICES ASSUME DnsInv, AnswerInv, AskAddress, Cardinality(Asked) <= CacheSize
             PROVE  /\ \A i \in 1 .. Len(answers') :
                          LET a == answers'[i] IN
                            /\ a.at \in 1 .. Len(query) /\ query[a.at].type = "A"
                            /\ query[a.at].name \in tree'
                            /\ idx'[query[a.at].name] = a.host
                    /\ Closed(list', Answered')
  BY DEF AskAddress, AnswerInv, Asked
<1> DEFINE n == query[off].name
<1>1. /\ query # None /\ off <= Len(query) /\ query[off].type = "A" /\ Find(n)
      /\ answers' = Append(answers, [at |-> off, host |-> idx'[n]])
      /\ UNCHANGED query
  BY DEF AskAddress, Answer
<1>2. off \in 1 .. Len(query) /\ n \in Names
  BY <1>1, QuestionType, LenProperties DEF DnsInv, PacketInv
<1>3. n \in Asked
  BY <1>1, <1>2 DEF Asked
<1>4. \A i \in 1 .. Len(answers) :
        /\ answers[i].at \in 1 .. Len(query) /\ query[answers[i].at].type = "A"
        /\ query[answers[i].at].name \in tree
        /\ idx[query[answers[i].at].name] = answers[i].host
  BY <1>1 DEF AnswerInv
<1>5. Closed(list, Answered) /\ Answered \subseteq Asked /\ Answered \subseteq tree
  BY <1>1, <1>4 DEF AnswerInv, Answered, Asked
<1> DEFINE answer == [at |-> off, host |-> idx'[n]]
<1>6. answer.at = off /\ answer.host = idx'[n]
  OBVIOUS
<1>7. /\ Len(answers) \in Nat /\ Len(answers') = Len(answers) + 1
      /\ \A i \in 1 .. Len(answers) : answers'[i] = answers[i]
      /\ answers'[Len(answers) + 1] = answer
  <2>1. answers \in Seq([at : 1 .. MaxQuestions, host : Slots])
    BY DEF DnsInv, PacketInv
  <2>2. answer \in [at : 1 .. MaxQuestions, host : Slots]
    BY <1>1, <1>2, QuestionType, FindKeepsCache DEF DnsInv
  <2> HIDE DEF answer
  <2>3. answers' = Append(answers, answer)
    BY <1>1 DEF answer
  <2> QED
    BY <2>1, <2>2, <2>3, AppendProperties, LenProperties
<1> HIDE DEF n, answer
<1>8. /\ Closed(list', Answered \cup {n})
      /\ \A m \in Answered \cup {n} : m \in tree'
      /\ \A m \in Answered : idx'[m] = idx[m]
  BY <1>1, <1>2, <1>3, <1>5, FindKeepsAnswered DEF DnsInv
<1>9. Answered' = Answered \cup {n}
  <2>1. \A i \in 1 .. Len(answers) + 1 :
          query'[answers'[i].at].name =
            IF i = Len(answers) + 1 THEN n ELSE query[answers[i].at].name
    BY <1>1, <1>6, <1>7 DEF n
  <2> QED
    BY <1>7, <2>1 DEF Answered
<1>10. ASSUME NEW i \in 1 .. Len(answers')
       PROVE  /\ answers'[i].at \in 1 .. Len(query) /\ query[answers'[i].at].type = "A"
              /\ query[answers'[i].at].name \in tree'
              /\ idx'[query[answers'[i].at].name] = answers'[i].host
  <2>1. CASE i = Len(answers) + 1
    BY <1>1, <1>2, <1>6, <1>7, <1>8, <2>1 DEF n
  <2>2. CASE i \in 1 .. Len(answers)
    <3>1. query[answers[i].at].name \in Answered
      BY <2>2 DEF Answered
    <3> QED
      BY <1>4, <1>7, <1>8, <2>2, <3>1
  <2> QED
    BY <1>7, <2>1, <2>2
<1> QED
  BY <1>8, <1>9, <1>10

LEMMA NextAnswerInv == DnsInv /\ AnswerInv /\ [Next]_vars => AnswerInv'
<1> SUFFICES ASSUME DnsInv, AnswerInv, [Next]_vars PROVE AnswerInv'
  OBVIOUS
<1>1. ASSUME NEW q \in Packets, Receive(q) PROVE AnswerInv'
  <2>1. answers' = <<>> /\ Len(answers') = 0 /\ list' = list
    BY <1>1 DEF Receive, cache
  <2>2. Answered' = {}
    BY <2>1 DEF Answered
  <2> QED
    BY <2>1, <2>2 DEF AnswerInv, Closed
<1>2. CASE AskAddress
  BY <1>2, AskAddressAnswerInv
<1>3. CASE AskOther \/ UNCHANGED vars
  <2>1. UNCHANGED <<tree, list, idx, query, answers>>
    BY <1>3 DEF AskOther, vars, cache, packet
  <2>2. Answered' = Answered /\ Asked' = Asked
    BY <2>1 DEF Answered, Asked
  <2>3. Closed(list, Answered)' <=> Closed(list, Answered)
    BY <2>1, <2>2 DEF Closed
  <2> QED
    BY <2>1, <2>2, <2>3 DEF AnswerInv
<1>4. CASE AskCut \/ Reply
  BY <1>4 DEF AskCut, Reply, AnswerInv
<1>5. CASE Restart
  BY <1>5 DEF Restart, packet, AnswerInv
<1>6. CASE \E mapped \in BOOLEAN, host \in Hosts : Lookup(mapped, host)
  BY <1>6 DEF Lookup, packet, AnswerInv
<1> QED
  BY <1>1, <1>2, <1>3, <1>4, <1>5, <1>6 DEF Next

(* The address in each answer leads back to the name in its question when  *)
(* the packet is sent, if the packet asks for no more names than the cache *)
(* holds: a later question of it evicts no name that an earlier one asked. *)
THEOREM AnswersAreTrue == Spec => []AnswersLeadBack
<1>1. Init => AnswerInv
  BY DEF Init, AnswerInv
<1>2. DnsInv /\ AnswerInv => AnswersLeadBack
  <2> SUFFICES ASSUME DnsInv, AnswerInv, query # None, Cardinality(Asked) <= CacheSize,
                      NEW i \in 1 .. Len(answers)
               PROVE  /\ query[answers[i].at].type = "A"
                      /\ SlotOf(answers[i].host) = query[answers[i].at].name
    BY DEF AnswersLeadBack
  <2> DEFINE m == query[answers[i].at].name
  <2>1. query[answers[i].at].type = "A" /\ m \in tree /\ idx[m] = answers[i].host
    BY DEF AnswerInv
  <2> HIDE DEF m
  <2>2. idx[m] \in Slots /\ records[idx[m]] = m
    BY <2>1 DEF DnsInv, CacheInv
  <2>3. idx[m] < CacheSize
    BY <2>2, CacheSizeAssumption DEF Slots
  <2> QED
    BY <2>1, <2>2, <2>3 DEF SlotOf, m
<1> QED
  BY <1>1, <1>2, NextAnswerInv, InitDnsInv, NextDnsInv, PTL DEF Spec

-----------------------------------------------------------------------------
(* The promise                                                             *)

\* The book counts with a Cardinality of its own instance of FiniteSets.
LEMMA BookCounts == \A S : Book!Cardinality(S) = Cardinality(S)
BY DEF Book!Cardinality, Cardinality

LEMMA SinceIsBehind ==
    ASSUME CacheInv
    PROVE  /\ Book!Known = tree
           /\ \A m \in Names : Since[m] = IF m \in tree THEN Behind(list, m) ELSE None
<1>1. \A m \in Names : Since[m] = IF m \in tree THEN Behind(list, m) ELSE None
  BY DEF Since, Behind
<1>2. ASSUME NEW m \in tree PROVE Behind(list, m) # None
  <2>1. list \in Seq(Names)
    BY DEF CacheInv
  <2>2. Behind(list, m) \in SUBSET Names
    BY <2>1, LenProperties, BehindPlaces
  <2> QED
    BY <2>2, NoneAssumption
<1> QED
  BY <1>1, <1>2 DEF Book!Known, CacheInv

\* Whom the promise lets forget when n is used: nobody while the names fit,
\* and the name used longest ago when they do not.
LEMMA WhoIsStillKnown ==
    ASSUME CacheInv, NEW n \in Names
    PROVE  /\ n \in tree => Book!StillKnown(n) = tree \ {n}
           /\ n \notin tree /\ use < CacheSize => Book!StillKnown(n) = tree
           /\ n \notin tree /\ use >= CacheSize => Book!StillKnown(n) = tree \ {list[1]}
<1>1. /\ list \in Seq(Names) /\ NoRepeat(list) /\ use = Len(list) /\ use <= CacheSize
      /\ Len(list) \in Nat /\ CacheSize \in Nat
      /\ tree \subseteq Names /\ \A m \in Names : m \in tree <=> InList(list, m)
  BY CacheSizeAssumption, LenProperties DEF CacheInv
<1>2. Book!StillKnown(n) =
        {m \in tree : Cardinality(Behind(list, m) \cup {n}) < CacheSize} \ {n}
  <2>1. Book!Known = tree /\ \A m \in tree : Since[m] = Behind(list, m)
    BY <1>1, SinceIsBehind
  <2>2. Book!StillKnown(n) =
          {m \in Book!Known : Cardinality(Since[m] \cup {n}) < CacheSize} \ {n}
    BY BookCounts DEF Book!StillKnown
  <2> QED
    BY <2>1, <2>2
<1>3. ASSUME NEW m \in tree
      PROVE  /\ IsFiniteSet(Behind(list, m)) /\ Cardinality(Behind(list, m)) \in Nat
             /\ m = list[1] => /\ Behind(list, m) = ToSet(list) \ {m}
                               /\ Cardinality(Behind(list, m)) = use - 1
             /\ m # list[1] => Cardinality(Behind(list, m)) < use - 1
  <2>1. InList(list, m)
    BY <1>1
  <2> QED
    BY <1>1, <2>1, BehindSize
<1>4. ASSUME NEW m \in tree, n \notin Behind(list, m)
      PROVE  Cardinality(Behind(list, m) \cup {n}) = Cardinality(Behind(list, m)) + 1
  BY <1>3, <1>4, FS_AddElement
<1>5. ASSUME n \in tree, NEW m \in tree, m # n
      PROVE  Cardinality(Behind(list, m) \cup {n}) < CacheSize
  <2>1. CASE n \in Behind(list, m)
    <3>1. Behind(list, m) \cup {n} = Behind(list, m)
      BY <2>1
    <3>2. Cardinality(Behind(list, m) \cup {n}) = Cardinality(Behind(list, m))
      BY <3>1, Zenon
    <3>3. Cardinality(Behind(list, m)) \in Nat /\ Cardinality(Behind(list, m)) <= use - 1
      BY <1>1, <1>3, <1>5
    <3> QED
      BY <1>1, <3>2, <3>3
  <2>2. CASE n \notin Behind(list, m)
    <3>1. n \in ToSet(list)
      BY <1>1, <1>5, LenProperties DEF ToSet, InList
    <3>2. m # list[1]
      BY <1>3, <1>5, <2>2, <3>1
    <3> QED
      BY <1>1, <1>3, <1>4, <2>2, <3>2
  <2> QED
    BY <2>1, <2>2
<1>6. ASSUME n \notin tree, NEW m \in tree
      PROVE  /\ Cardinality(Behind(list, m) \cup {n}) = Cardinality(Behind(list, m)) + 1
  <2>1. n \notin Behind(list, m)
    BY <1>1, <1>6, BehindPlaces DEF InList
  <2> QED
    BY <1>4, <2>1
<1>7. ASSUME n \notin tree, use < CacheSize PROVE Book!StillKnown(n) = tree
  <2>1. \A m \in tree : Cardinality(Behind(list, m) \cup {n}) < CacheSize
    BY <1>1, <1>3, <1>6, <1>7
  <2> QED
    BY <1>2, <1>7, <2>1
<1>8. ASSUME n \notin tree, use >= CacheSize
      PROVE  Book!StillKnown(n) = tree \ {list[1]}
  <2>1. \A m \in tree :
          Cardinality(Behind(list, m) \cup {n}) < CacheSize <=> m # list[1]
    BY <1>1, <1>3, <1>6, <1>8
  <2> QED
    BY <1>2, <1>8, <2>1
<1>9. ASSUME n \in tree PROVE Book!StillKnown(n) = tree \ {n}
  BY <1>2, <1>5, <1>9
<1> QED
  BY <1>7, <1>8, <1>9

\* What a use of n does to the list, whichever way it takes: n comes after
\* all names that are still known, and these keep their addresses.
UsedNow(n) ==
    /\ n \in tree' /\ tree' \ {n} = Book!StillKnown(n)
    /\ Behind(list', n) = {}
    /\ \A m \in tree' \ {n} : Behind(list', m) = Behind(list, m) \cup {n}
    /\ \A m \in tree' \ {n} : idx'[m] = idx[m]
    /\ n \in tree => idx'[n] = idx[n]

LEMMA FindHitUses ==
    ASSUME CacheInv, NEW n \in Names, FindHit(n)
    PROVE  UsedNow(n)
<1> DEFINE rest == RemoveFirst(list, n)
<1>1. /\ n \in tree /\ InList(list, n) /\ list \in Seq(Names) /\ NoRepeat(list)
      /\ list' = Append(rest, n) /\ tree' = tree /\ idx' = idx
  BY DEF CacheInv, FindHit, MovedToTail
<1>2. /\ rest \in Seq(Names) /\ ~InList(rest, n)
      /\ \A m : InList(list, m) /\ m # n => InList(rest, m)
  BY <1>1, RemoveFirstProperties
<1>3. \A m : m # n => Behind(rest, m) = Behind(list, m) \ {n}
  BY <1>1, RemoveFirstBehind
<1> HIDE DEF rest
<1>4. /\ Behind(list', n) = {}
      /\ \A m : InList(rest, m) => Behind(list', m) = Behind(rest, m) \cup {n}
  BY <1>1, <1>2, AppendBehind
<1>5. \A m \in tree \ {n} : Behind(list', m) = Behind(list, m) \cup {n}
  BY <1>2, <1>3, <1>4 DEF CacheInv
<1> QED
  BY <1>1, <1>4, <1>5, WhoIsStillKnown DEF UsedNow

LEMMA FindFreeUses ==
    ASSUME CacheInv, NEW n \in Names, FindFree(n)
    PROVE  UsedNow(n)
<1>1. /\ n \notin tree /\ use < CacheSize /\ ~InList(list, n) /\ list \in Seq(Names)
      /\ list' = Append(list, n) /\ tree' = tree \cup {n}
      /\ idx' = [idx EXCEPT ![n] = use]
  BY DEF CacheInv, FindFree
<1>2. \A m \in tree : m \in Names /\ m # n /\ InList(list, m) /\ idx'[m] = idx[m]
  BY <1>1 DEF CacheInv
<1>3. /\ Behind(list', n) = {}
      /\ \A m : InList(list, m) => Behind(list', m) = Behind(list, m) \cup {n}
  BY <1>1, AppendBehind
<1> QED
  BY <1>1, <1>2, <1>3, WhoIsStillKnown DEF UsedNow

LEMMA FindEvictUses ==
    ASSUME CacheInv, NEW n \in Names, FindEvict(n)
    PROVE  UsedNow(n)
<1> DEFINE longer == Append(list, n)
           freed == Head(longer)
<1>1. /\ n \notin tree /\ use >= CacheSize /\ ~InList(list, n)
      /\ list \in Seq(Names) /\ NoRepeat(list) /\ Len(list) \in Nat /\ Len(list) > 0
  BY CacheSizeAssumption, LenProperties DEF CacheInv, FindEvict
<1>2. /\ longer \in Seq(Names) /\ NoRepeat(longer) /\ longer # <<>>
      /\ \A x : InList(longer, x) <=> InList(list, x) \/ x = n
  BY <1>1, AppendList
<1>3. /\ Behind(longer, n) = {}
      /\ \A m : InList(list, m) => Behind(longer, m) = Behind(list, m) \cup {n}
  BY <1>1, AppendBehind
<1>4. freed = list[1] /\ InList(list, freed)
  <2>1. 1 \in 1 .. Len(list)
    BY <1>1
  <2>2. longer[1] = list[1]
    BY <1>1, <2>1, AppendProperties
  <2>3. freed = longer[1]
    BY <1>2, HeadTailProperties
  <2> QED
    BY <2>1, <2>2, <2>3 DEF InList
<1>5. /\ list' = RemoveFirst(longer, freed)
      /\ tree' = (tree \cup {n}) \ {freed}
      /\ idx' = [idx EXCEPT ![freed] = None, ![n] = idx[freed]]
  BY DEF FindEvict, TreeAfter
<1> HIDE DEF freed, longer
<1>6. freed # n /\ InList(longer, freed)
  BY <1>1, <1>2, <1>4
<1>7. \A m : m # freed => Behind(list', m) = Behind(longer, m) \ {freed}
  BY <1>2, <1>5, <1>6, RemoveFirstBehind
<1>8. \A m : InList(list, m) => freed \notin Behind(list, m)
  BY <1>1, <1>4, BehindSize
<1>9. \A m \in tree : m \in Names /\ m # n /\ InList(list, m)
  BY <1>1 DEF CacheInv
<1>10. n \in tree' /\ tree' \ {n} = tree \ {list[1]}
  BY <1>1, <1>4, <1>5, <1>6
<1>11. Behind(list', n) = {}
  BY <1>3, <1>6, <1>7
<1>12. ASSUME NEW m \in tree' \ {n}
       PROVE  Behind(list', m) = Behind(list, m) \cup {n} /\ idx'[m] = idx[m]
  <2>1. m \in tree /\ m # freed
    BY <1>5, <1>12
  <2>2. idx'[m] = idx[m]
    BY <1>5, <1>9, <2>1 DEF CacheInv
  <2>3. Behind(list', m) = (Behind(list, m) \cup {n}) \ {freed}
    BY <1>3, <1>7, <1>9, <2>1
  <2> QED
    BY <1>6, <1>8, <1>9, <2>1, <2>2, <2>3
<1> QED
  BY <1>1, <1>10, <1>11, <1>12, WhoIsStillKnown DEF UsedNow

\* A use of n is one in the book, whether n is asked for or connected to.
LEMMA UseInBook ==
    ASSUME CacheInv, CacheInv', NEW n \in Names, UsedNow(n)
    PROVE  Book!Use(n)
<1>1. \A m \in Names : Since'[m] = IF m \in tree' THEN Behind(list', m) ELSE None
  BY DEF Since, Behind
<1>2. \A m \in tree : Since[m] = Behind(list, m)
  BY SinceIsBehind DEF CacheInv
<1>3. Book!StillKnown(n) \subseteq tree
  BY SinceIsBehind DEF Book!StillKnown
<1>4. ASSUME NEW m \in Names
      PROVE  Since'[m] = CASE m = n -> {}
                           [] m \in Book!StillKnown(n) -> Since[m] \cup {n}
                           [] OTHER -> None
  <2>1. CASE m = n
    BY <1>1, <2>1 DEF UsedNow
  <2>2. CASE m # n /\ m \in Book!StillKnown(n)
    BY <1>1, <1>2, <1>3, <2>2 DEF UsedNow
  <2>3. CASE m # n /\ m \notin Book!StillKnown(n)
    BY <1>1, <2>3 DEF UsedNow
  <2> QED
    BY <2>1, <2>2, <2>3
<1>5. Since' = [m \in Names |-> Since'[m]]
  BY DEF Since
<1> QED
  BY <1>4, <1>5 DEF Book!Use

LEMMA FindUses ==
    ASSUME CacheInv, NEW n \in Names, Find(n)
    PROVE  UsedNow(n)
BY FindHitUses, FindFreeUses, FindEvictUses DEF Find

\* A question of type A tells an address that no other known name has.
LEMMA FindTells ==
    ASSUME CacheInv, NEW n \in Names, Find(n), UNCHANGED target
    PROVE  Book!Tell(n, idx'[n]) /\ idx'[n] \in Hosts
<1>1. CacheInv' /\ idx'[n] \in Slots /\ UsedNow(n)
  BY FindKeepsCache, FindUses
<1>2. Book!Use(n)
  BY <1>1, UseInBook
<1>3. n \in Book!Known => idx'[n] = idx[n]
  BY <1>1, SinceIsBehind DEF UsedNow
<1>4. \A m \in Book!StillKnown(n) : m \in tree' /\ m # n /\ idx'[m] = idx[m]
  BY <1>1 DEF UsedNow
<1>5. n \in tree' /\ \A m \in tree' : records'[idx'[m]] = m
  BY <1>1 DEF UsedNow, CacheInv
<1>6. \A m \in Book!StillKnown(n) : idx[m] # idx'[n]
  BY <1>4, <1>5
<1>7. idx' = [m \in Names |-> CASE m = n -> idx'[n]
                                [] m \in Book!StillKnown(n) -> idx[m]
                                [] OTHER -> None]
  <2>1. idx' \in [Names -> Slots \cup {None}]
    BY <1>1 DEF CacheInv
  <2>2. \A m \in Names : m \notin tree' => idx'[m] = None
    BY <1>1 DEF CacheInv
  <2>3. \A m \in Names : m = n \/ m \in Book!StillKnown(n) \/ m \notin tree'
    BY <1>1 DEF UsedNow
  <2> QED
    BY <1>4, <2>1, <2>2, <2>3
<1>8. UNCHANGED Found
  BY DEF Found
<1>9. idx'[n] \in Hosts
  BY <1>1, CacheSizeAssumption DEF Slots, Hosts
<1> QED
  BY <1>2, <1>3, <1>6, <1>7, <1>8, <1>9 DEF Book!Tell

\* A connection finds the name that has its address in the book.
LEMMA LookupFinds ==
    ASSUME DnsInv, DnsInv', NEW mapped \in BOOLEAN, NEW host \in Hosts,
           Lookup(mapped, host)
    PROVE  Book!Find(host)
<1>1. /\ CacheInv /\ CacheInv'
      /\ Found' = [host |-> host, name |-> SlotOf(host)]
      /\ UNCHANGED <<tree, records, idx, use>>
  BY DEF DnsInv, Lookup, Found
<1>2. Book!Known = tree
  BY <1>1, SinceIsBehind
<1>3. CASE SlotOf(host) = None
  <2>1. \A m \in tree : idx[m] # host
    <3> SUFFICES ASSUME NEW m \in tree, idx[m] = host PROVE FALSE
      OBVIOUS
    <3>1. m \in Names /\ idx[m] \in Slots /\ records[idx[m]] = m
      BY <1>1 DEF CacheInv
    <3>2. host < CacheSize
      BY <3>1, CacheSizeAssumption DEF Slots
    <3> QED
      BY <1>3, <3>1, <3>2, NoneAssumption DEF SlotOf
  <2>2. UNCHANGED <<tree, list>>
    BY <1>1, <1>3 DEF Lookup
  <2>3. UNCHANGED <<idx, Since>>
    BY <1>1, <2>2 DEF Since
  <2> QED
    BY <1>1, <1>2, <1>3, <2>1, <2>3 DEF Book!Find
<1>4. CASE SlotOf(host) # None
  <2> DEFINE n == SlotOf(host)
  <2>1. host \in Slots /\ records[host] = n
    BY <1>4, CacheSizeAssumption DEF SlotOf, Slots, Hosts
  <2>2. n \in tree /\ n \in Names /\ idx[n] = host
    BY <1>1, <1>4, <2>1 DEF CacheInv
  <2>3. FindHit(n)
    BY <1>1, <1>4, <2>2 DEF Lookup, FindHit
  <2> HIDE DEF n
  <2>4. UsedNow(n) /\ Book!Use(n)
    BY <1>1, <2>2, <2>3, FindHitUses, UseInBook
  <2>5. idx' = [m \in Names |-> IF m \in Book!StillKnown(n) \cup {n} THEN idx[m] ELSE None]
    <3>1. idx \in [Names -> Slots \cup {None}] /\ idx' = idx /\ tree' = tree
      BY <1>1 DEF CacheInv
    <3>2. \A m \in Names : m \notin tree => idx[m] = None
      BY <1>1 DEF CacheInv
    <3>3. \A m \in Names : m \in Book!StillKnown(n) \cup {n} <=> m \in tree
      BY <2>4, <3>1 DEF UsedNow
    <3> QED
      BY <3>1, <3>2, <3>3
  <2>6. Found' = [host |-> host, name |-> n]
    BY <1>1 DEF n
  <2> QED
    BY <1>2, <2>2, <2>4, <2>5, <2>6 DEF Book!Find
<1> QED
  BY <1>3, <1>4

LEMMA StepInBook == DnsInv /\ [Next]_vars => [Book!Next]_(Book!vars)
<1> SUFFICES ASSUME DnsInv, [Next]_vars PROVE Book!Next \/ UNCHANGED Book!vars
  OBVIOUS
<1>1. DnsInv'
  BY NextDnsInv
<1>2. CASE (\E q \in Packets : Receive(q)) \/ AskOther \/ AskCut \/ Reply \/ UNCHANGED vars
  <2>1. UNCHANGED cache /\ UNCHANGED target
    BY <1>2 DEF Receive, AskOther, AskCut, Reply, vars
  <2> QED
    BY <2>1 DEF cache, Since, Found, Book!vars
<1>3. CASE AskAddress
  <2>1. PICK n \in Names : Find(n)
    BY <1>3, QuestionType DEF AskAddress, DnsInv
  <2>2. Book!Tell(n, idx'[n]) /\ idx'[n] \in Hosts
    BY <1>3, <2>1, FindTells DEF AskAddress, DnsInv
  <2> QED
    BY <2>1, <2>2 DEF Book!Next
<1>4. ASSUME NEW mapped \in BOOLEAN, NEW host \in Hosts, Lookup(mapped, host)
      PROVE  Book!Next
  BY <1>1, <1>4, LookupFinds DEF Book!Next
<1>5. CASE Restart
  <2>1. Since' = [n \in Names |-> None] /\ idx' = [n \in Names |-> None]
    BY <1>5 DEF Restart, Since
  <2>2. Found' = [host |-> 0, name |-> None]
    BY <1>5 DEF Restart, NoTarget, Found
  <2> QED
    BY <2>1, <2>2 DEF Book!Next, Book!Reset
<1> QED
  BY <1>2, <1>3, <1>4, <1>5 DEF Next

(* The cache keeps what the address book promises: an address that was told *)
(* belongs to its name alone and leads back to it until CacheSize other     *)
(* names were used since, whether by questions or by connections.           *)
THEOREM CacheKeepsPromise == Spec => KeepsPromise
<1>1. Init => Book!Init
  <2> SUFFICES ASSUME Init PROVE Book!Init
    OBVIOUS
  <2>1. Since = [n \in Names |-> None] /\ idx = [n \in Names |-> None]
    BY DEF Init, EmptyCache, Since
  <2>2. Found = [host |-> 0, name |-> None]
    BY DEF Init, NoTarget, Found
  <2> QED
    BY <2>1, <2>2 DEF Book!Init
<1> QED
  BY <1>1, StepInBook, DnsInvariant, PTL DEF Spec, KeepsPromise, Book!Spec
=============================================================================
