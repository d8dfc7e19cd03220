----------------------------- MODULE MappedDns -----------------------------
(***************************************************************************)
(* The mapped DNS (hev-mapped-dns.c) and its two users: the handler of DNS  *)
(* packets (dns_recv_handler) and the construction of a session's target   *)
(* (hev_socks5_addr_from_lwip).                                            *)
(*                                                                         *)
(* A node of the cache is the name it holds: tree is the set of nodes in   *)
(* the red-black tree, list the nodes by last use, records the array from  *)
(* index to node, idx[n] the field of node n.  An IPv4 address is its host *)
(* part and whether its network part is the mapped network.  A DNS packet  *)
(* is handled question by question; nothing else runs in between.          *)
(***************************************************************************)
EXTENDS Integers, Sequences, FiniteSets, SequencesExt

CONSTANTS
    Names,         \* the names in the questions
    None,          \* a null pointer
    CacheSize,     \* the setting cache-size
    HostMax,       \* the largest host part, ~mask
    MaxQuestions   \* the questions of a packet, 32 in the code

\* hev_mapped_dns_construct refuses a cache that does not fit the network, and
\* mapped_dns_init makes none of size 0.
ASSUME CacheSizeAssumption == HostMax \in Nat /\ CacheSize \in 1 .. HostMax
ASSUME NoneAssumption ==
    None \notin Names /\ None \notin Int /\ \A S \in SUBSET Names : None # S
ASSUME QuestionsAssumption == MaxQuestions \in Nat

Hosts == 0 .. HostMax
Slots == 0 .. CacheSize - 1
Question == [type : {"A"}, name : Names] \cup [type : {"other", "cut"}, name : {None}]

VARIABLES
    tree, list, records, idx,
    use,      \* the number of slots of records in use
    query,    \* the questions of the packet being handled, None between packets
    off,      \* the question the loop is at
    answers,  \* the arrays ipo and ips: [at, host] up to ipn
    target    \* the last session's address and the name it was given

cache == <<tree, list, records, idx, use>>
packet == <<query, off, answers>>
vars == <<cache, packet, target>>

TypeOK ==
    /\ tree \subseteq Names
    /\ list \in Seq(Names)
    /\ records \in [Slots -> Names \cup {None}]
    /\ idx \in [Names -> Slots \cup {None}]
    /\ use \in 0 .. CacheSize
    /\ query \in Seq(Question) \cup {None}
    /\ off \in 1 .. MaxQuestions + 1
    /\ answers \in Seq([at : 1 .. MaxQuestions, host : Slots])
    /\ target \in [mapped : BOOLEAN, host : Hosts, name : Names \cup {None}]

EmptyCache ==
    /\ tree = {}
    /\ list = <<>>
    /\ records = [i \in Slots |-> None]
    /\ idx = [n \in Names |-> None]
    /\ use = 0

NoTarget == [mapped |-> FALSE, host |-> 0, name |-> None]

Init ==
    /\ EmptyCache
    /\ query = None /\ off = 1 /\ answers = <<>>
    /\ target = NoTarget

-----------------------------------------------------------------------------
(* hev_mapped_dns_find                                                     *)

NotMoved(n) == list
MovedToTail(n) == Append(RemoveFirst(list, n), n)

\* The name is in the tree.
FindHit(n) ==
    /\ n \in tree
    /\ list' = MovedToTail(n)
    /\ UNCHANGED <<tree, records, idx, use>>

\* A free slot is left.
FindFree(n) ==
    /\ n \notin tree
    /\ use < CacheSize
    /\ tree' = tree \cup {n}
    /\ list' = Append(list, n)
    /\ records' = [records EXCEPT ![use] = n]
    /\ idx' = [idx EXCEPT ![n] = use]
    /\ use' = use + 1

\* The first of the list gives its slot to the new node and is freed.
TreeWithFreed(n, freed) == tree \cup {n}
TreeAfter(n, freed) == (tree \cup {n}) \ {freed}
FindEvict(n) ==
    /\ n \notin tree
    /\ use >= CacheSize
    /\ LET freed == Head(Append(list, n)) IN
        /\ tree' = TreeAfter(n, freed)
        /\ list' = RemoveFirst(Append(list, n), freed)
        /\ records' = [records EXCEPT ![idx[freed]] = n]
        /\ idx' = [idx EXCEPT ![freed] = None, ![n] = idx[freed]]
    /\ UNCHANGED use

Find(n) == FindHit(n) \/ FindFree(n) \/ FindEvict(n)

-----------------------------------------------------------------------------
(* hev_mapped_dns_handle                                                   *)

Receive(q) ==
    /\ query = None
    /\ query' = q /\ off' = 1 /\ answers' = <<>>
    /\ UNCHANGED <<cache, target>>

AnswerAtCount(host) == [at |-> Len(answers) + 1, host |-> host]
Answer(host) == [at |-> off, host |-> host]

\* A question of type A and class IN.
AskAddress ==
    /\ query # None /\ off <= Len(query)
    /\ query[off].type = "A"
    /\ Find(query[off].name)
    /\ answers' = Append(answers, Answer(idx'[query[off].name]))
    /\ off' = off + 1
    /\ UNCHANGED <<query, target>>

\* Another question, or no memory for the node of a new name: no answer.
AskOther ==
    /\ query # None /\ off <= Len(query)
    /\ \/ query[off].type = "other"
       \/ query[off].type = "A" /\ query[off].name \notin tree
    /\ off' = off + 1
    /\ UNCHANGED <<cache, query, answers, target>>

\* The packet ends within the question: nothing is sent, the names asked for
\* so far stay in the cache.
AskCut ==
    /\ query # None /\ off <= Len(query)
    /\ query[off].type = "cut"
    /\ query' = None /\ off' = 1 /\ answers' = <<>>
    /\ UNCHANGED <<cache, target>>

\* The answers are sent, or do not fit into the buffer.
Reply ==
    /\ query # None /\ off > Len(query)
    /\ query' = None /\ off' = 1 /\ answers' = <<>>
    /\ UNCHANGED <<cache, target>>

-----------------------------------------------------------------------------
(* hev_mapped_dns_lookup, for the target of a new session                  *)

SlotOf(host) == IF host < CacheSize THEN records[host] ELSE None

Lookup(mapped, host) ==
    /\ query = None
    /\ target' = [mapped |-> mapped, host |-> host, name |-> SlotOf(host)]
    /\ list' = IF SlotOf(host) = None THEN list ELSE MovedToTail(SlotOf(host))
    /\ UNCHANGED <<tree, records, idx, use, packet>>

\* mapped_dns_fini and mapped_dns_init, for the next run of the tunnel.
Restart ==
    /\ query = None
    /\ tree' = {} /\ list' = <<>> /\ use' = 0
    /\ records' = [i \in Slots |-> None]
    /\ idx' = [n \in Names |-> None]
    /\ target' = NoTarget
    /\ UNCHANGED packet

Packets == UNION {[1 .. k -> Question] : k \in 0 .. MaxQuestions}

Next ==
    \/ \E q \in Packets : Receive(q)
    \/ AskAddress \/ AskOther \/ AskCut \/ Reply
    \/ \E mapped \in BOOLEAN, host \in Hosts : Lookup(mapped, host)
    \/ Restart

Spec == Init /\ [][Next]_vars

-----------------------------------------------------------------------------
(* Properties                                                              *)

\* The four structures describe one cache: the nodes of the tree are those
\* of the list, each once, and each stands in records at its own index; the
\* slots from use on are empty.  A freed node is in none of them.
OneCache ==
    /\ tree = ToSet(list) /\ Cardinality(tree) = Len(list)
    /\ use = Len(list)
    /\ \A n \in Names : n \in tree <=> idx[n] # None
    /\ \A n \in tree : idx[n] < use /\ records[idx[n]] = n
    /\ \A i \in Slots : i >= use <=> records[i] = None

\* A packet that asks for no more names than the cache holds gets answers
\* that lead back to the questions they are filed under, all of them when it
\* is sent.
Asked == {query[i].name : i \in {j \in 1 .. Len(query) : query[j].type = "A"}}
AnswersLeadBack ==
    query # None /\ off > Len(query) /\ Cardinality(Asked) <= CacheSize =>
        \A i \in 1 .. Len(answers) :
            /\ query[answers[i].at].type = "A"
            /\ SlotOf(answers[i].host) = query[answers[i].at].name

\* Each name keeps its address until CacheSize other names were used since:
\* those that come after it in the list.
Since ==
    [n \in Names |->
        IF n \in tree
        THEN {list[j] : j \in {k \in 1 .. Len(list) : \E i \in 1 .. k - 1 : list[i] = n}}
        ELSE None]
Found == [host |-> target.host, name |-> target.name]
Book == INSTANCE AddressBook WITH
    Addresses <- Hosts, addr <- idx, since <- Since, found <- Found
KeepsPromise == Book!Spec

\* Only an address of the mapped network is replaced by a name.  This does not
\* hold (README, What was found); no run checks it.
OnlyMappedReplaced == target.name # None => target.mapped
=============================================================================
