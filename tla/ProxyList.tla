----------------------------- MODULE ProxyList -----------------------------
(***************************************************************************)
(* The list of proxies of the screen (MainViewModel.kt): what it shows,    *)
(* what it keeps in the preferences, and the coroutines that change it     *)
(* while the user does.                                                    *)
(*                                                                         *)
(* A coroutine runs on the main thread and leaves it in withContext, so    *)
(* that a step of it is atomic between two of those.  A proxy is its       *)
(* address and port.  What the network answers, and ProxyFinder with it,   *)
(* is any set of those it knows.  The preferences change in memory at      *)
(* once; apply leaves it to another thread to write them, and only what is *)
(* on disk outlives the process.                                           *)
(***************************************************************************)
EXTENDS Integers, Sequences, FiniteSets, SequencesExt

CONSTANTS
    Ids,           \* the proxies there are
    Worker,        \* the VLESS worker that getFavorites always adds
    Scraped,       \* those that the network may answer with
    Limit,         \* how many proxies fetchProxies keeps, 50 in the code
    Few,           \* under how many a check fetches more, 6 in the code
    MaxFetches,    \* how many fetches are launched in one life of the process
    MaxLives       \* how often the process is started

ASSUME ProxyListAssumption ==
    /\ IsFiniteSet(Ids) /\ Worker \in Ids /\ Scraped \subseteq Ids
    /\ Limit \in Nat /\ Few \in Nat /\ MaxFetches \in Nat \ {0} /\ MaxLives \in Nat

VARIABLES
    proxies,       \* the list shown: [id, fav]
    favs, pool,    \* the preferences favs_v3 and proxy_pool, in memory
    disk,          \* both as they were when their file was last written
    check,         \* the list the check in flight began with, empty without one
    fetches,       \* the fetches of this life: where each is and what it found
    lives,         \* how often the process was started; 0 before the first
    loading,       \* what the screen shows of the fetches
    excused,       \* history of this life: the list was changed under a check,
                   \* the limit has cut it, or a proxy was added that was in it
    unfaved,       \* history of this life: the proxies that the user took from
                   \* the favorites while the pool did not have them
    durable        \* history: what was shown when the file was last written, but
                   \* for those

preferences == <<favs, pool>>
file == <<disk, durable>>
listVars == <<proxies, preferences, check, fetches, lives, loading, excused, unfaved, file>>

Item == [id : Ids, fav : BOOLEAN]
Fetch == [at : {"network", "ended"}, found : {<<>>}] \cup [at : {"found"}, found : Seq(Item)]

ListTypeOK ==
    /\ proxies \in Seq(Item) /\ pool \in Seq(Item) /\ check \in Seq(Item)
    /\ favs \subseteq Ids /\ unfaved \subseteq Ids /\ durable \subseteq Ids
    /\ disk \in [favs : SUBSET Ids, pool : Seq(Item)]
    /\ fetches \in Seq(Fetch) /\ Len(fetches) <= MaxFetches
    /\ lives \in 0 .. MaxLives /\ loading \in BOOLEAN /\ excused \in BOOLEAN

IdsOf(items) == {items[i].id : i \in DOMAIN items}
Plain(items) == Cardinality({i \in DOMAIN items : ~items[i].fav})

\* getFavorites
Favorites == favs \cup {Worker}

ListInit ==
    /\ proxies = <<>> /\ favs = {} /\ pool = <<>> /\ check = <<>> /\ fetches = <<>>
    /\ lives = 0 /\ loading = FALSE /\ excused = FALSE /\ unfaved = {}
    /\ disk = [favs |-> {}, pool |-> <<>>] /\ durable = {}

Running == lives > 0

\* The items at the places I, in their order
Kept(items, I) ==
    [k \in 1 .. Cardinality(I) |->
        items[CHOOSE i \in I : Cardinality({j \in I : j <= i}) = k]]

\* The items of new that old does not have, behind it
Merge(old, new) == old \o Kept(new, {i \in DOMAIN new : new[i].id \notin IdsOf(old)})

\* The proxies ids in some order, those of starred with a star
Items(ids, starred) ==
    LET order == SetToSeq(ids) IN
    [i \in DOMAIN order |-> [id |-> order[i], fav |-> order[i] \in starred]]

\* fetchProxies; beyond MaxFetches nothing is launched.
LaunchFetch(before) ==
    IF Len(before) < MaxFetches
    THEN fetches' = Append(before, [at |-> "network", found |-> <<>>]) /\ loading' = TRUE
    ELSE fetches' = before /\ UNCHANGED loading

-----------------------------------------------------------------------------
(* The life of the process                                                 *)

\* Mutant: the favorites are only marked.
OnlyMarked(items, starred) ==
    [i \in DOMAIN items |-> [items[i] EXCEPT !.fav = @ \/ items[i].id \in starred]]

\* init of MainViewModel: favorites are marked, or added.
WithFavorites(items, starred) ==
    Merge([i \in DOMAIN items |-> [items[i] EXCEPT !.fav = @ \/ items[i].id \in starred]],
          Items(starred, starred))

\* The process starts, for the first time or after the system has ended it,
\* with what is on disk.
StartProcess ==
    /\ lives < MaxLives /\ lives' = lives + 1
    /\ favs' = disk.favs /\ pool' = disk.pool
    /\ proxies' = WithFavorites(disk.pool, disk.favs \cup {Worker})
    /\ excused' = FALSE /\ unfaved' = {}
    /\ IF Plain(proxies') = 0
       THEN /\ check' = <<>>
            /\ fetches' = <<[at |-> "network", found |-> <<>>]>> /\ loading' = TRUE
       ELSE check' = proxies' /\ fetches' = <<>> /\ loading' = FALSE
    /\ durable' = IdsOf(proxies') /\ UNCHANGED disk

\* The thread of the preferences writes both as they are now; the file is
\* replaced as a whole, and writes that a later change overtook are left out.
\* Nobody reads what the last of MaxLives writes.
Persist ==
    /\ Running /\ lives < MaxLives
    /\ disk' = [favs |-> favs, pool |-> pool]
    /\ durable' = IdsOf(proxies) \ unfaved
    /\ UNCHANGED <<proxies, preferences, check, fetches, lives, loading, excused, unfaved>>

-----------------------------------------------------------------------------
(* The user                                                                *)

ToggleFavorite(id) ==
    /\ Running /\ id \in IdsOf(proxies)
    /\ LET off == id \in Favorites IN
       /\ favs' = IF off THEN Favorites \ {id} ELSE Favorites \cup {id}
       /\ unfaved' = IF off THEN unfaved \cup ({id} \ IdsOf(pool)) ELSE unfaved \ {id}
       /\ proxies' = [i \in DOMAIN proxies |->
                         IF proxies[i].id = id THEN [proxies[i] EXCEPT !.fav = ~off] ELSE proxies[i]]
    /\ excused' = (excused \/ check # <<>>)
    /\ UNCHANGED <<pool, check, fetches, lives, loading, file>>

\* A proxy that is in the list is saved as a favorite and gets no star.
AddCustomProxy(id) ==
    /\ Running
    /\ favs' = IF id \in Favorites THEN favs ELSE Favorites \cup {id}
    /\ proxies' = IF id \in IdsOf(proxies) THEN proxies ELSE <<[id |-> id, fav |-> TRUE]>> \o proxies
    /\ excused' = (excused \/ check # <<>> \/ id \in IdsOf(proxies))
    /\ unfaved' = unfaved \ {id}
    /\ UNCHANGED <<pool, check, fetches, lives, loading, file>>

Refresh ==
    /\ Running /\ Len(fetches) < MaxFetches
    /\ LaunchFetch(fetches)
    /\ UNCHANGED <<proxies, preferences, check, lives, excused, unfaved, file>>

-----------------------------------------------------------------------------
(* quickCheckProxies and fetchProxies                                      *)

\* The check ends with the proxies of its own list that answered or were
\* favorites when it began.
CheckEnds(answered) ==
    /\ check # <<>>
    /\ check' = <<>>
    /\ proxies' = Kept(check, {i \in DOMAIN check : check[i].fav \/ check[i].id \in answered})
    /\ pool' = proxies'
    /\ IF Plain(proxies') < Few THEN LaunchFetch(fetches) ELSE UNCHANGED <<fetches, loading>>
    /\ unfaved' = {}
    /\ UNCHANGED <<favs, lives, excused, file>>

\* A check that throws leaves the list and the pool alone.
CheckFails ==
    /\ check # <<>> /\ check' = <<>>
    /\ UNCHANGED <<proxies, preferences, fetches, lives, loading, excused, unfaved, file>>

\* On another thread: the scraped proxies behind the favorites not among them
FetchFinds(f, scraped) ==
    /\ f \in DOMAIN fetches /\ fetches[f].at = "network"
    /\ fetches' = [fetches EXCEPT ![f] =
          [at |-> "found", found |-> Items(Favorites \ scraped, Favorites)
                                     \o Items(scraped, Favorites)]]
    /\ UNCHANGED <<proxies, preferences, check, lives, loading, excused, unfaved, file>>

\* Mutants: what is there is not looked for; the list is not saved.
MergedTwice(f) == SubSeq(proxies \o fetches[f].found, 1,
                         IF Len(proxies \o fetches[f].found) < Limit
                         THEN Len(proxies \o fetches[f].found) ELSE Limit)
SavesFound(f) == fetches[f].found

\* What a fetch makes of the list, and what it saves
Merged(f) == LET all == Merge(proxies, fetches[f].found) IN
             SubSeq(all, 1, IF Len(all) < Limit THEN Len(all) ELSE Limit)
Saved(f) == Merged(f)

Ended(f) == /\ fetches' = [fetches EXCEPT ![f] = [at |-> "ended", found |-> <<>>]]
            /\ loading' = FALSE

FetchEnds(f) ==
    /\ f \in DOMAIN fetches /\ fetches[f].at = "found"
    /\ proxies' = Merged(f) /\ pool' = Saved(f)
    /\ excused' = (excused \/ check # <<>> \/ Len(Merge(proxies, fetches[f].found)) > Limit)
    /\ unfaved' = {}
    /\ Ended(f)
    /\ UNCHANGED <<favs, check, lives, file>>

FetchFails(f) ==
    /\ f \in DOMAIN fetches /\ fetches[f].at = "network"
    /\ Ended(f)
    /\ UNCHANGED <<proxies, preferences, check, lives, excused, unfaved, file>>

-----------------------------------------------------------------------------
User == Refresh \/ \E id \in Ids : ToggleFavorite(id) \/ AddCustomProxy(id)
ListCoroutines ==
    \/ CheckFails \/ \E answered \in SUBSET Ids : CheckEnds(answered)
    \/ \E f \in DOMAIN fetches :
          FetchEnds(f) \/ FetchFails(f) \/ \E scraped \in SUBSET Scraped : FetchFinds(f, scraped)

ListNext == StartProcess \/ Persist \/ User \/ ListCoroutines

ListSpec == ListInit /\ [][ListNext]_listVars

-----------------------------------------------------------------------------
(* Properties                                                              *)

\* No proxy is shown or saved twice, whatever coroutines overlap.
OneEach == /\ Cardinality(IdsOf(proxies)) = Len(proxies)
           /\ Cardinality(IdsOf(pool)) = Len(pool)

\* "Keep favorites even if they failed quick test temporarily": a check that
\* ends leaves the favorites of the user in the list.  This does not hold for
\* those added while it runs (README, What was found); no run checks it.
FavoritesKept ==
    [][lives' = lives /\ check # <<>> /\ check' = <<>> =>
           favs \cap IdsOf(proxies) \subseteq IdsOf(proxies')]_listVars

\* A favorite of the user is in the list, with its star, unless the list was
\* changed under a check, the limit has cut it, or a listed proxy was added;
\* and a restart repairs them all.
\* The worker is a favorite for ever, but its star can be taken.
FavoritesShown ==
    Running /\ ~excused =>
        \A id \in Favorites : \E i \in DOMAIN proxies :
            proxies[i].id = id /\ (proxies[i].fav \/ id = Worker)

\* However the process ends, its next life shows all that was shown when the
\* preferences were last written, but for what the user had taken from the
\* favorites and nothing else kept; only what changed since may be lost.
ListComesBack == [][lives' # lives => durable \subseteq IdsOf(proxies')]_listVars
=============================================================================
