------------------------------ MODULE ApiReads ------------------------------
(* The REST API of src/api/handlers.rs over the abstract store, while the    *)
(* indexer goes on committing.  A handler runs its SELECTs one by one on the *)
(* pool, without a transaction around them; a client may besides put several *)
(* requests together.  Each SELECT is a step.  The handlers only read, so    *)
(* one client at a time shows every interleaving.                            *)
EXTENDS IndexStore, FiniteSetsExt

CONSTANTS
    Table,      \* the ix_* tables of the schema
    Addr,       \* accounts
    Touches,    \* Touches[s]: the accounts a transaction names
    PageSize,   \* LIMIT of a paging client
    BucketSize, \* how many commits share a period of DATE_TRUNC
    MaxCommits  \* bound: commits of the indexer

ApiAssumption ==
    /\ IsFiniteSet(Sig) /\ IsFiniteSet(Table)
    /\ SlotOf \in [Sig -> Nat] /\ TablesOf \in [Sig -> SUBSET Table]
    /\ SlotMark \subseteq Nat
    /\ Touches \in [Sig -> SUBSET Addr]
    /\ None \notin Sig /\ None \notin Nat
    /\ PageSize \in Nat \ {0} /\ BucketSize \in Nat \ {0} /\ MaxCommits \in Nat

ASSUME ApiParameters == ApiAssumption

VARIABLES
    clock,   \* how many transactions were committed
    stamp,   \* stamp[r]: created_at of the row r, the now() of its transaction
    accs,    \* <<address, slot>> of the acc_* rows
    at,      \* the SELECT the client's request is at
    about,   \* the table, the signature or the account it asks for
    got,     \* what the SELECTs before gave
    \* history
    before   \* the transactions stored when the request began

indexer == <<storeVars, clock, stamp, accs>>
client  == <<at, about, got, before>>
vars    == <<indexer, client>>

RowsIn(t) == {r \in rows : r[2] = t}
Slots == {SlotOf[s] : s \in stored}
LeastOf(S) == IF S = {} THEN None ELSE CHOOSE n \in S : \A m \in S : n <= m
GreatestOf(S) == IF S = {} THEN None ELSE CHOOSE n \in S : \A m \in S : m <= n

Nothing == [total |-> 0, first |-> None, last |-> None, mark |-> None,
            counts |-> [t \in Table |-> 0], left |-> {}, listed |-> {}, series |-> <<>>]

Init ==
    /\ StoreInit
    /\ clock = 0 /\ stamp = [r \in {} |-> 0] /\ accs = {}
    /\ at = "idle" /\ about = None /\ got = Nothing /\ before = {}
-----------------------------------------------------------------------------
(* Mutant of Chunk: created_at is the time of the COMMIT.                    *)
ChunkStampedLate ==
    /\ clock < MaxCommits
    /\ clock' = clock + 1
    /\ \E S \in SUBSET Sig : \E last \in S :
         /\ CommitBatch(S, last)
         /\ accs' = accs \cup UNION {Touches[s] \X {SlotOf[s]} : s \in S}
    /\ stamp' = [r \in rows' |-> IF r \in rows THEN stamp[r] ELSE clock']
    /\ UNCHANGED client

(* The indexer commits a chunk: its new rows get the time of the chunk's     *)
(* transaction, rows stored before keep theirs (ON CONFLICT DO NOTHING).     *)
Chunk ==
    /\ clock < MaxCommits
    /\ clock' = clock + 1
    /\ \E S \in SUBSET Sig : \E last \in S :
         /\ CommitBatch(S, last)
         /\ accs' = accs \cup UNION {Touches[s] \X {SlotOf[s]} : s \in S}
    /\ stamp' = [r \in rows' |-> IF r \in rows THEN stamp[r] ELSE clock]
    /\ UNCHANGED client

Mark ==
    /\ \E n \in SlotMark : SaveSlot(n)
    /\ UNCHANGED <<clock, stamp, accs, client>>

(* A request for x begins with a SELECT that gives `answer'.                 *)
Ask(x, answer, next) ==
    /\ at = "idle"
    /\ about' = x /\ got' = answer /\ at' = next
    /\ before' = stored
    /\ UNCHANGED indexer

(* The SELECT `here' of it gives `answer'.                                   *)
Select(here, answer, next) ==
    /\ at = here
    /\ got' = answer /\ at' = next
    /\ UNCHANGED <<indexer, about, before>>

Respond ==
    /\ at \in {"stats", "followed", "series", "listed", "compared"}
    /\ at' = "idle" /\ about' = None /\ got' = Nothing /\ before' = {}
    /\ UNCHANGED indexer
-----------------------------------------------------------------------------
(* GET /stats: program_stats.                                                *)
CountTxs == Ask(None, [Nothing EXCEPT !.total = Cardinality(stored)], "first")
FirstSlot == Select("first", [got EXCEPT !.first = LeastOf(Slots)], "last")
LastSlot == Select("last", [got EXCEPT !.last = GreatestOf(Slots)], "mark")
Checkpoint ==
    Select("mark", [got EXCEPT !.mark = sigMark, !.left = Table],
           IF Table = {} THEN "stats" ELSE "counts")

(* COUNT( * ) of one table after the other.                                  *)
CountCalls ==
    \E t \in got.left :
        Select("counts",
               [got EXCEPT !.counts[t] = Cardinality(RowsIn(t)), !.left = @ \ {t}],
               IF got.left = {t} THEN "stats" ELSE "counts")

(* GET /health, then GET /tx/{signature} of the checkpoint it names, then    *)
(* GET /ix/{name}?tx_sig= for the calls.                                     *)
Health ==
    /\ sigMark # None
    /\ Ask(sigMark, [Nothing EXCEPT !.mark = sigMark], "tx")

GetTx ==
    Select("tx", [got EXCEPT !.total = Cardinality(stored \cap {about})], "calls")

ListIxOfTx ==
    Select("calls", [got EXCEPT !.listed = {r \in rows : r[1] = about}], "followed")

(* GET /ix/{name}/stats: ix_call_count, then ix_time_series of a range, by   *)
(* default the last seven days (queries.rs:343).                             *)
IxCallCount ==
    \E t \in Table :
        Ask(t, [Nothing EXCEPT !.total = Cardinality(RowsIn(t))], "periods")

Series(R) ==
    [p \in {stamp[r] \div BucketSize : r \in R} |->
        Cardinality({r \in R : stamp[r] \div BucketSize = p})]

(* Mutant of Within: the bounds are exclusive.                               *)
WithinExclusive(t, from, to) == {r \in RowsIn(t) : from < stamp[r] /\ stamp[r] < to}

(* created_at BETWEEN from AND to.                                           *)
Within(t, from, to) == {r \in RowsIn(t) : from <= stamp[r] /\ stamp[r] <= to}

IxTimeSeries ==
    \E from, to \in 0..clock :
        Select("periods",
               [got EXCEPT !.series = Series(Within(about, from, to)),
                           !.first = from, !.last = to],
               "series")

(* Mutant of Newest: there is no ORDER BY.                                   *)
NewestAnyOrder(R, k) == {F \in SUBSET R : Cardinality(F) = Min({k, Cardinality(R)})}

(* ORDER BY created_at DESC leaves rows of one time in any order.  The sets  *)
(* that may be the first k rows:                                             *)
Newest(R, k) ==
    {F \in SUBSET R : /\ Cardinality(F) = Min({k, Cardinality(R)})
                      /\ \A r \in F, q \in R \ F : stamp[r] >= stamp[q]}

(* query_ix_typed with LIMIT and OFFSET.                                     *)
Page(t, offset) ==
    {p[2] \ p[1] : p \in {q \in Newest(RowsIn(t), offset)
                                 \X Newest(RowsIn(t), offset + PageSize) : q[1] \subseteq q[2]}}

(* A client that pages through GET /ix/{name}?limit=&offset= until a page is *)
(* not full.                                                                 *)
After(page) == IF Cardinality(page) < PageSize THEN "listed" ELSE "page"

FirstPage ==
    \E t \in Table : \E page \in Page(t, 0) :
        Ask(t, [Nothing EXCEPT !.total = PageSize, !.listed = page], After(page))

NextPage ==
    \E page \in Page(about, got.total) :
        Select("page", [got EXCEPT !.total = @ + PageSize, !.listed = @ \cup page],
               After(page))

(* Mutant of LatestSlot: ORDER BY slot.                                      *)
LatestSlotAscending(a) == LeastOf({r[2] : r \in {q \in accs : q[1] = a}})

(* GET /accounts/{address}, and the row of the address in GET /accounts      *)
(* (DISTINCT ON) and at the head of its history: the one of the greatest     *)
(* slot.                                                                     *)
LatestSlot(a) == GreatestOf({r[2] : r \in {q \in accs : q[1] = a}})

GetAccount == \E a \in Addr : Ask(a, [Nothing EXCEPT !.first = LatestSlot(a)], "again")
GetAccountAgain == Select("again", [got EXCEPT !.last = LatestSlot(about)], "compared")

Next ==
    \/ Chunk \/ Mark \/ Respond
    \/ CountTxs \/ FirstSlot \/ LastSlot \/ Checkpoint \/ CountCalls
    \/ Health \/ GetTx \/ ListIxOfTx
    \/ IxCallCount \/ IxTimeSeries
    \/ FirstPage \/ NextPage
    \/ GetAccount \/ GetAccountAgain

Spec == Init /\ [][Next]_vars
-----------------------------------------------------------------------------
Places == {"idle", "first", "last", "mark", "counts", "stats", "tx", "calls",
           "followed", "periods", "series", "page", "listed", "again", "compared"}

(* Types; the rows of the client and their times are those of the store.     *)
TypeOK ==
    /\ stored \subseteq Sig /\ rows \subseteq Sig \X Table
    /\ sigMark \in Sig \cup {None}
    /\ accs \subseteq Addr \X Nat
    /\ clock \in Nat /\ stamp \in [rows -> 0..(clock - 1)]
    /\ at \in Places
    /\ before \subseteq stored /\ got.listed \subseteq rows
    /\ got.counts \in [Table -> Nat] /\ got.left \subseteq Table

CallsIn(S, t) == {s \in S : t \in TablesOf[s]}

(* The parts of GET /stats are read one by one while chunks are committed,   *)
(* and still add up: what the total counts has a first and a last slot       *)
(* around it, a checkpoint, and its calls in every count.                    *)
StatsAddUp ==
    at = "stats" =>
        /\ got.total = Cardinality(before)
        /\ before # {} => got.first # None /\ got.last # None /\ got.mark # None
        /\ \A s \in before : got.first <= SlotOf[s] /\ SlotOf[s] <= got.last
        /\ \A t \in Table : Cardinality(CallsIn(before, t)) <= got.counts[t]

(* A client that takes the checkpoint of GET /health finds the transaction,  *)
(* with all its calls, however many chunks are committed meanwhile.          *)
CheckpointCanBeFollowed ==
    at = "followed" => got.total = 1 /\ got.listed = RowsOf({about})

SumOf(series) == MapThenSumSet(LAMBDA p : series[p], DOMAIN series)

(* The total of GET /ix/{name}/stats never exceeds what its periods and the  *)
(* rows outside their range add up to.                                       *)
SeriesCoversTotal ==
    at = "series" =>
        got.total <= SumOf(got.series)
                     + Cardinality({r \in RowsIn(about) :
                                      ~(got.first <= stamp[r] /\ stamp[r] <= got.last)})

(* A client that pages while chunks are committed sees every commit: it      *)
(* misses a row of the table that was there when it began only where the     *)
(* edge of a page cut through the rows of one commit, which have one         *)
(* created_at (queries.rs:304), and then it has another of them.             *)
PagesMissOnlyTies ==
    at = "listed" =>
        \A r \in RowsOf(before) :
            \/ r[2] # about \/ r \in got.listed
            \/ \E q \in got.listed : q[2] = about /\ stamp[q] = stamp[r]

(* An account once found is found again, in no earlier slot, although        *)
(* batches of old slots are stored after those of new ones.                  *)
LatestNeverGoesBack ==
    at = "compared" /\ got.first # None => got.last # None /\ got.first <= got.last
-----------------------------------------------------------------------------
(* Why StatsAddUp, CheckpointCanBeFollowed and LatestNeverGoesBack hold: the *)
(* inductive invariant.                                                      *)
StoreConsistent ==
    /\ rows = RowsOf(stored)
    /\ sigMark # None => sigMark \in stored
    /\ stored # {} => sigMark # None
    /\ accs \subseteq Addr \X {SlotOf[s] : s \in Sig}

GotShape ==
    got \in [total : Nat, first : Nat \cup {None}, last : Nat \cup {None},
             mark : Sig \cup {None}, counts : [Table -> Nat], left : SUBSET Table,
             listed : SUBSET (Sig \X Table), series : {got.series}]

(* What GET /stats has read is not behind what was stored when it began.     *)
StatsSoFar ==
    /\ at \in {"first", "last", "mark", "counts", "stats"} =>
         got.total = Cardinality(before)
    /\ at \in {"last", "mark", "counts", "stats"} =>
         \A s \in before : got.first # None /\ got.first <= SlotOf[s]
    /\ at \in {"mark", "counts", "stats"} =>
         \A s \in before : got.last # None /\ SlotOf[s] <= got.last
    /\ at \in {"counts", "stats"} =>
         /\ before # {} => got.mark # None
         /\ \A t \in Table \ got.left : Cardinality(CallsIn(before, t)) <= got.counts[t]
    /\ at = "stats" => got.left = {}

FollowedSoFar ==
    /\ at \in {"tx", "calls", "followed"} => about \in stored
    /\ at \in {"calls", "followed"} => got.total = 1
    /\ at = "followed" => got.listed = RowsOf({about})

AccountSoFar ==
    /\ at \in {"again", "compared"} /\ got.first # None => <<about, got.first>> \in accs
    /\ at = "compared" /\ got.first # None => got.last # None /\ got.first <= got.last

ApiInv ==
    /\ TypeOK /\ StoreConsistent /\ GotShape
    /\ StatsSoFar /\ FollowedSoFar /\ AccountSoFar
-----------------------------------------------------------------------------
(* What SeriesCoversTotal and PagesMissOnlyTies rest on besides: the row     *)
(* count of GET /ix/{name}/stats is not behind its table, and a row a client *)
(* has yet to find, with none of its commit listed, is not before the next   *)
(* page.                                                                     *)
Cut(r) == \E q \in got.listed : q[2] = r[2] /\ stamp[q] = stamp[r]
Newer(r) == {q \in RowsIn(r[2]) : stamp[q] > stamp[r]}

SeriesSoFar ==
    /\ at \in {"periods", "series"} => about \in Table
    /\ at = "periods" => got.total <= Cardinality(RowsIn(about))
    /\ at = "series" => /\ got.first \in Nat /\ got.last \in Nat
                        /\ SumOf(got.series) \in Nat /\ SeriesCoversTotal

PagesSoFar ==
    /\ at = "page" => \A r \in RowsOf(before) :
         \/ r[2] # about \/ r \in got.listed
         \/ Cut(r) \/ got.total <= Cardinality(Newer(r))
    /\ PagesMissOnlyTies

CountsInv == SeriesSoFar /\ PagesSoFar
=============================================================================
