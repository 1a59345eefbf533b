------------------------------ MODULE SyncFeed ------------------------------
(***************************************************************************)
(* The feeds a device pulls (common/pagination/keyset-cursor.ts and the    *)
(* findAll of the ledger, sales, payments and expenses): pages in the      *)
(* order of a timestamp and an id, walked forwards by a device that keeps  *)
(* its place, held a little behind the clock, or backwards by a person.    *)
(* A row takes its timestamp when its statement runs and is seen when its  *)
(* transaction commits.                                                    *)
(***************************************************************************)
EXTENDS Integers, FiniteSets

CONSTANTS
  Rows,        \* row ids: numbers
  Lag,         \* SYNC_LAG_MS, in ticks
  Limit,       \* the length of a full page
  AllIds,      \* past every id: with a time, the place of who has all of that instant
  MaxTime, MaxVersion, NoRow  \* bounds; no value

ASSUME SyncAssumption ==
  /\ Rows \subseteq Nat /\ IsFiniteSet(Rows) /\ Lag \in Nat /\ Limit \in Nat \ {0}
  /\ AllIds \in Nat /\ \A i \in Rows : i < AllIds
  /\ MaxTime \in Nat /\ MaxVersion \in Nat \ {0}

VARIABLES
  feed,        \* what is paged: "ledger", append-only; "payments", mutable by updatedAt;
               \* "sales", mutable but by createdAt
  now,
  row,         \* of each row: the timestamp it is paged by and its version, or NoRow
  writing,     \* a row's write not yet committed, or NoRow
  place,       \* where the device is: the last row it was given, or a time it has all of
  has,         \* the version of each row the device keeps, 0 for none
  reply,       \* a page on its way to the device, or NoRow
  reader,      \* a person paging back: where, what they were shown, what there was; or NoRow
  late,        \* history: rows whose last write committed after its page could be served
  moved        \* history: rows written again since the reader began

syncVars == <<feed, now, row, writing, place, has, reply, reader, late, moved>>

Place == [at : -1..MaxTime, id : Nat]
Version == [at : 0..MaxTime, version : 1..MaxVersion]

SyncTypeOK ==
  /\ feed \in {"ledger", "payments", "sales"} /\ now \in 0..MaxTime /\ place \in Place
  /\ row \in [Rows -> Version \cup {NoRow}] /\ writing \in [Rows -> Version \cup {NoRow}]
  /\ has \in [Rows -> 0..MaxVersion] /\ late \subseteq Rows /\ moved \subseteq Rows

SyncInit ==
  /\ feed \in {"ledger", "payments", "sales"} /\ now = 0
  /\ row = [i \in Rows |-> NoRow] /\ writing = [i \in Rows |-> NoRow]
  /\ place = [at |-> -1, id |-> 0] /\ has = [i \in Rows |-> 0] /\ reply = NoRow
  /\ reader = NoRow /\ late = {} /\ moved = {}

-----------------------------------------------------------------------------
Tick ==
  /\ now < MaxTime /\ now' = now + 1
  /\ UNCHANGED <<feed, row, writing, place, has, reply, reader, late, moved>>

\* A statement of a transaction still open: a new row, or a change where rows change.
WriteRow(i) ==
  /\ writing[i] = NoRow
  /\ IF row[i] = NoRow
     THEN writing' = [writing EXCEPT ![i] = [at |-> now, version |-> 1]]
     ELSE /\ feed # "ledger" /\ row[i].version < MaxVersion
          /\ writing' = [writing EXCEPT ![i] =
               [at |-> IF feed = "sales" THEN row[i].at ELSE now, version |-> row[i].version + 1]]
  /\ UNCHANGED <<feed, now, row, place, has, reply, reader, late, moved>>

Commit(i) ==
  /\ writing[i] # NoRow
  /\ row' = [row EXCEPT ![i] = writing[i]] /\ writing' = [writing EXCEPT ![i] = NoRow]
  /\ late' = IF feed = "sales" /\ row[i] # NoRow THEN late
             ELSE IF now - writing[i].at >= Lag THEN late \cup {i} ELSE late \ {i}
  /\ moved' = IF row[i] # NoRow THEN moved \cup {i} ELSE moved
  /\ UNCHANGED <<feed, now, place, has, reply, reader>>

RollBack(i) ==
  /\ writing[i] # NoRow /\ writing' = [writing EXCEPT ![i] = NoRow]
  /\ UNCHANGED <<feed, now, row, place, has, reply, reader, late, moved>>

-----------------------------------------------------------------------------
(* A page. *)

Committed == {i \in Rows : row[i] # NoRow}

\* Bug: rows of the cursor's own instant are taken to have been sent.
AfterByTime(p, i) == row[i].at > p.at

\* keysetWhereCreated, keysetWhereUpdated: later, or the same instant and a larger id.
\* A time alone stands for every row of that instant.
After(p, i) == row[i].at > p.at \/ (row[i].at = p.at /\ i > p.id)

\* Bug: the backward walk passes over rows of the same instant.
BeforeByTime(p, i) == row[i].at < p.at

\* keysetWhereCreatedDesc, keysetWhereUpdatedDesc.
Before(p, i) == row[i].at < p.at \/ (row[i].at = p.at /\ i < p.id)

PagedBefore(i, j) == row[i].at < row[j].at \/ (row[i].at = row[j].at /\ i < j)

\* take: the first rows of those there are, and the last of a page; read backwards too.
PageOf(S) == {i \in S : Cardinality({j \in S : PagedBefore(j, i)}) < Limit}
LastOf(page) == CHOOSE i \in page : \A j \in page \ {i} : PagedBefore(j, i)

PageBackOf(S) == {i \in S : Cardinality({j \in S : PagedBefore(i, j)}) < Limit}
FirstOf(page) == CHOOSE i \in page : \A j \in page \ {i} : PagedBefore(i, j)

PlaceOf(i) == [at |-> row[i].at, id |-> i]

\* Bugs: the page reaches up to the clock; the lag is added.
ThroughNow == now
ThroughAhead == now + Lag

SyncedThrough == now - Lag

\* findAll, syncing: the page, and where the device goes on from.
Page(p) ==
  LET page == PageOf({i \in Committed : row[i].at <= SyncedThrough /\ After(p, i)})
  IN  [rows |-> [i \in page |-> row[i].version],
       next |-> IF Cardinality(page) = Limit THEN PlaceOf(LastOf(page))
                ELSE IF SyncedThrough < p.at THEN p
                ELSE [at |-> SyncedThrough, id |-> AllIds]]

Pull ==
  /\ reply = NoRow /\ SyncedThrough >= 0 /\ reply' = Page(place)
  /\ UNCHANGED <<feed, now, row, writing, place, has, reader, late, moved>>

\* The device keeps rows by id, and its place only with the page it belongs to.
Receive ==
  /\ reply # NoRow /\ reply' = NoRow /\ place' = reply.next
  /\ has' = [i \in Rows |-> IF i \in DOMAIN reply.rows THEN reply.rows[i] ELSE has[i]]
  /\ UNCHANGED <<feed, now, row, writing, reader, late, moved>>

LosePage ==
  /\ reply # NoRow /\ reply' = NoRow
  /\ UNCHANGED <<feed, now, row, writing, place, has, reader, late, moved>>

\* A person opens the list, newest first, up to the moment.
OpenList ==
  /\ reader = NoRow
  /\ reader' = [place |-> [at |-> MaxTime, id |-> AllIds], shown |-> {}, had |-> Committed, more |-> TRUE]
  /\ moved' = {}
  /\ UNCHANGED <<feed, now, row, writing, place, has, reply, late>>

\* findAll, browsing.
PageBack ==
  /\ reader # NoRow /\ reader.more
  /\ LET page == PageBackOf({i \in Committed : Before(reader.place, i)})
     IN  reader' = [reader EXCEPT
           !.place = IF page = {} THEN @ ELSE PlaceOf(FirstOf(page)),
           !.shown = @ \cup page, !.more = Cardinality(page) = Limit]
  /\ UNCHANGED <<feed, now, row, writing, place, has, reply, late, moved>>

SyncNext ==
  \/ Tick \/ Pull \/ Receive \/ LosePage \/ OpenList \/ PageBack
  \/ \E i \in Rows : WriteRow(i) \/ Commit(i) \/ RollBack(i)

SyncSpec == SyncInit /\ [][SyncNext]_syncVars

-----------------------------------------------------------------------------
(* Properties. *)

\* The device never goes past a row it does not have as it is, except one whose
\* transaction outlived the time the feed is held back: sales that change keep their
\* place, so of those it is only sure to have some version.
NothingSteppedOver ==
  \A i \in Committed \ late :
    ~After(place, i) => has[i] = row[i].version \/ (feed = "sales" /\ has[i] > 0)

\* A person who pages back to the end was shown every row there was when they began,
\* however many came meanwhile, but for those written again and moved to the top.
BrowsedToTheEnd ==
  reader # NoRow /\ ~reader.more => reader.had \subseteq reader.shown \cup moved

\* A device that keeps asking, over a connection that sometimes answers, comes to have
\* every row as it is, however pages are lost.
EveryRowArrives ==
  \A i \in Rows : i \in Committed ~>
    \/ i \in late \/ feed = "sales"
    \/ row[i] # NoRow /\ (row[i].at > MaxTime - Lag \/ has[i] = row[i].version)

\* Neither a device nor a person is shown less than there was.
FeedMissesNothing == NothingSteppedOver /\ BrowsedToTheEnd
=============================================================================
