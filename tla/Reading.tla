------------------------------ MODULE Reading ------------------------------
(***************************************************************************)
(* GET /trips/paging and GET /posts from the handler on.  findAndCount     *)
(* queries the rows of a page and then counts all rows, outside of any     *)
(* transaction, while new trips and posts are stored.  Readers ask page    *)
(* after page.  Rows are ordered by updatedAt, which is set before the     *)
(* COMMIT and may be the same for several of them, or in any order when    *)
(* the sort is neither ASC nor DESC; no row is ever changed or removed.    *)
(***************************************************************************)
EXTENDS Integers, FiniteSets

CONSTANTS
  Reader,
  User,
  Row,        \* the trips, or the posts, that may be stored
  Owner,      \* Owner[w]: the publisher of row w
  Arg,        \* what a reader may send for take and skip: numbers, Absent, NaN
  Absent,     \* nothing, or the empty string
  NaN,        \* something that is no number
  NoQuery,
  MaxTime     \* bound: instants

ASSUME OwnerAssumption == Owner \in [Row -> User]

ASSUME RowAssumption == IsFiniteSet(Row)

ASSUME TimeAssumption == MaxTime \in Nat \ {0}

ASSUME ArgAssumption == Arg \ {Absent, NaN} \subseteq Int

\* The orders that TypeORM knows; any other value is handed on, and ignored.
Ordered == {"ASC", "DESC"}

Query == [of : {"trips", "posts"}, user : User, publisherId : User,
          sort : Ordered \cup {"other"}, take : Arg, skip : Arg \cup (0..Cardinality(Row))]

VARIABLES
  time,    \* the clock
  stamp,   \* stamp[w]: updatedAt of row w, 0 before it is saved
  stored,  \* the rows committed
  pc,      \* pc[c]: what the request of reader c waits for
  query,   \* query[c]: what it asks for
  page,    \* page[c]: the rows it has got
  count,   \* count[c]: the count it is answered with
  code,    \* code[c]: the status it is answered with
  known,   \* known[c]: rows there were when c began to read from the start
  read     \* read[c]: the rows c has read since

rows == <<time, stamp, stored>>
vars == <<rows, pc, query, page, count, code, known, read>>

TypeOK ==
  /\ time \in 1..MaxTime
  /\ stamp \in [Row -> 0..MaxTime]
  /\ stored \in SUBSET Row
  /\ pc \in [Reader -> {"new", "page", "count", "answered"}]
  /\ query \in [Reader -> Query \cup {NoQuery}]
  /\ page \in [Reader -> SUBSET Row]
  /\ count \in [Reader -> 0..Cardinality(Row)]
  /\ code \in [Reader -> {0, 200, 404, 500}]
  /\ known \in [Reader -> SUBSET Row]
  /\ read \in [Reader -> SUBSET Row]

Init ==
  /\ time = 1
  /\ stamp = [w \in Row |-> 0]
  /\ stored = {}
  /\ pc = [c \in Reader |-> "new"]
  /\ query = [c \in Reader |-> NoQuery]
  /\ page = [c \in Reader |-> {}]
  /\ count = [c \in Reader |-> 0]
  /\ code = [c \in Reader |-> 0]
  /\ known = [c \in Reader |-> {}]
  /\ read = [c \in Reader |-> {}]

-----------------------------------------------------------------------------
(* The rows.                                                               *)

reading == <<pc, query, page, count, code, known, read>>

Tick == time < MaxTime /\ time' = time + 1 /\ UNCHANGED <<stamp, stored, reading>>

\* save() is called: BeforeInsert sets updatedAt.
Save(w) ==
  /\ stamp[w] = 0
  /\ stamp' = [stamp EXCEPT ![w] = time]
  /\ UNCHANGED <<time, stored, reading>>

Store(w) ==
  /\ stamp[w] # 0
  /\ w \notin stored
  /\ stored' = stored \cup {w}
  /\ UNCHANGED <<time, stamp, reading>>

-----------------------------------------------------------------------------
(* The queries.                                                            *)

\* A query of trips is about those of a user, if the user asks, or of all others.
Matching(q) ==
  {w \in stored : q.of = "trips" => (Owner[w] = q.publisherId <=> q.user = q.publisherId)}

\* What take and skip mean.  TypeORM ignores 0 and NaN.
Limit(q) == IF q.take = Absent THEN 10
            ELSE IF q.take \in {NaN, 0} THEN Cardinality(Row)
            ELSE q.take
Offset(q) == IF q.skip \in {Absent, NaN} THEN 0 ELSE q.skip

Least(m, n) == IF m < n THEN m ELSE n

NotAfter(q, v, w) ==
  /\ q.sort = "ASC" => stamp[v] <= stamp[w]
  /\ q.sort = "DESC" => stamp[v] >= stamp[w]

\* Mutant of Pages: the option "order" is not handed on.
PagesInAnyOrder(q) ==
  LET all == Matching(q)
      skipped == Least(Offset(q), Cardinality(all))
  IN  {p \in SUBSET all : Cardinality(p) = Least(Limit(q), Cardinality(all) - skipped)}

\* The pages the database may answer with: rows of the same instant have any
\* order, and so have all rows when none is asked for.
Pages(q) ==
  LET all == Matching(q)
      skipped == Least(Offset(q), Cardinality(all))
      First(before, rest) == \A v \in before, w \in rest : NotAfter(q, v, w)
  IN  {p \in SUBSET all :
         /\ Cardinality(p) = Least(Limit(q), Cardinality(all) - skipped)
         /\ \E before \in SUBSET (all \ p) :
              /\ Cardinality(before) = skipped
              /\ First(before, all \ before)
              /\ First(p, all \ (before \cup p))}

-----------------------------------------------------------------------------
(* The requests.                                                           *)

Ask(c) ==
  /\ pc[c] = "new"
  /\ \E q \in Query :
       /\ q.skip \in Arg
       /\ query' = [query EXCEPT ![c] = q]
  /\ pc' = [pc EXCEPT ![c] = "page"]
  /\ UNCHANGED <<rows, page, count, code, known, read>>

More(c) == page[c] # {} /\ Offset(query[c]) + Cardinality(page[c]) < count[c]

\* The reader asks for the rows behind those it has got.
AskMore(c) ==
  /\ pc[c] = "answered"
  /\ code[c] = 200
  /\ More(c)
  /\ query' = [query EXCEPT ![c].skip = Offset(query[c]) + Cardinality(page[c])]
  /\ pc' = [pc EXCEPT ![c] = "page"]
  /\ code' = [code EXCEPT ![c] = 0]
  /\ page' = [page EXCEPT ![c] = {}]
  /\ UNCHANGED <<rows, count, known, read>>

Answer(c, status) ==
  /\ pc' = [pc EXCEPT ![c] = "answered"]
  /\ code' = [code EXCEPT ![c] = status]

\* The database refuses a negative LIMIT or OFFSET.
Refused(c) ==
  /\ pc[c] = "page"
  /\ Limit(query[c]) < 0 \/ Offset(query[c]) < 0
  /\ Answer(c, 500)
  /\ UNCHANGED <<rows, query, page, count, known, read>>

\* The rows of the page.
Find(c) ==
  LET q == query[c] IN
  /\ pc[c] = "page"
  /\ Limit(q) >= 0 /\ Offset(q) >= 0
  /\ \E p \in Pages(q) :
       /\ page' = [page EXCEPT ![c] = p]
       /\ read' = [read EXCEPT ![c] = @ \cup p]
  /\ known' = IF Offset(q) = 0 THEN [known EXCEPT ![c] = Matching(q)] ELSE known
  /\ pc' = [pc EXCEPT ![c] = "count"]
  /\ UNCHANGED <<rows, query, count, code>>

\* Mutant of Count: the rows of the page are counted.
CountPage(c) ==
  LET n == Cardinality(page[c]) IN
  /\ pc[c] = "count"
  /\ count' = [count EXCEPT ![c] = n]
  /\ Answer(c, IF n = 0 THEN 404 ELSE 200)
  /\ UNCHANGED <<rows, query, page, known, read>>

\* Mutant of Count: the status of an empty page is No Content.
CountOrNoContent(c) ==
  LET n == Cardinality(Matching(query[c])) IN
  /\ pc[c] = "count"
  /\ count' = [count EXCEPT ![c] = n]
  /\ Answer(c, IF page[c] = {} THEN 204 ELSE 200)
  /\ UNCHANGED <<rows, query, page, known, read>>

\* All rows are counted.  An empty page is not found if it is one of posts, or
\* if the count is 0.
Count(c) ==
  LET n == Cardinality(Matching(query[c])) IN
  /\ pc[c] = "count"
  /\ count' = [count EXCEPT ![c] = n]
  /\ Answer(c, IF n = 0 \/ (query[c].of = "posts" /\ page[c] = {}) THEN 404 ELSE 200)
  /\ UNCHANGED <<rows, query, page, known, read>>

\* A query fails.
Fails(c) ==
  /\ pc[c] \in {"page", "count"}
  /\ Answer(c, 500)
  /\ UNCHANGED <<rows, query, page, count, known, read>>

Next ==
  \/ \E c \in Reader : Ask(c) \/ AskMore(c) \/ Refused(c) \/ Find(c) \/ Count(c) \/ Fails(c)
  \/ \E w \in Row : Save(w) \/ Store(w)
  \/ Tick

Spec == Init /\ [][Next]_vars

-----------------------------------------------------------------------------
(* Properties.                                                             *)

\* The count an answer gives covers the rows skipped and the rows of its page,
\* whatever is stored between the two queries (trip.repository.ts 108-115,
\* post.repository.ts 81-88).
CountCoversPage ==
  \A c \in Reader : code[c] = 200 /\ page[c] # {} =>
    Offset(query[c]) + Cardinality(page[c]) <= count[c]

\* The reader has come to an end: nothing found, or nothing more to ask for.
Ended(c) == code[c] = 404 \/ (code[c] = 200 /\ ~More(c))

\* The rows that share their updatedAt with no other.
Untied == {w \in stored : \A v \in stored : stamp[v] = stamp[w] => v = w}

\* A reader who starts at the first row and asks on until the count is reached
\* has read every row there was at the start, though rows are stored meanwhile
\* and shift the pages: all but those that share their updatedAt with another,
\* and only if the sort asked for is one that TypeORM knows
\* (trip.repository.ts 84-115, post.repository.ts 68-88).
NothingSkipped ==
  \A c \in Reader : Ended(c) /\ query[c].sort \in Ordered => known[c] \cap Untied \subseteq read[c]
=============================================================================
