--------------------------- MODULE ReadingProofs ---------------------------
(***************************************************************************)
(* Proofs about Reading, for any readers, users and arguments and any      *)
(* finite set of rows.  IInv says that a page fits into the rows there     *)
(* are; NInv that what a reader has still to read lies behind the rows it  *)
(* has got, which, as rows are only added, stays so.                       *)
(***************************************************************************)
EXTENDS Reading, FiniteSetTheorems, TLAPS

\* The rows skipped and those of the page fit into n rows.
Fits(c, n) == page[c] # {} => Offset(query[c]) + Cardinality(page[c]) <= n

\* What is known of the request of reader c: its page fits into the rows there
\* are, and into the count once it is answered.
Reads(c) ==
  /\ pc[c] # "new" => query[c] \in Query
  /\ pc[c] = "count" \/ code[c] = 200 => Offset(query[c]) >= 0
  /\ pc[c] = "count" => Fits(c, Cardinality(Matching(query[c])))
  /\ code[c] # 0 => pc[c] = "answered"
  /\ code[c] = 200 => Fits(c, count[c])

IInv ==
  /\ TypeOK
  /\ \A c \in Reader : Reads(c)

-----------------------------------------------------------------------------
(* What the arguments come to, and how many rows there can be.             *)

LEMMA Numbers ==
  ASSUME NEW q \in Query
  PROVE  Limit(q) \in Int /\ Offset(q) \in Int
<1>1. Cardinality(Row) \in Nat
  BY RowAssumption, FS_CardinalityType
<1>2. q.take \in Arg /\ q.skip \in Arg \cup 0..Cardinality(Row)
  BY DEF Query
<1> QED
  BY <1>1, <1>2, ArgAssumption DEF Limit, Offset

LEMMA CountType ==
  ASSUME NEW S \in SUBSET Row
  PROVE  /\ IsFiniteSet(S)
         /\ Cardinality(S) \in 0..Cardinality(Row)
BY RowAssumption, FS_Subset, FS_CardinalityType

\* A page that is not empty lies behind the rows skipped.
LEMMA PageFits ==
  ASSUME stored \in SUBSET Row, NEW q \in Query, NEW p \in Pages(q),
         Limit(q) >= 0, Offset(q) >= 0, p # {}
  PROVE  Offset(q) + Cardinality(p) <= Cardinality(Matching(q))
<1> DEFINE all == Matching(q)
           n == Cardinality(all)
           skipped == Least(Offset(q), n)
<1>1. all \in SUBSET Row /\ n \in Nat
  BY CountType, RowAssumption, FS_CardinalityType DEF Matching
<1>2. /\ p \in SUBSET all
      /\ Cardinality(p) = Least(Limit(q), n - skipped)
  BY DEF Pages
<1>3. Cardinality(p) \in Nat /\ Cardinality(p) # 0
  <2>1. p \in SUBSET Row
    BY <1>1, <1>2
  <2> QED
    BY <2>1, CountType, FS_CardinalityType, FS_EmptySet
<1>4. Limit(q) \in Int /\ Offset(q) \in Int
  BY Numbers
<1> HIDE DEF all, n
<1>5. Offset(q) + Cardinality(p) <= n
  BY <1>1, <1>2, <1>3, <1>4 DEF Least
<1> QED
  BY <1>5 DEF n, all

\* Rows are only added.
LEMMA MatchingGrows ==
  ASSUME stored' \in SUBSET Row, stored \subseteq stored', NEW q
  PROVE  Cardinality(Matching(q)) <= Cardinality(Matching(q)')
<1>1. Matching(q) \subseteq Matching(q)' /\ Matching(q)' \in SUBSET Row
  BY DEF Matching
<1> QED
  BY <1>1, CountType, FS_Subset

-----------------------------------------------------------------------------
LEMMA InvInit == Init => IInv
<1> SUFFICES ASSUME Init PROVE IInv
  OBVIOUS
<1>1. 0 \in 0..Cardinality(Row)
  BY RowAssumption, FS_CardinalityType
<1> QED
  BY <1>1, TimeAssumption DEF Init, IInv, TypeOK, Reads, Fits

\* Nothing but the rows changes, and none is removed.
LEMMA RowsStep ==
  ASSUME IInv, UNCHANGED reading, stored' \in SUBSET Row, stored \subseteq stored', NEW c \in Reader
  PROVE  Reads(c)'
<1> USE DEF reading
<1>1. CASE pc[c] = "count"
  <2>1. query[c] \in Query
    BY <1>1 DEF IInv, Reads
  <2>2. /\ Cardinality(Matching(query[c])) <= Cardinality(Matching(query[c])')
        /\ Cardinality(Matching(query[c])) \in Int
        /\ Cardinality(Matching(query[c])') \in Int
    <3>1. Matching(query[c]) \in SUBSET Row /\ Matching(query[c])' \in SUBSET Row
      BY DEF Matching, IInv, TypeOK
    <3> QED
      BY <3>1, MatchingGrows, CountType
  <2>3. Offset(query[c]) \in Int /\ Cardinality(page[c]) \in Int
    BY <2>1, Numbers, CountType DEF IInv, TypeOK
  <2> QED
    BY <1>1, <2>2, <2>3 DEF IInv, Reads, Fits, Offset, Matching
<1>2. CASE pc[c] # "count"
  BY <1>2 DEF IInv, Reads, Fits, Offset
<1> QED
  BY <1>1, <1>2

\* A reader does not disturb another.
LEMMA Frame ==
  ASSUME IInv, NEW d \in Reader, UNCHANGED rows,
         pc'[d] = pc[d], query'[d] = query[d], page'[d] = page[d],
         count'[d] = count[d], code'[d] = code[d]
  PROVE  Reads(d)'
BY DEF IInv, Reads, Fits, Offset, Matching, rows

LEMMA InvStep == IInv /\ [Next]_vars => IInv'
<1> SUFFICES ASSUME IInv, [Next]_vars PROVE IInv'
  OBVIOUS
<1>1. ASSUME NEW c \in Reader, Ask(c)
      PROVE  IInv'
  <2>1. PICK q \in Query : query' = [query EXCEPT ![c] = q]
    BY <1>1 DEF Ask
  <2>2. TypeOK'
    BY <1>1, <2>1 DEF Ask, IInv, TypeOK, rows
  <2>3. ASSUME NEW d \in Reader, d # c
        PROVE  Reads(d)'
    BY <1>1, <2>3, Frame DEF Ask, IInv, TypeOK
  <2>4. Reads(c)'
    BY <1>1, <2>1 DEF Ask, IInv, TypeOK, Reads
  <2> QED
    BY <2>2, <2>3, <2>4 DEF IInv
<1>2. ASSUME NEW c \in Reader, AskMore(c)
      PROVE  IInv'
  <2> DEFINE next == Offset(query[c]) + Cardinality(page[c])
  <2>1. query[c] \in Query /\ Offset(query[c]) >= 0
    BY <1>2 DEF AskMore, IInv, Reads
  <2>2. Offset(query[c]) \in Int /\ Cardinality(page[c]) \in Nat /\ count[c] \in 0..Cardinality(Row)
    BY <2>1, Numbers, CountType DEF IInv, TypeOK
  <2>3. next \in 0..Cardinality(Row)
    <3>1. next < count[c]
      BY <1>2 DEF AskMore, More
    <3>2. Cardinality(Row) \in Nat
      BY RowAssumption, FS_CardinalityType
    <3> QED
      BY <2>1, <2>2, <3>1, <3>2
  <2>4. query' = [query EXCEPT ![c] = [query[c] EXCEPT !.skip = next]]
    BY <1>2 DEF AskMore
  <2>5. [query[c] EXCEPT !.skip = next] \in Query
    BY <2>1, <2>3 DEF Query
  <2>6. TypeOK'
    BY <1>2, <2>4, <2>5 DEF AskMore, IInv, TypeOK, rows
  <2>7. ASSUME NEW d \in Reader, d # c
        PROVE  Reads(d)'
    BY <1>2, <2>4, <2>7, Frame DEF AskMore, IInv, TypeOK
  <2>8. Reads(c)'
    BY <1>2, <2>4, <2>5 DEF AskMore, IInv, TypeOK, Reads
  <2> QED
    BY <2>6, <2>7, <2>8 DEF IInv
<1>3. ASSUME NEW c \in Reader, Refused(c) \/ Fails(c)
      PROVE  IInv'
  <2>1. TypeOK'
    BY <1>3 DEF Refused, Fails, Answer, IInv, TypeOK, rows
  <2>2. ASSUME NEW d \in Reader, d # c
        PROVE  Reads(d)'
    BY <1>3, <2>2, Frame DEF Refused, Fails, Answer, IInv, TypeOK
  <2>3. Reads(c)'
    BY <1>3 DEF Refused, Fails, Answer, IInv, TypeOK, Reads
  <2> QED
    BY <2>1, <2>2, <2>3 DEF IInv
<1>4. ASSUME NEW c \in Reader, Find(c)
      PROVE  IInv'
  <2>1. PICK p \in Pages(query[c]) : /\ page' = [page EXCEPT ![c] = p]
                                      /\ read' = [read EXCEPT ![c] = @ \cup p]
    BY <1>4 DEF Find
  <2>2. query[c] \in Query /\ stored \in SUBSET Row
    BY <1>4 DEF Find, IInv, Reads, TypeOK
  <2>3. Matching(query[c]) \in SUBSET Row /\ p \in SUBSET Row
    BY <2>1, <2>2 DEF Pages, Matching
  <2>4. TypeOK'
    BY <1>4, <2>1, <2>3 DEF Find, IInv, TypeOK, rows
  <2>5. ASSUME NEW d \in Reader, d # c
        PROVE  Reads(d)'
    BY <1>4, <2>1, <2>5, Frame DEF Find, IInv, TypeOK
  <2>6. p # {} => Offset(query[c]) + Cardinality(p) <= Cardinality(Matching(query[c]))
    BY <1>4, <2>1, <2>2, PageFits DEF Find
  <2>7. Reads(c)'
    BY <1>4, <2>1, <2>2, <2>6 DEF Find, IInv, TypeOK, Reads, Fits, Offset, Matching, rows
  <2> QED
    BY <2>4, <2>5, <2>7 DEF IInv
<1>5. ASSUME NEW c \in Reader, Count(c)
      PROVE  IInv'
  <2>1. Cardinality(Matching(query[c])) \in 0..Cardinality(Row)
    BY CountType DEF Matching, IInv, TypeOK
  <2>2. TypeOK'
    BY <1>5, <2>1 DEF Count, Answer, IInv, TypeOK, rows
  <2>3. ASSUME NEW d \in Reader, d # c
        PROVE  Reads(d)'
    BY <1>5, <2>3, Frame DEF Count, Answer, IInv, TypeOK
  <2>4. Reads(c)'
    BY <1>5 DEF Count, Answer, IInv, TypeOK, Reads, Fits, Offset
  <2> QED
    BY <2>2, <2>3, <2>4 DEF IInv
<1>6. ASSUME NEW w \in Row, Save(w) \/ Store(w)
      PROVE  IInv'
  <2>1. stored' \in SUBSET Row /\ stored \subseteq stored' /\ UNCHANGED reading
    BY <1>6 DEF Save, Store, IInv, TypeOK
  <2>2. TypeOK'
    BY <1>6, <2>1 DEF Save, Store, IInv, TypeOK, reading
  <2> QED
    BY <2>1, <2>2, RowsStep DEF IInv
<1>7. CASE Tick
  <2>1. stored' \in SUBSET Row /\ stored \subseteq stored' /\ UNCHANGED reading
    BY <1>7 DEF Tick, IInv, TypeOK
  <2>2. TypeOK'
    BY <1>7, <2>1, TimeAssumption DEF Tick, IInv, TypeOK, reading
  <2> QED
    BY <2>1, <2>2, RowsStep DEF IInv
<1>8. CASE UNCHANGED vars
  BY <1>8, Frame DEF vars, rows, IInv, TypeOK
<1> QED
  BY <1>1, <1>2, <1>3, <1>4, <1>5, <1>6, <1>7, <1>8 DEF Next

LEMMA Invariance == Spec => []IInv
BY InvInit, InvStep, PTL DEF Spec

-----------------------------------------------------------------------------
(* The pages of a reader who asks on.                                      *)

\* The rows ahead of row w, among those that match.
Ahead(q, w) == {v \in Matching(q) : ~NotAfter(q, w, v)}

\* What reader c has still to read, of the rows that have their place in the order.
Unread(c) == {w \in known[c] \ read[c] : w \in Untied /\ query[c].sort \in Ordered}

\* The rows that reader c has still to read are all behind its first n rows.
Behind(c, n) == \A w \in Unread(c) : n <= Cardinality(Ahead(query[c], w))

Reached(c) == Offset(query[c]) + Cardinality(page[c])

\* What reader c knows of is there to be read: behind the rows that are skipped,
\* then behind those of the page, and then within the count.
Covers(c) ==
  /\ pc[c] = "page" => Behind(c, Offset(query[c]))
  /\ pc[c] = "count" \/ code[c] = 200 => Behind(c, Reached(c))
  /\ pc[c] = "count" /\ page[c] = {} => Unread(c) = {}
  /\ Ended(c) => Unread(c) = {}

\* A stored row has its instant; what is known of is stored, and matches.
Known ==
  /\ \A w \in stored : stamp[w] # 0
  /\ \A c \in Reader : known[c] # {} => pc[c] # "new" /\ known[c] \subseteq Matching(query[c])

NInv ==
  /\ IInv
  /\ Known
  /\ \A c \in Reader : Covers(c)

\* Fewer rows are ahead than there are.
LEMMA AheadFewer ==
  ASSUME stored \in SUBSET Row, NEW q, NEW w \in Matching(q), stamp \in [Row -> 0..MaxTime]
  PROVE  /\ Ahead(q, w) \in SUBSET Row
         /\ Cardinality(Ahead(q, w)) < Cardinality(Matching(q))
<1>1. Matching(q) \in SUBSET Row /\ w \in Row
  BY DEF Matching
<1>2. w \notin Ahead(q, w)
  BY <1>1, TimeAssumption DEF Ahead, NotAfter
<1>3. Ahead(q, w) \subseteq Matching(q) \ {w}
  BY <1>2 DEF Ahead
<1>4. /\ IsFiniteSet(Matching(q)) /\ IsFiniteSet(Matching(q) \ {w})
      /\ Cardinality(Matching(q) \ {w}) = Cardinality(Matching(q)) - 1
      /\ Cardinality(Matching(q)) \in Int
  BY <1>1, CountType, FS_RemoveElement
<1>5. /\ Cardinality(Ahead(q, w)) <= Cardinality(Matching(q) \ {w})
      /\ Cardinality(Ahead(q, w)) \in Int
  BY <1>1, <1>3, <1>4, FS_Subset, CountType
<1> QED
  BY <1>1, <1>3, <1>4, <1>5

\* A row behind those that are skipped, and not on the page, is behind the page;
\* and when the page is empty there is none.
LEMMA BehindPage ==
  ASSUME stored \in SUBSET Row, stamp \in [Row -> 0..MaxTime],
         NEW q \in Query, Limit(q) >= 0, Offset(q) >= 0, NEW p \in Pages(q),
         NEW w \in Matching(q) \ p, w \in Untied, q.sort \in Ordered, Offset(q) <= Cardinality(Ahead(q, w))
  PROVE  /\ Offset(q) + Cardinality(p) <= Cardinality(Ahead(q, w))
         /\ p # {}
<1> DEFINE all == Matching(q)
           n == Cardinality(all)
           skipped == Least(Offset(q), n)
           ahead == Ahead(q, w)
<1>1. all \in SUBSET Row /\ p \in SUBSET Row /\ w \in Row /\ w \in all
  BY DEF Matching, Pages
<1>2. n \in Nat /\ Cardinality(p) \in Nat /\ Limit(q) \in Int /\ Offset(q) \in Int
  BY <1>1, CountType, Numbers, RowAssumption, FS_CardinalityType
<1>3. ahead \in SUBSET Row /\ Cardinality(ahead) < n /\ Cardinality(ahead) \in Nat
  BY AheadFewer, CountType, RowAssumption, FS_CardinalityType
<1>4. skipped = Offset(q) /\ Offset(q) < n
  BY <1>2, <1>3 DEF Least
<1>5. PICK before \in SUBSET (all \ p) :
        /\ Cardinality(before) = skipped
        /\ \A v \in before, x \in all \ before : NotAfter(q, v, x)
        /\ \A v \in p, x \in all \ (before \cup p) : NotAfter(q, v, x)
  BY DEF Pages
<1>6. Cardinality(p) = Least(Limit(q), n - skipped)
  BY DEF Pages
<1>7. before \in SUBSET Row /\ IsFiniteSet(before) /\ IsFiniteSet(p) /\ IsFiniteSet(ahead)
  BY <1>1, <1>3, CountType
<1>8. w \notin before
  <2> SUFFICES ASSUME w \in before PROVE FALSE
    OBVIOUS
  <2>1. ahead \subseteq before \ {w}
    <3>1. ahead \subseteq before
      BY <1>5, <1>1 DEF Ahead
    <3>2. w \notin ahead
      BY <1>1, TimeAssumption DEF Ahead, NotAfter
    <3> QED
      BY <3>1, <3>2
  <2>2. /\ Cardinality(before \ {w}) = Cardinality(before) - 1
        /\ IsFiniteSet(before \ {w})
    BY <1>7, FS_RemoveElement
  <2>3. Cardinality(ahead) <= Cardinality(before \ {w})
    BY <2>1, <2>2, FS_Subset
  <2> QED
    BY <1>2, <1>3, <1>4, <1>5, <2>2, <2>3
<1>9. before \cup p \subseteq ahead
  <2> SUFFICES ASSUME NEW v \in before \cup p PROVE v \in ahead
    OBVIOUS
  <2>1. NotAfter(q, v, w) /\ v # w /\ v \in all
    BY <1>1, <1>5, <1>8, w \notin p DEF Pages
  <2>2. stamp[v] # stamp[w]
    BY <1>1, <2>1 DEF Untied, Matching
  <2>3. stamp[v] \in Int /\ stamp[w] \in Int
    BY <1>1, <2>1, TimeAssumption
  <2> QED
    BY <2>1, <2>2, <2>3 DEF Ahead, NotAfter, Ordered
<1>10. Cardinality(before \cup p) = Cardinality(before) + Cardinality(p)
  <2>1. before \cap p = {}
    OBVIOUS
  <2>2. Cardinality(before \cup p) = Cardinality(before) + Cardinality(p) - Cardinality(before \cap p)
    BY <1>7, FS_Union
  <2>3. Cardinality(before) \in Int /\ Cardinality(p) \in Int
    BY <1>2, <1>4, <1>5
  <2>4. Cardinality(before \cap p) = 0
    BY <2>1, FS_EmptySet
  <2> HIDE DEF all, n, skipped, ahead
  <2> QED
    BY <2>2, <2>3, <2>4
<1>11. Cardinality(before \cup p) <= Cardinality(ahead)
  BY <1>7, <1>9, FS_Subset
<1>12. Limit(q) # 0
  <2>1. Cardinality(Row) # 0
    BY <1>1, RowAssumption, FS_EmptySet
  <2> QED
    BY <2>1 DEF Limit
<1>13. p # {}
  <2>1. Cardinality(p) # 0
    BY <1>2, <1>4, <1>6, <1>12 DEF Least
  <2> QED
    BY <2>1, FS_EmptySet
<1> QED
  BY <1>4, <1>5, <1>10, <1>11, <1>13

\* Rows are added, and those that are stored keep their instants.
Grow == stored \subseteq stored' /\ \A v \in stored : stamp'[v] = stamp[v]

\* Reader c asks for the same rows as before, whichever of them it skips.
SameRows(c) ==
  /\ query'[c].of = query[c].of
  /\ query'[c].user = query[c].user
  /\ query'[c].publisherId = query[c].publisherId
  /\ query'[c].sort = query[c].sort

\* A row that shares its instant with no other never did.
LEMMA TiesStay ==
  ASSUME NInv, Grow, NEW c \in Reader, SameRows(c), known'[c] = known[c], read'[c] = read[c]
  PROVE  Unread(c)' \subseteq Unread(c)
<1>1. known[c] \subseteq stored
  BY DEF NInv, Known, Matching
<1>2. Untied' \cap stored \subseteq Untied
  BY DEF Grow, Untied
<1> QED
  BY <1>1, <1>2 DEF Unread, SameRows

\* What is behind n rows stays so.
LEMMA StillBehind ==
  ASSUME NInv, TypeOK', Grow, NEW c \in Reader, SameRows(c),
         known'[c] = known[c], read'[c] = read[c],
         NEW n \in Int, Behind(c, n), NEW w \in Unread(c)'
  PROVE  n <= Cardinality(Ahead(query[c], w)')
<1>1. stored \in SUBSET Row /\ stored' \in SUBSET Row /\ stored \subseteq stored'
  BY DEF NInv, IInv, TypeOK, Grow
<1>2. w \in Unread(c) /\ w \in stored
  BY TiesStay DEF Unread, Untied
<1>3. Ahead(query[c], w) \subseteq Ahead(query[c], w)'
  BY <1>1, <1>2 DEF Ahead, Matching, NotAfter, SameRows, Grow
<1>4. Ahead(query[c], w) \in SUBSET Row /\ Ahead(query[c], w)' \in SUBSET Row
  BY <1>1 DEF Ahead, Matching
<1>5. /\ IsFiniteSet(Ahead(query[c], w)')
      /\ Cardinality(Ahead(query[c], w)) \in Int
      /\ Cardinality(Ahead(query[c], w)') \in Int
  BY <1>4, CountType
<1>6. Cardinality(Ahead(query[c], w)) <= Cardinality(Ahead(query[c], w)')
  BY <1>3, <1>5, FS_Subset
<1>7. n <= Cardinality(Ahead(query[c], w))
  BY <1>2 DEF Behind
<1> QED
  BY <1>5, <1>6, <1>7

\* A reader that does nothing.
LEMMA StillCovers ==
  ASSUME NInv, IInv', Grow, NEW c \in Reader,
         pc'[c] = pc[c], query'[c] = query[c], page'[c] = page[c], count'[c] = count[c],
         code'[c] = code[c], known'[c] = known[c], read'[c] = read[c]
  PROVE  Covers(c)'
<1>1. Covers(c) /\ Reads(c)
  BY DEF NInv, IInv
<1>2. /\ Offset(query[c])' = Offset(query[c])
      /\ Reached(c)' = Reached(c)
      /\ Unread(c)' \subseteq Unread(c)
      /\ Ended(c)' <=> Ended(c)
  BY TiesStay DEF Offset, Reached, SameRows, Ended, More
<1>3. ASSUME NEW n \in Int, Behind(c, n), NEW w \in Unread(c)'
      PROVE  n <= Cardinality(Ahead(query[c], w)')
  BY <1>3, StillBehind DEF SameRows, IInv
<1>4. CASE pc[c] = "page"
  <2>1. Offset(query[c]) \in Int
    BY <1>1, <1>4, Numbers DEF Reads
  <2>2. Behind(c, Offset(query[c]))'
    BY <1>1, <1>2, <1>3, <1>4, <2>1 DEF Covers, Behind
  <2>3. code[c] # 200
    BY <1>1, <1>4 DEF Reads
  <2> QED
    BY <1>1, <1>2, <1>4, <2>2, <2>3 DEF Covers
<1>5. CASE pc[c] = "count" \/ code[c] = 200
  <2>1. Reached(c) \in Int
    BY <1>1, <1>5, Numbers, CountType DEF Reads, Reached, NInv, IInv, TypeOK
  <2>2. Behind(c, Reached(c))'
    BY <1>1, <1>2, <1>3, <1>5, <2>1 DEF Covers, Behind
  <2>3. pc[c] # "page"
    BY <1>1, <1>5 DEF Reads
  <2> QED
    BY <1>1, <1>2, <1>5, <2>2, <2>3 DEF Covers
<1>6. CASE pc[c] # "page" /\ pc[c] # "count" /\ code[c] # 200
  BY <1>1, <1>2, <1>6 DEF Covers
<1> QED
  BY <1>4, <1>5, <1>6

\* A new reader knows of nothing.
LEMMA AskCovers ==
  ASSUME NInv, NEW c \in Reader, Ask(c)
  PROVE  known'[c] = {} /\ Covers(c)'
<1>1. known'[c] = {}
  BY DEF Ask, NInv, Known
<1>2. Unread(c)' = {}
  BY <1>1 DEF Unread
<1> QED
  BY <1>1, <1>2 DEF Covers, Behind

\* The rows behind those of a page are those behind the rows now skipped.
LEMMA AskMoreCovers ==
  ASSUME NInv, IInv', NEW c \in Reader, AskMore(c)
  PROVE  SameRows(c) /\ Covers(c)'
<1>1. /\ query[c] \in Query /\ Offset(query[c]) >= 0 /\ Behind(c, Reached(c))
      /\ pc'[c] = "page" /\ code'[c] = 0
  BY DEF AskMore, NInv, IInv, TypeOK, Reads, Covers
<1>2. query'[c] = [query[c] EXCEPT !.skip = Reached(c)]
  BY DEF AskMore, Reached, NInv, IInv, TypeOK
<1>3. SameRows(c)
  BY <1>1, <1>2 DEF SameRows, Query
<1>4. Reached(c) \in Int /\ Reached(c) >= 0
  <2>1. Offset(query[c]) \in Int /\ Cardinality(page[c]) \in 0..Cardinality(Row)
    BY <1>1, Numbers, CountType DEF NInv, IInv, TypeOK
  <2> QED
    BY <1>1, <2>1 DEF Reached
<1>5. Offset(query[c])' \in {0, Reached(c)}
  BY <1>1, <1>2 DEF Offset, Query
<1>6. Grow
  BY DEF AskMore, Grow, rows
<1>7. ASSUME NEW w \in Unread(c)'
      PROVE  Offset(query[c])' <= Cardinality(Ahead(query[c], w)')
  <2>1. Reached(c) <= Cardinality(Ahead(query[c], w)')
    BY <1>1, <1>3, <1>4, <1>6, <1>7, StillBehind DEF AskMore, IInv
  <2>2. Cardinality(Ahead(query[c], w)') \in Int
    BY CountType DEF Ahead, Matching, IInv, TypeOK
  <2> QED
    BY <1>4, <1>5, <2>1, <2>2
<1>8. Behind(c, Offset(query[c]))'
  BY <1>7 DEF Behind
<1> QED
  BY <1>1, <1>3, <1>8 DEF Covers, Ended

\* A page takes the rows right behind those that are skipped.
LEMMA FindCovers ==
  ASSUME NInv, IInv', NEW c \in Reader, Find(c)
  PROVE  known'[c] \subseteq Matching(query[c]) /\ Covers(c)'
<1> DEFINE q == query[c]
<1>1. q \in Query /\ Limit(q) >= 0 /\ Offset(q) >= 0 /\ pc[c] = "page" /\ Behind(c, Offset(q))
  BY DEF Find, NInv, IInv, Reads, Covers
<1>2. PICK p \in Pages(q) : /\ page' = [page EXCEPT ![c] = p]
                             /\ read' = [read EXCEPT ![c] = @ \cup p]
  BY DEF Find
<1>3. /\ page'[c] = p /\ read'[c] = read[c] \cup p
      /\ pc'[c] = "count" /\ code'[c] = 0
      /\ UNCHANGED <<stored, stamp, query>>
  BY <1>1, <1>2 DEF Find, NInv, IInv, TypeOK, Reads, rows
<1>4. known'[c] = IF Offset(q) = 0 THEN Matching(q) ELSE known[c]
  BY DEF Find, NInv, IInv, TypeOK
<1>5. known'[c] \subseteq Matching(q)
  BY <1>4 DEF NInv, Known
<1>6. ASSUME NEW w \in Unread(c)'
      PROVE  /\ w \in Matching(q) \ p /\ Offset(q) <= Cardinality(Ahead(q, w))
             /\ w \in Untied /\ q.sort \in Ordered
  <2>1. w \in Matching(q) \ p /\ w \in Untied /\ q.sort \in Ordered
    BY <1>3, <1>5, <1>6 DEF Unread, Untied
  <2>2. CASE Offset(q) = 0
    <3>1. Cardinality(Ahead(q, w)) \in 0..Cardinality(Row)
      BY CountType DEF Ahead, Matching, NInv, IInv, TypeOK
    <3> QED
      BY <2>1, <2>2, <3>1
  <2>3. CASE Offset(q) # 0
    <3>1. w \in known[c] \ read[c]
      BY <1>3, <1>4, <1>6, <2>3 DEF Unread
    <3>2. w \in Unread(c)
      BY <2>1, <3>1 DEF Unread
    <3> QED
      BY <1>1, <2>1, <3>2 DEF Behind
  <2> QED
    BY <2>1, <2>2, <2>3
<1>7. ASSUME NEW w \in Unread(c)'
      PROVE  Offset(q) + Cardinality(p) <= Cardinality(Ahead(q, w)) /\ p # {}
  <2>1. /\ w \in Matching(q) \ p /\ Offset(q) <= Cardinality(Ahead(q, w))
        /\ w \in Untied /\ q.sort \in Ordered
    BY <1>6, <1>7
  <2>2. stored \in SUBSET Row /\ stamp \in [Row -> 0..MaxTime]
    BY DEF NInv, IInv, TypeOK
  <2> QED
    BY <1>1, <2>1, <2>2, BehindPage
<1>8. Reached(c)' = Offset(q) + Cardinality(p)
  BY <1>3 DEF Reached, Offset
<1>9. \A w : Ahead(query[c], w)' = Ahead(query[c], w)
  BY <1>3 DEF Ahead, Matching, NotAfter
<1>10. Behind(c, Reached(c))'
  BY <1>7, <1>8, <1>9 DEF Behind
<1>11. page'[c] = {} => Unread(c)' = {}
  BY <1>3, <1>7
<1> QED
  BY <1>3, <1>5, <1>10, <1>11 DEF Covers, Ended

\* Whatever is left to read is within the count.
LEMMA CountCovers ==
  ASSUME NInv, IInv', NEW c \in Reader, Count(c)
  PROVE  Covers(c)'
<1> DEFINE n == Cardinality(Matching(query[c]))
<1>1. /\ query[c] \in Query /\ pc[c] = "count"
      /\ Behind(c, Reached(c))
      /\ page[c] = {} => Unread(c) = {}
  BY DEF Count, NInv, IInv, Reads, Covers
<1>2. /\ pc'[c] = "answered" /\ count'[c] = n
      /\ code'[c] = IF n = 0 \/ (query[c].of = "posts" /\ page[c] = {}) THEN 404 ELSE 200
      /\ UNCHANGED <<stored, stamp, query, page, known, read>>
  BY DEF Count, Answer, NInv, IInv, TypeOK, rows
<1>3. /\ Unread(c)' = Unread(c) /\ Reached(c)' = Reached(c)
      /\ \A w : Ahead(query[c], w)' = Ahead(query[c], w)
  BY <1>2 DEF Unread, Untied, Reached, Offset, Ahead, Matching, NotAfter
<1>4. Behind(c, Reached(c))'
  BY <1>1, <1>3 DEF Behind
<1>5. ASSUME NEW w \in Unread(c)
      PROVE  page[c] # {} /\ Reached(c) < n
  <2>1. w \in Matching(query[c])
    BY <1>5 DEF Unread, NInv, Known
  <2>2. Cardinality(Ahead(query[c], w)) < n /\ Ahead(query[c], w) \in SUBSET Row
    BY <2>1, AheadFewer DEF NInv, IInv, TypeOK
  <2>3. Reached(c) <= Cardinality(Ahead(query[c], w))
    BY <1>1, <1>5 DEF Behind
  <2>4. /\ Cardinality(Ahead(query[c], w)) \in Int
        /\ n \in Int
    BY <2>2, CountType DEF Matching, NInv, IInv, TypeOK
  <2>5. Reached(c) \in Int
    BY <1>1, Numbers, CountType DEF Reached, NInv, IInv, TypeOK
  <2> QED
    BY <1>1, <1>5, <2>2, <2>3, <2>4, <2>5
<1>6. ASSUME NEW w \in Unread(c)
      PROVE  ~Ended(c)'
  <2>1. page[c] # {} /\ Reached(c) < n
    BY <1>5, <1>6
  <2>2. n # 0
    <3>1. w \in Matching(query[c]) /\ Matching(query[c]) \in SUBSET Row
      BY <1>6 DEF Unread, NInv, Known, Matching, IInv, TypeOK
    <3> QED
      BY <3>1, CountType, FS_EmptySet
  <2>3. code'[c] = 200
    BY <1>2, <2>1, <2>2
  <2>4. More(c)'
    BY <1>2, <1>3, <2>1 DEF More, Reached
  <2> QED
    BY <2>3, <2>4 DEF Ended
<1> QED
  BY <1>2, <1>3, <1>4, <1>6 DEF Covers

LEMMA NInvInit == Init => NInv
<1> SUFFICES ASSUME Init PROVE NInv
  OBVIOUS
<1>1. IInv /\ Known
  BY InvInit DEF Init, Known
<1>2. ASSUME NEW c \in Reader
      PROVE  Covers(c)
  BY <1>2 DEF Init, Covers, Ended, Unread
<1> QED
  BY <1>1, <1>2 DEF NInv

\* What is known of matches still when rows are added.
LEMMA StillKnown ==
  ASSUME NInv, Grow, \A w \in stored' : stamp'[w] # 0,
         \A c \in Reader :
           \/ known'[c] = {}
           \/ known'[c] \subseteq Matching(query[c]) /\ pc'[c] # "new" /\ SameRows(c)
  PROVE  Known'
<1> SUFFICES ASSUME NEW c \in Reader, known'[c] # {}
             PROVE  pc'[c] # "new" /\ known'[c] \subseteq Matching(query[c])'
  BY DEF Known
<1>1. known'[c] \subseteq Matching(query[c]) /\ pc'[c] # "new" /\ SameRows(c)
  OBVIOUS
<1> QED
  BY <1>1 DEF Matching, SameRows, Grow

\* A step of the readers: it is enough to look at the one that moves.
LEMMA ReaderStep ==
  ASSUME NInv, IInv', NEW c \in Reader, UNCHANGED rows,
         \A d \in Reader \ {c} :
           /\ pc'[d] = pc[d] /\ query'[d] = query[d] /\ page'[d] = page[d] /\ count'[d] = count[d]
           /\ code'[d] = code[d] /\ known'[d] = known[d] /\ read'[d] = read[d],
         \/ known'[c] = {}
         \/ known'[c] \subseteq Matching(query[c]) /\ pc'[c] # "new" /\ SameRows(c),
         Covers(c)'
  PROVE  NInv'
<1>1. Grow /\ \A w \in stored' : stamp'[w] # 0
  BY DEF rows, Grow, NInv, Known
<1>2. \A d \in Reader :
        \/ known'[d] = {}
        \/ known'[d] \subseteq Matching(query[d]) /\ pc'[d] # "new" /\ SameRows(d)
  BY DEF SameRows, NInv, Known
<1>3. Known'
  BY <1>1, <1>2, StillKnown
<1>4. ASSUME NEW d \in Reader
      PROVE  Covers(d)'
  BY <1>1, <1>4, StillCovers
<1> QED
  BY <1>3, <1>4 DEF NInv

\* A step of the rows, or none.
LEMMA RowStep ==
  ASSUME NInv, IInv', UNCHANGED reading, Grow, \A w \in stored' : stamp'[w] # 0
  PROVE  NInv'
<1>1. \A d \in Reader :
        \/ known'[d] = {}
        \/ known'[d] \subseteq Matching(query[d]) /\ pc'[d] # "new" /\ SameRows(d)
  BY DEF reading, SameRows, NInv, Known
<1>2. Known'
  BY <1>1, StillKnown
<1>3. ASSUME NEW d \in Reader
      PROVE  Covers(d)'
  BY <1>3, StillCovers DEF reading
<1> QED
  BY <1>2, <1>3 DEF NInv

LEMMA NInvStep == NInv /\ [Next]_vars => NInv'
<1> SUFFICES ASSUME NInv, [Next]_vars PROVE NInv'
  OBVIOUS
<1>1. IInv'
  BY InvStep DEF NInv
<1>2. ASSUME NEW c \in Reader, Ask(c)
      PROVE  NInv'
  <2>1. known'[c] = {} /\ Covers(c)'
    BY <1>2, AskCovers
  <2>2. UNCHANGED <<rows, page, count, code, known, read>>
    BY <1>2 DEF Ask
  <2>3. \A d \in Reader \ {c} : pc'[d] = pc[d] /\ query'[d] = query[d]
    BY <1>2 DEF Ask, NInv, IInv, TypeOK
  <2> QED
    BY <1>1, <2>1, <2>2, <2>3, ReaderStep
<1>3. ASSUME NEW c \in Reader, AskMore(c)
      PROVE  NInv'
  <2>1. Covers(c)'
    BY <1>1, <1>3, AskMoreCovers
  <2>2. UNCHANGED <<rows, count, known, read>>
    BY <1>3 DEF AskMore
  <2>3. \A d \in Reader \ {c} : pc'[d] = pc[d] /\ query'[d] = query[d] /\ page'[d] = page[d] /\ code'[d] = code[d]
    BY <1>3 DEF AskMore, NInv, IInv, TypeOK
  <2>4. pc'[c] # "new" /\ SameRows(c)
    <3>1. query[c] \in Query
      BY <1>3 DEF AskMore, NInv, IInv, Reads
    <3> QED
      BY <1>3, <3>1 DEF AskMore, SameRows, Query, NInv, IInv, TypeOK
  <2>5. known'[c] = {} \/ known'[c] \subseteq Matching(query[c])
    BY <2>2 DEF NInv, Known
  <2> QED
    BY <1>1, <2>1, <2>2, <2>3, <2>4, <2>5, ReaderStep
<1>4. ASSUME NEW c \in Reader, Refused(c) \/ Fails(c)
      PROVE  NInv'
  <2>1. UNCHANGED <<rows, query, page, count, known, read>>
    BY <1>4 DEF Refused, Fails
  <2>2. /\ pc'[c] = "answered" /\ code'[c] = 500
        /\ \A d \in Reader \ {c} : pc'[d] = pc[d] /\ code'[d] = code[d]
    BY <1>4 DEF Refused, Fails, Answer, NInv, IInv, TypeOK
  <2>3. Covers(c)'
    BY <2>2 DEF Covers, Ended
  <2>4. SameRows(c) /\ (known'[c] = {} \/ known'[c] \subseteq Matching(query[c]))
    BY <2>1 DEF SameRows, NInv, Known
  <2> QED
    BY <1>1, <2>1, <2>2, <2>3, <2>4, ReaderStep
<1>5. ASSUME NEW c \in Reader, Find(c)
      PROVE  NInv'
  <2>1. Covers(c)'
    BY <1>1, <1>5, FindCovers
  <2>2. UNCHANGED <<rows, query, count, code>>
    BY <1>5 DEF Find
  <2>3. \A d \in Reader \ {c} : pc'[d] = pc[d] /\ page'[d] = page[d] /\ known'[d] = known[d] /\ read'[d] = read[d]
    BY <1>5 DEF Find, NInv, IInv, TypeOK
  <2>4. /\ pc'[c] # "new" /\ SameRows(c)
        /\ known'[c] \subseteq Matching(query[c])
    BY <1>5 DEF Find, SameRows, NInv, IInv, TypeOK, Known
  <2> QED
    BY <1>1, <2>1, <2>2, <2>3, <2>4, ReaderStep
<1>6. ASSUME NEW c \in Reader, Count(c)
      PROVE  NInv'
  <2>1. Covers(c)'
    BY <1>1, <1>6, CountCovers
  <2>2. UNCHANGED <<rows, query, page, known, read>>
    BY <1>6 DEF Count
  <2>3. \A d \in Reader \ {c} : pc'[d] = pc[d] /\ count'[d] = count[d] /\ code'[d] = code[d]
    BY <1>6 DEF Count, Answer, NInv, IInv, TypeOK
  <2>4. /\ pc'[c] # "new" /\ SameRows(c)
        /\ known'[c] = {} \/ known'[c] \subseteq Matching(query[c])
    BY <1>6 DEF Count, Answer, SameRows, NInv, IInv, TypeOK, Known
  <2> QED
    BY <1>1, <2>1, <2>2, <2>3, <2>4, ReaderStep
<1>7. ASSUME NEW w \in Row, Save(w) \/ Store(w)
      PROVE  NInv'
  <2>1. Grow /\ (\A v \in stored' : stamp'[v] # 0) /\ UNCHANGED reading
    BY <1>7, TimeAssumption DEF Save, Store, Grow, NInv, IInv, TypeOK, Known
  <2> QED
    BY <1>1, <2>1, RowStep
<1>8. CASE Tick \/ UNCHANGED vars
  <2>1. Grow /\ (\A v \in stored' : stamp'[v] # 0) /\ UNCHANGED reading
    BY <1>8 DEF Tick, vars, rows, reading, Grow, NInv, Known
  <2> QED
    BY <1>1, <2>1, RowStep
<1> QED
  BY <1>2, <1>3, <1>4, <1>5, <1>6, <1>7, <1>8 DEF Next

LEMMA CoverInvariance == Spec => []NInv
BY NInvInit, NInvStep, PTL DEF Spec

-----------------------------------------------------------------------------
(* Theorems.                                                               *)

\* Every variable keeps its type.
THEOREM TypeCorrect == Spec => []TypeOK
<1>1. IInv => TypeOK
  BY DEF IInv
<1> QED
  BY <1>1, Invariance, PTL

\* The count of an answer covers its page, whatever is stored between the two
\* queries (trip.repository.ts 108-115, post.repository.ts 81-88).
THEOREM CountsCoverPages == Spec => []CountCoversPage
<1>1. IInv => CountCoversPage
  BY DEF IInv, Reads, Fits, CountCoversPage
<1> QED
  BY <1>1, Invariance, PTL

\* Whoever reads from the first row on until the count is reached has read every
\* row there was at the start, whatever is stored meanwhile: all but those that
\* share their updatedAt, and if the sort is ASC or DESC (trip.repository.ts 84-115, post.repository.ts 68-88).
THEOREM NobodyMissesARow == Spec => []NothingSkipped
<1>1. NInv => NothingSkipped
  BY DEF NInv, Covers, Unread, NothingSkipped
<1> QED
  BY <1>1, CoverInvariance, PTL
=============================================================================
