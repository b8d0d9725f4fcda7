---- MODULE ListingProofs ----
(***************************************************************************)
(* Theorems about Listings, for any tables, tenants, readers and page      *)
(* sizes: type correctness, and a client that follows has_more to the end  *)
(* misses no row except behind an escalation that was resolved meanwhile;  *)
(* the two halves of a report agree.                                       *)
(***************************************************************************)
EXTENDS Listings, FiniteSetTheorems, TLAPS

----------------------------------------------------------------------------
(* What statements see, as functions of the rows rw *)

Sees(rw, l, t) == {d \in Table(l) : rw[d] # Null /\ rw[d].stored /\ rw[d].tenant = t}

Fits(rw, l, t) == {d \in Sees(rw, l, t) : rw[d].fits}

Ahead(rw, l, t, d) ==
    {e \in Fits(rw, l, t) : IF l = "audit logs" THEN rw[e].at > rw[d].at
                            ELSE rw[e].at < rw[d].at}

LEMMA SameViews ==
    ASSUME NEW l, NEW t
    PROVE  /\ Visible(l, t) = Sees(row, l, t)
           /\ Fitting(l, t) = Fits(row, l, t)
           /\ \A d : Position(l, t, d) = Cardinality(Ahead(row, l, t, d))
  BY DEF Visible, Fitting, Position, Before, Sees, Fits, Ahead

\* A row before d that client c could not know as closed is closed now.
Moved(rw, c, d) ==
    \E e \in Sees(rw, c.list, c.tenant) \ c.closed : ~rw[e].fits /\ rw[e].at < rw[d].at

\* The rows that client c must still be shown.
Owed(rw, c) ==
    {d \in c.start \ c.got : rw[d].fits /\ ~(c.list = "escalations" /\ Moved(rw, c, d))}

\* How far client c has come.
Passed(c) == IF c.pc = "page" THEN c.offset ELSE c.offset + c.limit

\* What client c must still be shown stands at or behind the place it has come to.
ScanOK(rw, c) ==
    c.list \in Lists =>
        /\ c.pc \in {"page", "count", "done"}
        /\ c.start \subseteq Sees(rw, c.list, c.tenant)
        /\ \A e \in c.closed : rw[e] # Null /\ rw[e].stored /\ ~rw[e].fits
        /\ \A d \in Owed(rw, c) : /\ c.pc # "done"
                                  /\ Passed(c) <= Cardinality(Ahead(rw, c.list, c.tenant, d))

ListingInv ==
    /\ ListingTypeOK
    /\ \A v \in Readers : ScanOK(row, reader[v])

----------------------------------------------------------------------------
(* Facts about the views *)

LEMMA ViewsFinite ==
    ASSUME NEW rw, NEW l, NEW t, NEW d
    PROVE  /\ IsFiniteSet(Sees(rw, l, t)) /\ Cardinality(Sees(rw, l, t)) \in Nat
           /\ IsFiniteSet(Fits(rw, l, t)) /\ Cardinality(Fits(rw, l, t)) \in Nat
           /\ IsFiniteSet(Ahead(rw, l, t, d)) /\ Cardinality(Ahead(rw, l, t, d)) \in Nat
           /\ Cardinality(Fits(rw, l, t)) <= Cardinality(Sees(rw, l, t))
  <1>1. /\ Sees(rw, l, t) \subseteq Rows
        /\ Fits(rw, l, t) \subseteq Sees(rw, l, t)
        /\ Ahead(rw, l, t, d) \subseteq Fits(rw, l, t)
    BY DEF Sees, Fits, Ahead, Table, Rows
  <1>2. IsFiniteSet(Sees(rw, l, t))
    BY <1>1, RowsFinite, FS_Subset
  <1>3. IsFiniteSet(Fits(rw, l, t)) /\ Cardinality(Fits(rw, l, t)) <= Cardinality(Sees(rw, l, t))
    BY <1>1, <1>2, FS_Subset
  <1>4. IsFiniteSet(Ahead(rw, l, t, d))
    BY <1>1, <1>3, FS_Subset
  <1> QED
    BY <1>2, <1>3, <1>4, FS_CardinalityType

\* A row of a list stands before its end.
LEMMA AheadIsShorter ==
    ASSUME NEW rw, NEW l, NEW t, NEW d \in Fits(rw, l, t), rw[d].at \in Nat
    PROVE  Cardinality(Ahead(rw, l, t, d)) < Cardinality(Fits(rw, l, t))
  <1>1. Ahead(rw, l, t, d) \subseteq Fits(rw, l, t)
    BY DEF Ahead
  <1>2. d \notin Ahead(rw, l, t, d)
    BY DEF Ahead
  <1>3. /\ IsFiniteSet(Fits(rw, l, t))
        /\ Cardinality(Fits(rw, l, t)) \in Nat
        /\ Cardinality(Ahead(rw, l, t, d)) \in Nat
    BY ViewsFinite
  <1>4. /\ Cardinality(Ahead(rw, l, t, d)) <= Cardinality(Fits(rw, l, t))
        /\ Cardinality(Ahead(rw, l, t, d)) # Cardinality(Fits(rw, l, t))
    BY <1>1, <1>2, <1>3, FS_Subset
  <1> QED
    BY <1>3, <1>4

\* What writers may do: a stored row stays, and is closed for good; an entry
\* is not closed.
RowsGrow(rw, new) ==
    \A d \in Rows : rw[d] # Null /\ rw[d].stored =>
        /\ new[d] # Null /\ new[d].stored
        /\ new[d].tenant = rw[d].tenant /\ new[d].at = rw[d].at
        /\ new[d].fits => rw[d].fits
        /\ d \in Entries => new[d].fits = rw[d].fits

\* The place of a row in a list shrinks only behind a row that is closed now.
LEMMA AheadGrows ==
    ASSUME NEW rw, NEW new, RowsGrow(rw, new), NEW c, c.list \in Lists,
           NEW d \in Sees(rw, c.list, c.tenant),
           \A e \in c.closed : ~rw[e].fits,
           c.list = "escalations" => ~Moved(new, c, d)
    PROVE  Cardinality(Ahead(rw, c.list, c.tenant, d))
             <= Cardinality(Ahead(new, c.list, c.tenant, d))
  <1> DEFINE l == c.list
             t == c.tenant
  <1>1. d \in Rows /\ rw[d] # Null /\ rw[d].stored
    BY DEF Sees, Table, Rows
  <1>2. new[d].at = rw[d].at
    BY <1>1 DEF RowsGrow
  <1>3. ASSUME NEW e \in Ahead(rw, l, t, d)
        PROVE  e \in Ahead(new, l, t, d)
    <2>1. /\ e \in Table(l) /\ e \in Rows
          /\ rw[e] # Null /\ rw[e].stored /\ rw[e].tenant = t /\ rw[e].fits
      BY <1>3 DEF Ahead, Fits, Sees, Table, Rows
    <2>2. /\ e \in Sees(new, l, t)
          /\ new[e].at = rw[e].at
          /\ e \in Entries => new[e].fits
      BY <2>1 DEF RowsGrow, Sees
    <2>3. new[e].fits
      <3>1. CASE l = "audit logs"
        BY <2>1, <2>2, <3>1 DEF Table
      <3>2. CASE l = "escalations"
        <4>1. rw[e].at < rw[d].at
          BY <1>3, <3>2 DEF Ahead
        <4>2. e \notin c.closed
          BY <2>1
        <4> QED
          BY <1>2, <2>2, <3>2, <4>1, <4>2 DEF Moved
      <3> QED
        BY <3>1, <3>2 DEF Lists
    <2> QED
      BY <1>2, <1>3, <2>2, <2>3 DEF Ahead, Fits
  <1>4. Ahead(rw, l, t, d) \subseteq Ahead(new, l, t, d)
    BY <1>3
  <1>5. IsFiniteSet(Ahead(new, l, t, d))
    BY ViewsFinite
  <1> QED
    BY <1>4, <1>5, FS_Subset

\* A client that does nothing while others write stays where it may be.
LEMMA WritersKeepScan ==
    ASSUME NEW rw, NEW new, RowsGrow(rw, new), NEW c, ScanOK(rw, c), c.closed \subseteq Rows,
           \A d \in Rows : rw[d] # Null => rw[d].at \in Nat /\ rw[d].fits \in BOOLEAN,
           c.offset \in Nat, c.limit \in Nat
    PROVE  ScanOK(new, c)
  <1> SUFFICES ASSUME c.list \in Lists PROVE ScanOK(new, c)
    BY DEF ScanOK
  <1>1. /\ c.pc \in {"page", "count", "done"}
        /\ c.start \subseteq Sees(rw, c.list, c.tenant)
        /\ \A e \in c.closed : rw[e] # Null /\ rw[e].stored /\ ~rw[e].fits
        /\ \A d \in Owed(rw, c) : /\ c.pc # "done"
                                  /\ Passed(c) <= Cardinality(Ahead(rw, c.list, c.tenant, d))
    BY DEF ScanOK
  <1>2. \A d \in Sees(rw, c.list, c.tenant) :
           d \in Rows /\ rw[d] # Null /\ rw[d].stored /\ d \in Sees(new, c.list, c.tenant)
    BY DEF Sees, Table, Rows, RowsGrow
  <1>3. \A e \in c.closed : new[e] # Null /\ new[e].stored /\ ~new[e].fits
    BY <1>1 DEF RowsGrow
  <1>4. ASSUME NEW d \in Owed(new, c)
        PROVE  /\ d \in Owed(rw, c) /\ d \in Sees(rw, c.list, c.tenant)
               /\ c.list = "escalations" => ~Moved(new, c, d)
    <2>1. d \in c.start \ c.got /\ new[d].fits /\ d \in Sees(rw, c.list, c.tenant)
      BY <1>1, <1>4 DEF Owed
    <2>2. rw[d].fits /\ new[d].at = rw[d].at
      BY <1>2, <2>1 DEF RowsGrow
    <2>3. ASSUME Moved(rw, c, d) PROVE Moved(new, c, d)
      <3>1. PICK e \in Sees(rw, c.list, c.tenant) \ c.closed :
               ~rw[e].fits /\ rw[e].at < rw[d].at
        BY <2>3 DEF Moved
      <3>2. e \in Sees(new, c.list, c.tenant) /\ ~new[e].fits /\ new[e].at = rw[e].at
        BY <1>2, <3>1 DEF RowsGrow
      <3> QED
        BY <2>2, <3>1, <3>2 DEF Moved
    <2> QED
      BY <1>4, <2>1, <2>2, <2>3 DEF Owed
  <1>5. ASSUME NEW d \in Owed(new, c)
        PROVE  /\ c.pc # "done"
               /\ Passed(c) <= Cardinality(Ahead(new, c.list, c.tenant, d))
    <2>1. /\ c.pc # "done"
          /\ Passed(c) <= Cardinality(Ahead(rw, c.list, c.tenant, d))
      BY <1>1, <1>4
    <2>2. Cardinality(Ahead(rw, c.list, c.tenant, d))
            <= Cardinality(Ahead(new, c.list, c.tenant, d))
      BY <1>1, <1>4, AheadGrows
    <2>3. /\ Cardinality(Ahead(rw, c.list, c.tenant, d)) \in Nat
          /\ Cardinality(Ahead(new, c.list, c.tenant, d)) \in Nat
      BY ViewsFinite
    <2>4. Passed(c) \in Nat
      BY DEF Passed
    <2> QED
      BY <2>1, <2>2, <2>3, <2>4
  <1> QED
    BY <1>1, <1>2, <1>3, <1>5 DEF ScanOK

\* What the type invariant says of rows and readers.
LEMMA Types ==
    ASSUME ListingTypeOK
    PROVE  /\ \A d \in Rows : row[d] # Null => row[d] \in ListedRow
           /\ \A v \in Readers : reader[v] \in ReaderState
  BY DEF ListingTypeOK

LEMMA WriterStep ==
    ASSUME ListingInv, UNCHANGED reader, RowsGrow(row, row'), flushes' \in Nat,
           row' \in [Rows -> ListedRow \cup {Null}]
    PROVE  ListingInv'
  <1>1. ListingTypeOK'
    BY DEF ListingInv, ListingTypeOK
  <1>2. ASSUME NEW v \in Readers PROVE ScanOK(row', reader'[v])
    <2>1. /\ reader[v] \in ReaderState /\ ScanOK(row, reader[v])
          /\ \A d \in Rows : row[d] # Null => row[d] \in ListedRow
      BY Types DEF ListingInv
    <2>2. /\ reader[v].closed \subseteq Rows /\ reader[v].offset \in Nat
          /\ reader[v].limit \in Limits \cup {0}
      BY <2>1 DEF ReaderState
    <2>3. reader[v].limit \in Nat
      BY <2>2, LimitsNat
    <2>4. \A d \in Rows : row[d] # Null => row[d].at \in Nat /\ row[d].fits \in BOOLEAN
      BY <2>1 DEF ListedRow
    <2> QED
      BY <2>1, <2>2, <2>3, <2>4, WritersKeepScan
  <1> QED
    BY <1>1, <1>2 DEF ListingInv

\* A step of reader v to state new; the tables stay.
LEMMA ReaderStep ==
    ASSUME ListingInv, NEW v \in Readers, NEW new \in ReaderState,
           reader' = [reader EXCEPT ![v] = new], UNCHANGED <<row, flushes>>,
           ScanOK(row, new)
    PROVE  ListingInv'
  <1>1. ListingTypeOK'
    BY DEF ListingInv, ListingTypeOK
  <1>2. ASSUME NEW u \in Readers PROVE ScanOK(row', reader'[u])
    <2>1. reader'[u] = IF u = v THEN new ELSE reader[u]
      BY DEF ListingInv, ListingTypeOK
    <2> QED
      BY <2>1 DEF ListingInv
  <1> QED
    BY <1>1, <1>2 DEF ListingInv

----------------------------------------------------------------------------
(* The actions *)

LEMMA FlushInv ==
    ASSUME ListingInv, NEW d \in Rows, NEW t \in Tenants, NEW fits \in BOOLEAN, Flush(d, t, fits)
    PROVE  ListingInv' /\ RowsGrow(row, row')
  <1> DEFINE new == [tenant |-> t, at |-> flushes, stored |-> FALSE, fits |-> fits]
  <1>1. row[d] = Null /\ row' = [row EXCEPT ![d] = new] /\ flushes' = flushes + 1
        /\ UNCHANGED reader
    BY DEF Flush
  <1>2. new \in ListedRow /\ flushes' \in Nat
    BY <1>1 DEF ListedRow, ListingInv, ListingTypeOK
  <1> HIDE DEF new
  <1>3. /\ row' \in [Rows -> ListedRow \cup {Null}]
        /\ \A e \in Rows : row[e] # Null => row'[e] = row[e]
    BY <1>1, <1>2 DEF ListingInv, ListingTypeOK
  <1>4. RowsGrow(row, row')
    BY <1>3 DEF RowsGrow
  <1> QED
    BY <1>1, <1>2, <1>3, <1>4, WriterStep

LEMMA CommitInv ==
    ASSUME ListingInv, NEW d \in Rows, Commit(d)
    PROVE  ListingInv' /\ RowsGrow(row, row')
  <1> DEFINE new == [row[d] EXCEPT !.stored = TRUE]
  <1>1. row[d] # Null /\ ~row[d].stored /\ row' = [row EXCEPT ![d] = new]
        /\ UNCHANGED <<flushes, reader>>
    BY DEF Commit, Open
  <1>2. new \in ListedRow /\ flushes' \in Nat
    BY <1>1 DEF ListedRow, ListingInv, ListingTypeOK
  <1> HIDE DEF new
  <1>3. /\ row' \in [Rows -> ListedRow \cup {Null}]
        /\ \A e \in Rows : e # d => row'[e] = row[e]
    BY <1>1, <1>2 DEF ListingInv, ListingTypeOK
  <1>4. RowsGrow(row, row')
    BY <1>1, <1>3 DEF RowsGrow
  <1> QED
    BY <1>1, <1>2, <1>3, <1>4, WriterStep

LEMMA RollbackInv ==
    ASSUME ListingInv, NEW d \in Rows, Rollback(d)
    PROVE  ListingInv' /\ RowsGrow(row, row')
  <1>1. row[d] # Null /\ ~row[d].stored /\ row' = [row EXCEPT ![d] = Null]
        /\ UNCHANGED <<flushes, reader>>
    BY DEF Rollback, Open
  <1>2. /\ row' \in [Rows -> ListedRow \cup {Null}]
        /\ \A e \in Rows : e # d => row'[e] = row[e]
        /\ flushes' \in Nat
    BY <1>1 DEF ListingInv, ListingTypeOK
  <1>3. RowsGrow(row, row')
    BY <1>1, <1>2 DEF RowsGrow
  <1> QED
    BY <1>1, <1>2, <1>3, WriterStep

LEMMA ResolveInv ==
    ASSUME ListingInv, NEW e \in Escalations, Resolve(e)
    PROVE  ListingInv' /\ RowsGrow(row, row')
  <1> DEFINE new == [row[e] EXCEPT !.fits = FALSE]
  <1>1. /\ row[e] # Null /\ row[e].stored /\ row' = [row EXCEPT ![e] = new]
        /\ UNCHANGED <<flushes, reader>> /\ e \in Rows /\ e \notin Entries
    BY TablesApart DEF Resolve, Rows
  <1>2. row[e] \in ListedRow
    BY <1>1 DEF ListingInv, ListingTypeOK
  <1>3. /\ new \in ListedRow /\ new.stored /\ ~new.fits
        /\ new.tenant = row[e].tenant /\ new.at = row[e].at
    BY <1>1, <1>2 DEF ListedRow
  <1>4. new # Null
    BY <1>3, NullIsNoRow
  <1> HIDE DEF new
  <1>5. /\ row' \in [Rows -> ListedRow \cup {Null}]
        /\ \A d \in Rows : row'[d] = IF d = e THEN new ELSE row[d]
        /\ flushes' \in Nat
    BY <1>1, <1>3 DEF ListingInv, ListingTypeOK
  <1>6. RowsGrow(row, row')
    BY <1>1, <1>3, <1>4, <1>5 DEF RowsGrow
  <1> QED
    BY <1>1, <1>5, <1>6, WriterStep

LEMMA AskInv ==
    ASSUME ListingInv, NEW v \in Readers, NEW list \in Lists, NEW t \in Tenants,
           NEW n \in Limits, Ask(v, list, t, n)
    PROVE  ListingInv'
  <1> DEFINE new == [NoReader EXCEPT !.list = list, !.tenant = t, !.limit = n, !.pc = "page",
                                     !.start = Fitting(list, t),
                                     !.closed = Visible(list, t) \ Fitting(list, t)]
  <1>1. Visible(list, t) \subseteq Rows /\ Fitting(list, t) \subseteq Visible(list, t)
    BY DEF Visible, Fitting, Table, Rows
  <1>2. new \in ReaderState
    BY <1>1 DEF ReaderState, NoReader
  <1>3. /\ new.list = list /\ new.tenant = t /\ new.pc = "page" /\ new.offset = 0
        /\ new.start = Fitting(list, t) /\ new.closed = Visible(list, t) \ Fitting(list, t)
    BY DEF NoReader
  <1>4. reader' = [reader EXCEPT ![v] = new] /\ UNCHANGED <<row, flushes>>
    BY DEF Ask
  <1> HIDE DEF new
  <1>5. new.start \subseteq Sees(row, list, t)
    BY <1>1, <1>3, SameViews
  <1>6. \A e \in new.closed : row[e] # Null /\ row[e].stored /\ ~row[e].fits
    BY <1>3 DEF Visible, Fitting
  <1>7. \A d : Passed(new) <= Cardinality(Ahead(row, list, t, d))
    BY <1>3, ViewsFinite DEF Passed
  <1>8. ScanOK(row, new)
    BY <1>3, <1>5, <1>6, <1>7 DEF ScanOK
  <1> QED
    BY <1>2, <1>4, <1>8, ReaderStep

\* A row that is owed is in the list.
LEMMA OwedFits ==
    ASSUME NEW rw, NEW c, ScanOK(rw, c), c.list \in Lists, NEW d \in Owed(rw, c)
    PROVE  d \in Fits(rw, c.list, c.tenant)
  BY DEF ScanOK, Owed, Fits

LEMMA ReadPageInv ==
    ASSUME ListingInv, NEW v \in Readers, ReadPage(v)
    PROVE  ListingInv'
  <1> DEFINE c == reader[v]
             page == Page(c.list, c.tenant, c.offset, c.limit)
             new == [c EXCEPT !.got = @ \cup page, !.pc = "count"]
  <1>1. c \in ReaderState /\ ScanOK(row, c)
    BY DEF ListingInv, ListingTypeOK
  <1>2. page \subseteq Rows
    BY DEF Page, Fitting, Visible, Table, Rows
  <1>3. new \in ReaderState
    BY <1>1, <1>2 DEF ReaderState
  <1>4. /\ new.list = c.list /\ new.tenant = c.tenant /\ new.start = c.start
        /\ new.closed = c.closed /\ new.offset = c.offset /\ new.limit = c.limit
        /\ new.pc = "count" /\ new.got = c.got \cup page
    BY <1>1 DEF ReaderState
  <1>5. /\ c.pc = "page"
        /\ reader' = [reader EXCEPT ![v] = new] /\ UNCHANGED <<row, flushes>>
    BY <1>1 DEF ReadPage, ReaderState, ListingInv, ListingTypeOK
  <1>6. c.offset \in Nat /\ c.limit \in Limits \cup {0}
    BY <1>1 DEF ReaderState
  <1>7. c.limit \in Nat
    BY <1>6, LimitsNat
  <1>8. page = {d \in Fits(row, c.list, c.tenant) :
                  /\ c.offset <= Cardinality(Ahead(row, c.list, c.tenant, d))
                  /\ Cardinality(Ahead(row, c.list, c.tenant, d)) < c.offset + c.limit}
    BY SameViews DEF Page
  <1> HIDE DEF new, page
  <1>9. ASSUME c.list \in Lists, NEW d \in Owed(row, new)
        PROVE  c.offset + c.limit <= Cardinality(Ahead(row, c.list, c.tenant, d))
    <2>1. d \in Owed(row, c) /\ d \notin page
      BY <1>4, <1>9 DEF Owed, Moved
    <2>2. d \in Fits(row, c.list, c.tenant)
      BY <1>1, <1>9, <2>1, OwedFits
    <2>3. c.offset <= Cardinality(Ahead(row, c.list, c.tenant, d))
      BY <1>1, <1>5, <1>9, <2>1 DEF ScanOK, Passed
    <2>4. Cardinality(Ahead(row, c.list, c.tenant, d)) \in Nat
      BY ViewsFinite
    <2> QED
      BY <1>6, <1>7, <1>8, <2>1, <2>2, <2>3, <2>4
  <1>10. ScanOK(row, new)
    BY <1>1, <1>4, <1>9 DEF ScanOK, Passed
  <1> QED
    BY <1>3, <1>5, <1>10, ReaderStep

LEMMA ReadCountInv ==
    ASSUME ListingInv, NEW v \in Readers, ReadCount(v)
    PROVE  ListingInv'
  <1> DEFINE c == reader[v]
  <1>1. c \in ReaderState /\ ScanOK(row, c)
    BY DEF ListingInv, ListingTypeOK
  <1>2. c.pc = "count" /\ UNCHANGED <<row, flushes>>
    BY DEF ReadCount
  <1>3. c.offset \in Nat /\ c.limit \in Limits \cup {0}
    BY <1>1 DEF ReaderState
  <1>4. c.limit \in Nat
    BY <1>3, LimitsNat
  <1>5. CASE HasMore(c)
    <2> DEFINE new == [c EXCEPT !.pc = "page", !.offset = c.offset + c.limit]
    <2>0. c.offset + c.limit \in Nat
      BY <1>3, <1>4
    <2>1. new \in ReaderState
      BY <1>1, <2>0 DEF ReaderState
    <2>2. /\ new.list = c.list /\ new.tenant = c.tenant /\ new.start = c.start
          /\ new.closed = c.closed /\ new.offset = c.offset + c.limit
          /\ new.pc = "page" /\ new.got = c.got
      BY <1>1 DEF ReaderState
    <2>3. reader' = [reader EXCEPT ![v] = new]
      BY <1>5 DEF ReadCount
    <2> HIDE DEF new
    <2>4. Owed(row, new) = Owed(row, c) /\ Passed(new) = Passed(c)
      BY <1>2, <2>2 DEF Owed, Moved, Passed
    <2>5. ScanOK(row, new)
      BY <1>1, <1>2, <2>2, <2>4 DEF ScanOK
    <2> QED
      BY <1>2, <2>1, <2>3, <2>5, ReaderStep
  <1>6. CASE ~HasMore(c)
    <2> DEFINE new == [c EXCEPT !.pc = "done"]
    <2>1. new \in ReaderState
      BY <1>1 DEF ReaderState
    <2>2. /\ new.list = c.list /\ new.tenant = c.tenant /\ new.start = c.start
          /\ new.closed = c.closed /\ new.pc = "done" /\ new.got = c.got
      BY <1>1 DEF ReaderState
    <2>3. reader' = [reader EXCEPT ![v] = new]
      BY <1>6 DEF ReadCount
    <2> HIDE DEF new
    <2>4. Owed(row, new) = Owed(row, c)
      BY <2>2 DEF Owed, Moved
    <2>5. ASSUME c.list \in Lists, NEW d \in Owed(row, c)
          PROVE  FALSE
      <3>1. /\ d \in Fits(row, c.list, c.tenant)
            /\ c.offset + c.limit <= Cardinality(Ahead(row, c.list, c.tenant, d))
        BY <1>1, <1>2, <2>5, OwedFits DEF ScanOK, Passed
      <3>2. row[d].at \in Nat
        <4>1. d \in Rows /\ row[d] # Null
          BY <3>1 DEF Fits, Sees, Table, Rows
        <4> QED
          BY <4>1, Types DEF ListingInv, ListedRow
      <3>3. Cardinality(Ahead(row, c.list, c.tenant, d)) < Cardinality(Fits(row, c.list, c.tenant))
        BY <3>1, <3>2, AheadIsShorter
      <3>4. Total(c.list, c.tenant) \in {Cardinality(Sees(row, c.list, c.tenant)),
                                         Cardinality(Fits(row, c.list, c.tenant))}
        BY SameViews DEF Total
      <3>5. /\ Cardinality(Ahead(row, c.list, c.tenant, d)) \in Nat
            /\ Cardinality(Fits(row, c.list, c.tenant)) \in Nat
            /\ Cardinality(Sees(row, c.list, c.tenant)) \in Nat
            /\ Cardinality(Fits(row, c.list, c.tenant)) <= Cardinality(Sees(row, c.list, c.tenant))
        BY ViewsFinite
      <3>6. c.offset + c.limit < Total(c.list, c.tenant)
        BY <1>3, <1>4, <3>1, <3>3, <3>4, <3>5
      <3> QED
        BY <1>6, <3>6 DEF HasMore
    <2>6. ScanOK(row, new)
      BY <1>1, <2>2, <2>4, <2>5 DEF ScanOK
    <2> QED
      BY <1>2, <2>1, <2>3, <2>6, ReaderStep
  <1> QED
    BY <1>5, <1>6

LEMMA ReportCountsInv ==
    ASSUME ListingInv, NEW v \in Readers, NEW t \in Tenants, ReportCounts(v, t)
    PROVE  ListingInv'
  <1> DEFINE counted == Fitting("report", t)
             new == [NoReader EXCEPT !.list = "report", !.tenant = t, !.start = counted,
                                     !.pc = IF counted = {} THEN "done" ELSE "entries"]
  <1>1. counted \subseteq Rows
    BY DEF Visible, Fitting, Table, Rows
  <1>2. new \in ReaderState
    BY <1>1 DEF ReaderState, NoReader
  <1>3. new.list \notin Lists
    BY DEF NoReader, Lists
  <1>4. reader' = [reader EXCEPT ![v] = new] /\ UNCHANGED <<row, flushes>>
    BY DEF ReportCounts
  <1> HIDE DEF new
  <1> QED
    BY <1>2, <1>3, <1>4, ReaderStep DEF ScanOK

LEMMA ReportEntriesInv ==
    ASSUME ListingInv, NEW v \in Readers, ReportEntries(v)
    PROVE  ListingInv'
  <1> DEFINE oldest == Oldest(reader[v].tenant)
             new == [reader[v] EXCEPT !.got = oldest, !.pc = "done"]
  <1>1. reader[v] \in ReaderState /\ ScanOK(row, reader[v])
    BY DEF ListingInv, ListingTypeOK
  <1>2. oldest \subseteq Rows
    BY DEF Oldest, Page, Fitting, Visible, Table, Rows
  <1>3. new \in ReaderState
    BY <1>1, <1>2 DEF ReaderState
  <1>4. new.list = reader[v].list
    BY <1>1 DEF ReaderState
  <1>5. /\ reader[v].pc = "entries"
        /\ reader' = [reader EXCEPT ![v] = new] /\ UNCHANGED <<row, flushes>>
    BY <1>1 DEF ReportEntries, ReaderState, ListingInv, ListingTypeOK
  <1> HIDE DEF new
  <1>6. new.list \notin Lists
    BY <1>1, <1>4, <1>5 DEF ScanOK
  <1> QED
    BY <1>3, <1>5, <1>6, ReaderStep DEF ScanOK

LEMMA ListingInvariant == ListingSpec => []ListingInv
  <1>1. ListingInit => ListingInv
    <2> SUFFICES ASSUME ListingInit PROVE ListingInv
      OBVIOUS
    <2>1. NoReader \in ReaderState /\ NoReader.list \notin Lists
      BY NullIsNoList DEF NoReader, ReaderState, Lists
    <2> QED
      BY <2>1 DEF ListingInit, ListingInv, ListingTypeOK, ScanOK
  <1>2. ListingInv /\ [ListingNext]_listingVars => ListingInv'
    <2> SUFFICES ASSUME ListingInv, [ListingNext]_listingVars PROVE ListingInv'
      OBVIOUS
    <2>1. CASE ListingNext
      BY <2>1, FlushInv, CommitInv, RollbackInv, ResolveInv, AskInv, ReadPageInv, ReadCountInv,
         ReportCountsInv, ReportEntriesInv DEF ListingNext
    <2>2. CASE UNCHANGED listingVars
      BY <2>2 DEF listingVars, ListingInv, ListingTypeOK
    <2> QED
      BY <2>1, <2>2
  <1> QED
    BY <1>1, <1>2, PTL DEF ListingSpec

----------------------------------------------------------------------------
(* Reports *)

\* created_at is the time of one flush.
TimesDiffer ==
    \A d \in Rows : row[d] # Null =>
        /\ row[d].at < flushes
        /\ \A e \in Rows \ {d} : row[e] # Null => row[e].at # row[d].at

\* The counts of report c were taken of rows that are still there; its entries
\* are the oldest of no fewer.
ReportOK(rw, c) ==
    c.list = "report" =>
        LET now == Fits(rw, "report", c.tenant)
        IN  /\ c.pc \in {"entries", "done"}
            /\ c.start \subseteq now
            /\ c.pc = "done" =>
                  /\ c.got \subseteq now
                  /\ Cardinality(c.start) > SHADOW_LIMIT => Cardinality(c.got) = SHADOW_LIMIT
                  /\ Cardinality(c.start) <= SHADOW_LIMIT =>
                        /\ Cardinality(c.got) >= Cardinality(c.start)
                        /\ c.start \subseteq c.got \/ Cardinality(now) > SHADOW_LIMIT

ReportInv ==
    /\ TimesDiffer
    /\ \A v \in Readers : ReportOK(row, reader[v])

\* Rows of different times stand in different places.
LEMMA PlacesDiffer ==
    ASSUME NEW rw, NEW t, NEW d \in Fits(rw, "report", t), NEW e \in Fits(rw, "report", t),
           rw[d].at \in Nat, rw[e].at \in Nat, rw[d].at < rw[e].at,
           \A f \in Fits(rw, "report", t) : rw[f].at \in Nat
    PROVE  Cardinality(Ahead(rw, "report", t, d)) < Cardinality(Ahead(rw, "report", t, e))
  <1> DEFINE D == Ahead(rw, "report", t, d)
             E == Ahead(rw, "report", t, e)
  <1>1. D \subseteq E
    BY DEF Ahead
  <1>2. d \in E /\ d \notin D
    BY DEF Ahead
  <1>3. IsFiniteSet(E) /\ Cardinality(D) \in Nat /\ Cardinality(E) \in Nat
    BY ViewsFinite
  <1>4. Cardinality(D) <= Cardinality(E) /\ Cardinality(D) # Cardinality(E)
    BY <1>1, <1>2, <1>3, FS_Subset
  <1> QED
    BY <1>3, <1>4

\* The first n rows of a report are n, or all there are.
LEMMA OldestCount ==
    ASSUME NEW rw, NEW t, NEW n \in Nat,
           \A d \in Fits(rw, "report", t) : rw[d].at \in Nat,
           \A d, e \in Fits(rw, "report", t) : d # e => rw[d].at # rw[e].at
    PROVE  LET all == Fits(rw, "report", t)
               first == {d \in all : Cardinality(Ahead(rw, "report", t, d)) < n}
           IN  Cardinality(first) = IF Cardinality(all) <= n THEN Cardinality(all) ELSE n
  <1> DEFINE all == Fits(rw, "report", t)
             place(d) == Cardinality(Ahead(rw, "report", t, d))
             first == {d \in all : place(d) < n}
             size == Cardinality(all)
             m == IF size <= n THEN size ELSE n
             F == [d \in all |-> place(d)]
             G == [d \in first |-> place(d)]
  <1>1. IsFiniteSet(all) /\ size \in Nat /\ m \in Nat
    BY ViewsFinite
  <1>2. \A d \in all : place(d) \in Nat /\ place(d) < size
    BY ViewsFinite, AheadIsShorter
  <1>3. \A d, e \in all : d # e => place(d) # place(e)
    <2> SUFFICES ASSUME NEW d \in all, NEW e \in all, d # e PROVE place(d) # place(e)
      OBVIOUS
    <2>1. rw[d].at < rw[e].at \/ rw[e].at < rw[d].at
      OBVIOUS
    <2>2. CASE rw[d].at < rw[e].at
      BY <2>2, <1>2, PlacesDiffer
    <2>3. CASE rw[e].at < rw[d].at
      BY <2>3, <1>2, PlacesDiffer
    <2> QED
      BY <2>1, <2>2, <2>3
  <1>4. /\ IsFiniteSet(0..(size - 1)) /\ Cardinality(0..(size - 1)) = size
        /\ IsFiniteSet(0..(m - 1)) /\ Cardinality(0..(m - 1)) = m
    <2>1. ASSUME NEW k \in Nat
          PROVE  IsFiniteSet(0..(k - 1)) /\ Cardinality(0..(k - 1)) = k
      <3>1. /\ IsFiniteSet(0..(k - 1))
            /\ Cardinality(0..(k - 1)) = IF 0 > k - 1 THEN 0 ELSE (k - 1) - 0 + 1
        BY FS_Interval
      <3> QED
        BY <3>1
    <2> QED
      BY <1>1, <2>1
  <1> HIDE DEF place, all, size
  <1>5. F \in Injection(all, 0..(size - 1))
    BY <1>1, <1>2, <1>3 DEF Injection, IsInjective
  <1>6. F \in Surjection(all, 0..(size - 1))
    BY <1>4, <1>5, FS_Injection DEF size
  <1>7. G \in Injection(first, 0..(m - 1))
    BY <1>1, <1>2, <1>3 DEF Injection, IsInjective
  <1>8. ASSUME NEW i \in 0..(m - 1) PROVE \E d \in first : G[d] = i
    <2>1. i \in 0..(size - 1) /\ i < n
      BY <1>1, <1>8
    <2>2. PICK d \in all : F[d] = i
      BY <1>6, <2>1 DEF Surjection
    <2> QED
      BY <2>1, <2>2
  <1>9. G \in Surjection(first, 0..(m - 1))
    BY <1>7, <1>8 DEF Surjection, Injection
  <1>10. Cardinality(first) = m
    BY <1>4, <1>7, <1>9, FS_Injection
  <1> QED
    BY <1>10 DEF all, place, size

\* What is in a report's view stays there.
LEMMA ReportGrows ==
    ASSUME NEW rw, NEW new, RowsGrow(rw, new), NEW c, ReportOK(rw, c)
    PROVE  ReportOK(new, c)
  <1>1. Fits(rw, "report", c.tenant) \subseteq Fits(new, "report", c.tenant)
    BY DEF Fits, Sees, Table, RowsGrow, Rows
  <1>2. /\ Cardinality(Fits(rw, "report", c.tenant)) <= Cardinality(Fits(new, "report", c.tenant))
        /\ Cardinality(Fits(rw, "report", c.tenant)) \in Nat
        /\ Cardinality(Fits(new, "report", c.tenant)) \in Nat
    BY <1>1, ViewsFinite, FS_Subset
  <1>3. Cardinality(Fits(rw, "report", c.tenant)) > SHADOW_LIMIT =>
           Cardinality(Fits(new, "report", c.tenant)) > SHADOW_LIMIT
    BY <1>2, ShadowLimitNat
  <1> QED
    BY <1>1, <1>3 DEF ReportOK

LEMMA ReportStep ==
    ASSUME ListingInv, ListingInv', ReportInv, NEW v \in Readers,
           UNCHANGED <<row, flushes>>, \A u \in Readers \ {v} : reader'[u] = reader[u],
           ReportOK(row, reader'[v])
    PROVE  ReportInv'
  <1>1. TimesDiffer'
    BY DEF ReportInv, TimesDiffer
  <1>2. ASSUME NEW u \in Readers PROVE ReportOK(row, reader'[u])
    BY DEF ReportInv
  <1> QED
    BY <1>1, <1>2 DEF ReportInv

LEMMA WriterReportStep ==
    ASSUME ListingInv, ReportInv, UNCHANGED reader, RowsGrow(row, row'), TimesDiffer'
    PROVE  ReportInv'
  BY ReportGrows DEF ReportInv

LEMMA FlushReport ==
    ASSUME ListingInv, ReportInv, NEW d \in Rows, NEW t \in Tenants, NEW fits \in BOOLEAN,
           Flush(d, t, fits)
    PROVE  ReportInv'
  <1>1. row \in [Rows -> ListedRow \cup {Null}] /\ flushes \in Nat
    BY DEF ListingInv, ListingTypeOK
  <1>2. /\ row' = [row EXCEPT ![d] = [tenant |-> t, at |-> flushes, stored |-> FALSE, fits |-> fits]]
        /\ flushes' = flushes + 1 /\ UNCHANGED reader
    BY DEF Flush
  <1>3. row'[d].at = flushes /\ \A e \in Rows \ {d} : row'[e] = row[e]
    BY <1>1, <1>2
  <1>4. \A e \in Rows : row[e] # Null => row[e].at \in Nat /\ row[e].at < flushes
    BY <1>1 DEF ReportInv, TimesDiffer, ListedRow
  <1>5. TimesDiffer'
    BY <1>1, <1>2, <1>3, <1>4 DEF ReportInv, TimesDiffer
  <1> QED
    BY <1>2, <1>5, FlushInv, WriterReportStep

\* Commit, Rollback, Resolve: no row gets another time.
LEMMA TimesStay ==
    ASSUME TimesDiffer, UNCHANGED flushes,
           \A e \in Rows : row'[e] # Null => row[e] # Null /\ row'[e].at = row[e].at
    PROVE  TimesDiffer'
  BY DEF TimesDiffer

LEMMA CommitReport ==
    ASSUME ListingInv, ReportInv, NEW d \in Rows, Commit(d)
    PROVE  ReportInv'
  <1>1. /\ row \in [Rows -> ListedRow \cup {Null}] /\ row[d] # Null
        /\ row' = [row EXCEPT ![d].stored = TRUE] /\ UNCHANGED <<flushes, reader>>
    BY DEF ListingInv, ListingTypeOK, Commit, Open
  <1>2. \A e \in Rows : row'[e] # Null => row[e] # Null /\ row'[e].at = row[e].at
    BY <1>1 DEF ListedRow
  <1> QED
    BY <1>1, <1>2, TimesStay, CommitInv, WriterReportStep DEF ReportInv

LEMMA RollbackReport ==
    ASSUME ListingInv, ReportInv, NEW d \in Rows, Rollback(d)
    PROVE  ReportInv'
  <1>1. /\ row \in [Rows -> ListedRow \cup {Null}]
        /\ row' = [row EXCEPT ![d] = Null] /\ UNCHANGED <<flushes, reader>>
    BY DEF ListingInv, ListingTypeOK, Rollback
  <1>2. \A e \in Rows : row'[e] # Null => row[e] # Null /\ row'[e].at = row[e].at
    BY <1>1
  <1> QED
    BY <1>1, <1>2, TimesStay, RollbackInv, WriterReportStep DEF ReportInv

LEMMA ResolveReport ==
    ASSUME ListingInv, ReportInv, NEW d \in Escalations, Resolve(d)
    PROVE  ReportInv'
  <1>1. /\ row \in [Rows -> ListedRow \cup {Null}] /\ row[d] # Null /\ d \in Rows
        /\ row' = [row EXCEPT ![d].fits = FALSE] /\ UNCHANGED <<flushes, reader>>
    BY DEF ListingInv, ListingTypeOK, Resolve, Rows
  <1>2. \A e \in Rows : row'[e] # Null => row[e] # Null /\ row'[e].at = row[e].at
    BY <1>1 DEF ListedRow
  <1> QED
    BY <1>1, <1>2, TimesStay, ResolveInv, WriterReportStep DEF ReportInv

\* A client that pages has no report.
LEMMA PagesReport ==
    ASSUME ListingInv, ReportInv, NEW v \in Readers,
           \/ \E list \in Lists, t \in Tenants, n \in Limits : Ask(v, list, t, n)
           \/ ReadPage(v)
           \/ ReadCount(v)
    PROVE  ReportInv'
  <1>1. reader \in [Readers -> ReaderState] /\ ReportOK(row, reader[v])
    BY DEF ListingInv, ListingTypeOK, ReportInv
  <1>2. CASE \E list \in Lists, t \in Tenants, n \in Limits : Ask(v, list, t, n)
    <2>1. PICK list \in Lists, t \in Tenants, n \in Limits : Ask(v, list, t, n)
      BY <1>2
    <2>2. reader'[v].list = list /\ UNCHANGED <<row, flushes>>
          /\ \A u \in Readers \ {v} : reader'[u] = reader[u]
      BY <1>1, <2>1 DEF Ask, NoReader
    <2>3. ReportOK(row, reader'[v])
      BY <2>2 DEF ReportOK, Lists
    <2> QED
      BY <2>1, <2>2, <2>3, AskInv, ReportStep
  <1>3. CASE ReadPage(v)
    <2>1. reader[v].list # "report"
      BY <1>1, <1>3 DEF ReadPage, ReportOK
    <2>2. reader'[v].list = reader[v].list /\ UNCHANGED <<row, flushes>>
          /\ \A u \in Readers \ {v} : reader'[u] = reader[u]
      BY <1>1, <1>3 DEF ReadPage, ReaderState
    <2>3. ReportOK(row, reader'[v])
      BY <2>1, <2>2 DEF ReportOK
    <2> QED
      BY <1>3, <2>2, <2>3, ReadPageInv, ReportStep
  <1>4. CASE ReadCount(v)
    <2>1. reader[v].list # "report"
      BY <1>1, <1>4 DEF ReadCount, ReportOK
    <2>2. reader'[v].list = reader[v].list /\ UNCHANGED <<row, flushes>>
          /\ \A u \in Readers \ {v} : reader'[u] = reader[u]
      BY <1>1, <1>4 DEF ReadCount, ReaderState
    <2>3. ReportOK(row, reader'[v])
      BY <2>1, <2>2 DEF ReportOK
    <2> QED
      BY <1>4, <2>2, <2>3, ReadCountInv, ReportStep
  <1> QED
    BY <1>2, <1>3, <1>4

LEMMA ReportCountsReport ==
    ASSUME ListingInv, ReportInv, NEW v \in Readers, NEW t \in Tenants, ReportCounts(v, t)
    PROVE  ReportInv'
  <1> DEFINE counted == Fits(row, "report", t)
             new == reader'[v]
  <1>1. reader \in [Readers -> ReaderState] /\ Fitting("report", t) = counted
    BY SameViews DEF ListingInv, ListingTypeOK
  <1>2. /\ new = [NoReader EXCEPT !.list = "report", !.tenant = t, !.start = counted,
                                  !.pc = IF counted = {} THEN "done" ELSE "entries"]
        /\ UNCHANGED <<row, flushes>>
        /\ \A u \in Readers \ {v} : reader'[u] = reader[u]
    BY <1>1 DEF ReportCounts
  <1>3. /\ new.tenant = t /\ new.start = counted /\ new.got = {}
        /\ new.pc = IF counted = {} THEN "done" ELSE "entries"
    BY <1>2 DEF NoReader
  <1>4. ReportOK(row, new)
    <2>1. CASE counted = {}
      BY <1>3, <2>1, FS_EmptySet, ShadowLimitNat DEF ReportOK
    <2>2. CASE counted # {}
      BY <1>3, <2>2 DEF ReportOK
    <2> QED
      BY <2>1, <2>2
  <1> QED
    BY <1>2, <1>4, ReportCountsInv, ReportStep

LEMMA ReportEntriesReport ==
    ASSUME ListingInv, ReportInv, NEW v \in Readers, ReportEntries(v)
    PROVE  ReportInv'
  <1> DEFINE c == reader[v]
             new == reader'[v]
             now == Fits(row, "report", c.tenant)
             first == {d \in now : Cardinality(Ahead(row, "report", c.tenant, d)) < SHADOW_LIMIT}
  <1>1. /\ reader \in [Readers -> ReaderState] /\ ReportOK(row, c)
        /\ row \in [Rows -> ListedRow \cup {Null}]
    BY DEF ListingInv, ListingTypeOK, ReportInv
  <1>2. Oldest(c.tenant) = first
    <2>1. \A d : Cardinality(Ahead(row, "report", c.tenant, d)) \in Nat
      BY ViewsFinite
    <2> QED
      BY <2>1, SameViews, ShadowLimitNat DEF Oldest, Page
  <1>3. /\ new.list = c.list /\ new.tenant = c.tenant /\ new.start = c.start
        /\ new.got = first /\ new.pc = "done"
        /\ c.pc = "entries"
        /\ UNCHANGED <<row, flushes>>
        /\ \A u \in Readers \ {v} : reader'[u] = reader[u]
    BY <1>1, <1>2 DEF ReportEntries, ReaderState
  <1>4. \A d \in now : row[d].at \in Nat /\ d \in Rows /\ row[d] # Null
    BY <1>1 DEF Fits, Sees, Table, Rows, ListedRow
  <1>5. \A d, e \in now : d # e => row[d].at # row[e].at
    BY <1>4 DEF ReportInv, TimesDiffer
  <1>6. Cardinality(first) = IF Cardinality(now) <= SHADOW_LIMIT THEN Cardinality(now)
                             ELSE SHADOW_LIMIT
    BY <1>4, <1>5, ShadowLimitNat, OldestCount
  <1>7. IsFiniteSet(now) /\ Cardinality(now) \in Nat
    BY ViewsFinite
  <1>8. c.list = "report" => Cardinality(c.start) <= Cardinality(now)
                             /\ Cardinality(c.start) \in Nat
    BY <1>1, <1>7, FS_Subset, FS_CardinalityType DEF ReportOK
  <1>9. first \subseteq now
    OBVIOUS
  <1>10. Cardinality(now) <= SHADOW_LIMIT => first = now
    BY <1>6, <1>7, <1>9, FS_Subset
  <1> HIDE DEF first, now
  <1>11. ASSUME c.list = "report" PROVE ReportOK(row, new)
    <2>1. c.start \subseteq now
      BY <1>1, <1>11 DEF ReportOK, now
    <2>2. /\ Cardinality(c.start) > SHADOW_LIMIT => Cardinality(first) = SHADOW_LIMIT
          /\ Cardinality(c.start) <= SHADOW_LIMIT => Cardinality(first) >= Cardinality(c.start)
      BY <1>6, <1>7, <1>8, <1>11, ShadowLimitNat
    <2>3. c.start \subseteq first \/ Cardinality(now) > SHADOW_LIMIT
      BY <1>7, <1>10, <2>1, ShadowLimitNat
    <2> QED
      BY <1>3, <1>9, <2>1, <2>2, <2>3 DEF ReportOK, now
  <1>12. ReportOK(row, new)
    BY <1>3, <1>11 DEF ReportOK
  <1> QED
    BY <1>3, <1>12, ReportEntriesInv, ReportStep

LEMMA ReportInvariant == ListingSpec => []ReportInv
  <1>1. ListingInit => ReportInv
    <2> SUFFICES ASSUME ListingInit PROVE ReportInv
      OBVIOUS
    <2>1. TimesDiffer
      BY DEF ListingInit, TimesDiffer
    <2>2. NoReader.list # "report"
      BY NullIsNoList DEF NoReader
    <2>3. \A v \in Readers : reader[v].list # "report"
      BY <2>2 DEF ListingInit
    <2> QED
      BY <2>1, <2>3 DEF ReportInv, ReportOK
  <1>2. ListingInv /\ ReportInv /\ [ListingNext]_listingVars => ReportInv'
    <2> SUFFICES ASSUME ListingInv, ReportInv, [ListingNext]_listingVars PROVE ReportInv'
      OBVIOUS
    <2>1. CASE ListingNext
      BY <2>1, FlushReport, CommitReport, RollbackReport, ResolveReport, PagesReport,
         ReportCountsReport, ReportEntriesReport DEF ListingNext
    <2>2. CASE UNCHANGED listingVars
      BY <2>2 DEF listingVars, ReportInv, TimesDiffer
    <2> QED
      BY <2>1, <2>2
  <1> QED
    BY <1>1, <1>2, ListingInvariant, PTL DEF ListingSpec

----------------------------------------------------------------------------
(* Theorems *)

(***************************************************************************)
(* The rows and the clients keep their types.                              *)
(***************************************************************************)
THEOREM ListingTypeCorrect == ListingSpec => []ListingTypeOK
  <1>1. ListingInv => ListingTypeOK
    BY DEF ListingInv
  <1> QED
    BY <1>1, ListingInvariant, PTL

(***************************************************************************)
(* A client that pages to the end of a list has seen every row that was    *)
(* there when it began and still belongs there, unless an escalation that  *)
(* stood before it was resolved meanwhile (database/base_repo.py and the   *)
(* has_more of governor/service.py).                                       *)
(***************************************************************************)
THEOREM ListsMissOnlyShiftedHolds == ListingSpec => []ListsMissOnlyShifted
  <1>1. ListingInv => ListsMissOnlyShifted
    <2> SUFFICES ASSUME ListingInv, NEW v \in Readers, reader[v].pc = "done",
                        reader[v].list \in Lists, NEW d \in reader[v].start \ reader[v].got,
                        row[d].fits
                 PROVE  reader[v].list = "escalations" /\ Shifted(v, d)
      BY DEF ListsMissOnlyShifted
    <2>1. d \notin Owed(row, reader[v])
      BY DEF ListingInv, ScanOK
    <2>2. reader[v].list = "escalations" /\ Moved(row, reader[v], d)
      BY <2>1 DEF Owed
    <2>3. Visible(reader[v].list, reader[v].tenant) = Sees(row, reader[v].list, reader[v].tenant)
      BY SameViews
    <2> QED
      BY <2>2, <2>3 DEF Moved, Shifted
  <1> QED
    BY <1>1, ListingInvariant, PTL

(***************************************************************************)
(* The counts and the entries of a shadow report agree as far as two       *)
(* snapshots can: a truncated report is full, any other has no fewer       *)
(* entries than it counts and leaves one out only if the log has outgrown  *)
(* the limit (reports/shadow_report.py).                                   *)
(***************************************************************************)
THEOREM ReportCoversHolds == ListingSpec => []ReportCovers
  <1>1. ListingInv /\ ReportInv => ReportCovers
    <2> SUFFICES ASSUME ListingInv, ReportInv, NEW v \in Readers,
                        reader[v].pc = "done", reader[v].list = "report"
                 PROVE  LET c == reader[v]
                            now == Fitting("report", c.tenant)
                        IN  /\ c.got \subseteq now
                            /\ Truncated(v) => Cardinality(c.got) = SHADOW_LIMIT
                            /\ ~Truncated(v) =>
                                  /\ Cardinality(c.got) >= Cardinality(c.start)
                                  /\ c.start \subseteq c.got \/ Cardinality(now) > SHADOW_LIMIT
      BY DEF ReportCovers
    <2>1. ReportOK(row, reader[v])
      BY DEF ReportInv
    <2>2. reader[v].start \subseteq Fits(row, "report", reader[v].tenant)
      BY <2>1 DEF ReportOK
    <2>3. Cardinality(reader[v].start) \in Nat
      BY <2>2, ViewsFinite, FS_Subset, FS_CardinalityType
    <2>4. ~Truncated(v) => Cardinality(reader[v].start) <= SHADOW_LIMIT
      BY <2>3, ShadowLimitNat DEF Truncated
    <2> QED
      BY <2>1, <2>4, SameViews DEF ReportOK, Truncated
  <1> QED
    BY <1>1, ListingInvariant, ReportInvariant, PTL

====
