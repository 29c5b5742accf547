--------------------------- MODULE PlatformProofs ---------------------------
(***************************************************************************)
(* Theorems about Listings, TenantStats and DirectProviders, for any       *)
(* clients, tables, keys and requests, and about MCPlatform, where they    *)
(* stand next to Migrations and AdminAccess.                               *)
(***************************************************************************)
EXTENDS MCPlatform, AdminAccessProofs, MigrationsProofs, FiniteSetTheorems, TLAPS

-----------------------------------------------------------------------------
(* Lists: the rows before a row, and the page a row is on.                 *)

\* A set of naturals has a least element.
LEMMA LeastNatural ==
  ASSUME NEW T, T \subseteq Nat, T # {}
  PROVE  \E x \in T : \A y \in T : x <= y
<1> DEFINE R == OpToRel(<, Nat)
<1>1. PICK x \in T : \A y \in T : ~(<<y, x>> \in R)
  <2>1. IsWellFoundedOn(R, Nat)
    BY NatLessThanWellFounded
  <2> HIDE DEF R
  <2>2. QED
    BY <2>1, WFMin
<1>2. ASSUME NEW y \in T PROVE x <= y
  <2>1. <<y, x>> \in Nat \X Nat
    OBVIOUS
  <2>2. y < x => <<y, x>> \in R
    BY <2>1 DEF OpToRel
  <2>3. x \in Nat /\ y \in Nat
    OBVIOUS
  <2> HIDE DEF R
  <2>4. QED
    BY <1>1, <2>2, <2>3
<1>3. QED
  BY <1>2

\* A finite set of naturals has a greatest element.
LEMMA GreatestNatural ==
  ASSUME NEW N \in Nat, NEW T, T \subseteq 1..N, T # {}
  PROVE  \E x \in T : \A y \in T : y <= x
<1> DEFINE D == {N - x : x \in T}
<1>1. D \subseteq Nat /\ D # {}
  <2>1. \A x \in T : x \in 1..N /\ N - x \in Nat
    OBVIOUS
  <2>2. QED
    BY <2>1
<1>2. PICK d \in D : \A e \in D : d <= e
  <2> HIDE DEF D
  <2>1. QED
    BY <1>1, LeastNatural
<1>3. PICK x \in T : d = N - x
  BY <1>2
<1>4. ASSUME NEW y \in T PROVE y <= x
  <2>1. N - x <= N - y
    BY <1>2, <1>3
  <2>2. QED
    BY <2>1
<1>5. QED
  BY <1>4

\* The rows of a list are finitely many.
LEMMA MatchingFinite ==
  ASSUME ListTypeOK, NEW w
  PROVE  /\ Matching(w) \subseteq 1..Len(listed) /\ Len(listed) \in Nat
         /\ Matching(w) \subseteq 1..MaxRows
         /\ IsFiniteSet(Matching(w)) /\ Cardinality(Matching(w)) \in Nat
         /\ \A n : IsFiniteSet(Newer(w, n)) /\ Cardinality(Newer(w, n)) \in Nat
<1>1. /\ Matching(w) \subseteq DOMAIN listed /\ DOMAIN listed = 1..Len(listed)
      /\ Len(listed) \in Nat /\ Len(listed) <= MaxRows /\ MaxRows \in Nat
  BY ListingsAssumption DEF ListTypeOK, Matching
<1>2. IsFiniteSet(Matching(w))
  <2>1. IsFiniteSet(1..Len(listed))
    BY <1>1, FS_Interval
  <2>2. Matching(w) \in SUBSET (1..Len(listed))
    BY <1>1
  <2>3. QED
    BY <2>1, <2>2, FS_Subset
<1>3. \A n : Newer(w, n) \in SUBSET Matching(w)
  BY DEF Newer
<1>4. \A n : IsFiniteSet(Newer(w, n))
  BY <1>2, <1>3, FS_Subset
<1>5. QED
  BY <1>1, <1>2, <1>4, FS_CardinalityType

\* A row that the pages so far have not reached is on a later one.
LEMMA PageNotEmpty ==
  ASSUME ListTypeOK, NEW w, Offset(w) \in Nat, PageSize(w) \in Nat \ {0},
         NEW n \in Matching(w), Cardinality(Newer(w, n)) >= Offset(w)
  PROVE  PageRows(w) # {}
<1> DEFINE S == {m \in Matching(w) : Cardinality(Newer(w, m)) >= Offset(w)}
<1>1. /\ Matching(w) \subseteq 1..Len(listed) /\ Len(listed) \in Nat
      /\ \A m : IsFiniteSet(Newer(w, m)) /\ Cardinality(Newer(w, m)) \in Nat
  BY MatchingFinite
<1>2. PICK m \in S : \A k \in S : k <= m
  <2>1. S \subseteq 1..Len(listed) /\ n \in S
    BY <1>1
  <2> HIDE DEF S
  <2>2. QED
    BY <1>1, <2>1, GreatestNatural
<1>3. m \in Matching(w) /\ m \in Nat /\ Cardinality(Newer(w, m)) >= Offset(w)
  BY <1>1
<1>4. Cardinality(Newer(w, m)) <= Offset(w)
  <2>1. CASE Newer(w, m) = {}
    BY <2>1, FS_EmptySet
  <2>2. CASE Newer(w, m) # {}
    <3>1. Newer(w, m) \subseteq Nat
      BY <1>1 DEF Newer
    <3>2. PICK k \in Newer(w, m) : \A j \in Newer(w, m) : k <= j
      BY <2>2, <3>1, LeastNatural
    <3>3. k \in Matching(w) /\ k > m /\ k \in Nat
      BY <3>1 DEF Newer
    <3>4. Cardinality(Newer(w, k)) < Offset(w)
      BY <1>1, <1>2, <1>3, <3>3
    <3>5. Newer(w, m) = Newer(w, k) \cup {k}
      <4>1. \A j \in Matching(w) : j > m <=> j > k \/ j = k
        BY <1>1, <1>3, <3>2, <3>3 DEF Newer
      <4>2. QED
        BY <3>3, <4>1 DEF Newer
    <3>6. k \notin Newer(w, k)
      BY <3>3 DEF Newer
    <3>7. Cardinality(Newer(w, m)) = Cardinality(Newer(w, k)) + 1
      BY <1>1, <3>5, <3>6, FS_AddElement
    <3>8. QED
      BY <1>1, <3>4, <3>7
  <2>3. QED
    BY <2>1, <2>2
<1>5. Cardinality(Newer(w, m)) \in Offset(w)..Offset(w) + PageSize(w) - 1
  BY <1>1, <1>3, <1>4
<1>6. QED
  BY <1>3, <1>5 DEF PageRows

\* The page and the limit of a client are numbers.
LEMMA WalkNats ==
  ASSUME NEW w \in Walk
  PROVE  /\ w.limit \in Nat /\ w.page \in Nat \ {0}
         /\ w.page \in 1..MaxPages + 1 /\ MaxPages \in Nat
<1>1. w.limit \in PageLimits \cup {0} /\ w.page \in 1..MaxPages + 1
  BY DEF Walk
<1>2. PageLimits \subseteq Nat /\ MaxPages \in Nat
  BY ListingsAssumption
<1>3. w.limit \in Nat
  <2>1. 0 \in Nat
    OBVIOUS
  <2>2. QED
    BY <1>1, <1>2, <2>1, Zenon
<1>4. w.page \in Nat \ {0}
  <2>1. \A n \in 1..MaxPages + 1 : n \in Nat \ {0}
    BY <1>2
  <2>2. QED
    BY <1>1, <2>1
<1>5. QED
  BY <1>1, <1>2, <1>3, <1>4

\* The limit is at least one row.
LEMMA PageSizeNat ==
  ASSUME NEW w, w.limit \in Nat
  PROVE  PageSize(w) \in Nat \ {0}
BY ListingsAssumption DEF PageSize

\* Where a page starts.
LEMMA OffsetNat ==
  ASSUME NEW w, w.page \in Nat \ {0}, w.limit \in Nat
  PROVE  Offset(w) \in Nat
<1>1. PageSize(w) \in Nat /\ w.page - 1 \in Nat
  BY PageSizeNat
<1>2. \A a, b \in Nat : a * b \in Nat
  OBVIOUS
<1>3. QED
  BY <1>1, <1>2 DEF Offset

\* The next page starts where this one ends.
LEMMA OffsetNext ==
  ASSUME NEW w, NEW q, w.page \in Nat \ {0}, w.limit \in Nat,
         q.page = w.page + 1, q.limit = w.limit
  PROVE  Offset(q) = Offset(w) + PageSize(w)
<1>1. PageSize(w) \in Nat /\ PageSize(q) = PageSize(w)
  BY PageSizeNat DEF PageSize
<1>2. \A a \in Nat : (w.page + 1 - 1) * a = (w.page - 1) * a + a
  OBVIOUS
<1>3. QED
  BY <1>1, <1>2 DEF Offset

-----------------------------------------------------------------------------
(* What a client has seen so far.                                          *)

\* The page is still to be read.
Ahead(w) == w.pc = "rows" \/ (w.pc = "count" /\ list = "listVerifications")

\* Rows that were there at the start are shown, or after the pages read.
NoneSkipped(w) ==
  w.filter = Unset /\ list # "getAllTenants" =>
    /\ w.there \subseteq Matching(w)
    /\ Ahead(w) => \A n \in w.there \ w.shown :
                     Cardinality(Newer(w, n)) >= Offset(w)
    /\ w.pc = "count" /\ list # "listVerifications" =>
         /\ \A n \in w.there \ w.shown :
              Cardinality(Newer(w, n)) >= Offset(w) + PageSize(w)
         /\ ~w.more => w.there \subseteq w.shown
    /\ w.pc = "done" => w.there \subseteq w.shown

\* Accounts stay: what was shown is there, and was counted at the end.
AccountsCounted(w) ==
  OfAccounts =>
    /\ w.filter = Unset
    /\ w.shown \subseteq Matching(w)
    /\ w.pc = "done" => w.total >= Cardinality(w.shown)

WalkFits(w) ==
  /\ w.pc = "idle" => w.shown = {} /\ w.there = {} /\ w.filter = Unset /\ w.page = 1
  /\ w.pc = "count" /\ list # "listVerifications" => w.page <= MaxPages
  /\ NoneSkipped(w)
  /\ AccountsCounted(w)

ListInv ==
  /\ ListTypeOK
  /\ list # "getAllTenants" => \A n \in DOMAIN listed : listed[n].status # "gone"
  /\ \A r \in Readers : WalkFits(walk[r])

LEMMA ListInit_Inv == ListInit => ListInv
<1> SUFFICES ASSUME ListInit PROVE ListInv
  OBVIOUS
<1> USE ListingsAssumption
<1>1. NoWalk \in Walk
  BY DEF NoWalk, Walk
<1>2. ListTypeOK
  BY <1>1 DEF ListInit, ListTypeOK, ListNames
<1>3. WalkFits(NoWalk)
  BY DEF NoWalk, WalkFits, NoneSkipped, Ahead, AccountsCounted
<1>4. QED
  BY <1>2, <1>3 DEF ListInit, ListInv

\* A client goes on: its walk is replaced.
LEMMA Walked ==
  ASSUME ListInv, NEW r \in Readers, NEW q \in Walk, WalkFits(q),
         walk' = [walk EXCEPT ![r] = q], UNCHANGED <<list, listed>>
  PROVE  ListInv'
<1>1. /\ walk' \in [Readers -> Walk] /\ walk'[r] = q
      /\ \A b \in Readers : b # r => walk'[b] = walk[b]
  BY DEF ListInv, ListTypeOK
<1>2. ASSUME NEW w, WalkFits(w) PROVE WalkFits(w)'
  <2>1. /\ Matching(w)' = Matching(w) /\ PageSize(w)' = PageSize(w)
        /\ OfAccounts' = OfAccounts /\ Ahead(w)' = Ahead(w)
    BY DEF Matching, PageSize, OfAccounts, Ahead
  <2>2. Offset(w)' = Offset(w) /\ \A n : Newer(w, n)' = Newer(w, n)
    BY <2>1 DEF Offset, Newer
  <2>3. QED
    BY <1>2, <2>1, <2>2 DEF WalkFits, NoneSkipped, AccountsCounted
<1>3. QED
  BY <1>1, <1>2 DEF ListInv, ListTypeOK

\* The rows of a list are those of an owner with a status.
LEMMA SameRows ==
  ASSUME NEW w, NEW q, q.owner = w.owner, q.filter = w.filter
  PROVE  Matching(q) = Matching(w) /\ \A n : Newer(q, n) = Newer(w, n)
<1>1. Matching(q) = Matching(w)
  BY DEF Matching
<1>2. QED
  BY <1>1 DEF Newer

LEMMA BeginWalk_Inv ==
  ASSUME ListInv, NEW r \in Readers, BeginWalk(r)
  PROVE  ListInv'
<1>1. PICK c \in Customers, f \in {"open", "closed", Unset}, n \in PageLimits :
        LET w == [walk[r] EXCEPT !.owner = c, !.filter = f, !.limit = n,
                                 !.pc = FirstQuery]
        IN  /\ OfAccounts => f = Unset
            /\ walk' = [walk EXCEPT ![r] = [w EXCEPT !.there = Matching(w)]]
  BY DEF BeginWalk
<1> DEFINE w == [walk[r] EXCEPT !.owner = c, !.filter = f, !.limit = n, !.pc = FirstQuery]
           q == [w EXCEPT !.there = Matching(w)]
<1>2. /\ walk[r] \in Walk /\ WalkFits(walk[r]) /\ walk[r].pc = "idle"
      /\ UNCHANGED <<list, listed>>
  BY DEF ListInv, ListTypeOK, BeginWalk
<1>3. /\ w \in Walk /\ w.pc = FirstQuery /\ w.filter = f /\ w.owner = c
      /\ w.page = 1 /\ w.shown = {} /\ w.limit = n
  BY <1>2 DEF Walk, FirstQuery, WalkFits
<1>4. /\ Matching(w) \subseteq 1..MaxRows
      /\ \A m : Cardinality(Newer(w, m)) \in Nat
  BY MatchingFinite DEF ListInv
<1>5. walk' = [walk EXCEPT ![r] = q] /\ (OfAccounts => f = Unset)
  BY <1>1
<1> HIDE DEF w
<1>6. /\ q \in Walk /\ q.pc = FirstQuery /\ q.filter = f /\ q.owner = w.owner
      /\ q.page = 1 /\ q.shown = {} /\ q.there = Matching(w) /\ q.limit = n
  BY <1>3, <1>4 DEF Walk
<1> HIDE DEF q
<1>7. Matching(q) = Matching(w) /\ \A m : Newer(q, m) = Newer(w, m)
  BY <1>3, <1>6, SameRows
<1>8. Offset(q) = 0
  <2>1. PageSize(q) \in Nat /\ \A a \in Nat : (1 - 1) * a = 0
    BY <1>6, PageSizeNat, ListingsAssumption
  <2>2. QED
    BY <1>6, <2>1 DEF Offset
<1>9. NoneSkipped(q) /\ AccountsCounted(q)
  BY <1>4, <1>5, <1>6, <1>7, <1>8 DEF NoneSkipped, AccountsCounted, FirstQuery
<1>10. WalkFits(q)
  BY <1>6, <1>9 DEF WalkFits, FirstQuery
<1>11. QED
  BY <1>2, <1>5, <1>6, <1>10, Walked

\* What the rows of a page leave to be shown.
LEMMA RowsRead ==
  ASSUME ListInv, NEW w \in Walk, WalkFits(w), w.pc = "rows",
         w.filter = Unset, list # "getAllTenants"
  PROVE  /\ \A n \in w.there \ (w.shown \cup PageRows(w)) :
              Cardinality(Newer(w, n)) >= Offset(w) + PageSize(w)
         /\ PageRows(w) = {} => w.there \subseteq w.shown
<1>1. /\ \A n : Cardinality(Newer(w, n)) \in Nat
      /\ ListTypeOK
  BY MatchingFinite DEF ListInv
<1>2. w.limit \in Nat /\ w.page \in Nat \ {0}
  BY WalkNats
<1>3. Offset(w) \in Nat /\ PageSize(w) \in Nat \ {0}
  BY <1>2, OffsetNat, PageSizeNat
<1>4. ASSUME NEW n \in w.there \ w.shown
      PROVE  n \in Matching(w) /\ Cardinality(Newer(w, n)) >= Offset(w)
  BY DEF WalkFits, NoneSkipped, Ahead
<1>5. ASSUME NEW n \in w.there \ (w.shown \cup PageRows(w))
      PROVE  Cardinality(Newer(w, n)) >= Offset(w) + PageSize(w)
  BY <1>1, <1>3, <1>4 DEF PageRows
<1>6. PageRows(w) = {} => w.there \subseteq w.shown
  BY <1>1, <1>3, <1>4, PageNotEmpty
<1>7. QED
  BY <1>5, <1>6

LEMMA ReadRows_Inv ==
  ASSUME ListInv, NEW r \in Readers, ReadRows(r)
  PROVE  ListInv'
<1>1. PICK w \in Walk : w = walk[r] /\ WalkFits(w)
  BY DEF ListInv, ListTypeOK
<1> DEFINE rows == PageRows(w)
           read == [w EXCEPT !.shown = @ \cup rows, !.more = rows # {}]
           q == IF list = "listVerifications" THEN NextPage(read)
                ELSE [read EXCEPT !.pc = "count"]
<1>2. /\ w.pc = "rows" /\ w.page <= MaxPages /\ UNCHANGED <<list, listed>>
      /\ walk' = [walk EXCEPT ![r] = q]
  BY <1>1 DEF ReadRows
<1>3. rows \subseteq Matching(w) /\ Matching(w) \subseteq 1..MaxRows
  BY MatchingFinite DEF ListInv, PageRows
<1>4. /\ w.limit \in Nat /\ w.page \in Nat \ {0}
      /\ w.page \in 1..MaxPages + 1 /\ MaxPages \in Nat
  BY WalkNats
<1>5. w.filter = Unset /\ list # "getAllTenants" =>
        /\ \A n \in w.there \ (w.shown \cup rows) :
             Cardinality(Newer(w, n)) >= Offset(w) + PageSize(w)
        /\ rows = {} => w.there \subseteq w.shown
  BY <1>1, <1>2, RowsRead
<1> HIDE DEF rows
<1>6. /\ q \in Walk
      /\ q.owner = w.owner /\ q.filter = w.filter /\ q.limit = w.limit
      /\ q.there = w.there /\ q.shown = w.shown \cup rows /\ q.more = (rows # {})
      /\ q.total = w.total
      /\ list # "listVerifications" => q.pc = "count" /\ q.page = w.page
      /\ list = "listVerifications" /\ rows # {} => q.pc = "count" /\ q.page = w.page + 1
      /\ list = "listVerifications" /\ rows = {} => q.pc = "done"
  <2>1. /\ read \in Walk /\ read.owner = w.owner /\ read.filter = w.filter
        /\ read.limit = w.limit /\ read.there = w.there
        /\ read.shown = w.shown \cup rows /\ read.more = (rows # {})
        /\ read.page = w.page /\ read.total = w.total
    BY <1>3 DEF Walk
  <2> HIDE DEF read
  <2>2. w.page + 1 \in 1..MaxPages + 1
    BY <1>2, <1>4
  <2>3. QED
    BY <2>1, <2>2 DEF Walk, NextPage, FirstQuery
<1> HIDE DEF q
<1>7. /\ Matching(q) = Matching(w) /\ (\A n : Newer(q, n) = Newer(w, n))
      /\ PageSize(q) = PageSize(w)
  BY <1>6, SameRows DEF PageSize
<1>8. q.page = w.page => Offset(q) = Offset(w)
  BY <1>7 DEF Offset
<1>9. q.page = w.page + 1 => Offset(q) = Offset(w) + PageSize(w)
  BY <1>4, <1>6, OffsetNext
<1>10. NoneSkipped(q)
  <2>1. SUFFICES ASSUME q.filter = Unset, list # "getAllTenants"
                 PROVE  NoneSkipped(q)
    BY DEF NoneSkipped
  <2>2. q.there \subseteq Matching(q)
    BY <1>1, <1>6, <1>7, <2>1 DEF WalkFits, NoneSkipped
  <2>3. CASE list = "listVerifications"
    BY <1>5, <1>6, <1>7, <1>9, <2>1, <2>2, <2>3 DEF NoneSkipped, Ahead
  <2>4. CASE list # "listVerifications"
    BY <1>5, <1>6, <1>7, <1>8, <2>1, <2>2, <2>4 DEF NoneSkipped, Ahead
  <2>5. QED
    BY <2>3, <2>4
<1>11. AccountsCounted(q)
  BY <1>1, <1>2, <1>3, <1>6, <1>7 DEF WalkFits, AccountsCounted, OfAccounts
<1>12. WalkFits(q)
  BY <1>2, <1>6, <1>10, <1>11 DEF WalkFits
<1>13. QED
  BY <1>1, <1>2, <1>6, <1>12, Walked

LEMMA ReadCount_Inv ==
  ASSUME ListInv, NEW r \in Readers, ReadCount(r)
  PROVE  ListInv'
<1>1. PICK w \in Walk : w = walk[r] /\ WalkFits(w)
  BY DEF ListInv, ListTypeOK
<1> DEFINE counted == [w EXCEPT !.total = Total(w)]
           q == IF list = "listVerifications" THEN [counted EXCEPT !.pc = "rows"]
                ELSE NextPage(counted)
<1>2. /\ w.pc = "count" /\ UNCHANGED <<list, listed>>
      /\ walk' = [walk EXCEPT ![r] = q]
  BY <1>1 DEF ReadCount
<1>3. /\ IsFiniteSet(Matching(w)) /\ Total(w) \in Nat
      /\ list # "listVerifications" => Total(w) = Cardinality(Matching(w))
  BY MatchingFinite DEF ListInv, Total
<1>4. /\ w.limit \in Nat /\ w.page \in Nat \ {0}
      /\ w.page \in 1..MaxPages + 1 /\ MaxPages \in Nat
  BY WalkNats
<1>5. /\ q \in Walk
      /\ q.owner = w.owner /\ q.filter = w.filter /\ q.limit = w.limit
      /\ q.there = w.there /\ q.shown = w.shown /\ q.total = Total(w)
      /\ list = "listVerifications" => q.pc = "rows" /\ q.page = w.page
      /\ list # "listVerifications" /\ w.more => q.pc = "rows" /\ q.page = w.page + 1
      /\ list # "listVerifications" /\ ~w.more => q.pc = "done"
  <2>1. /\ counted \in Walk /\ counted.owner = w.owner /\ counted.filter = w.filter
        /\ counted.limit = w.limit /\ counted.there = w.there /\ counted.shown = w.shown
        /\ counted.page = w.page /\ counted.total = Total(w) /\ counted.more = w.more
    BY <1>3 DEF Walk
  <2> HIDE DEF counted
  <2>2. list # "listVerifications" => w.page + 1 \in 1..MaxPages + 1
    BY <1>1, <1>2, <1>4 DEF WalkFits
  <2>3. QED
    BY <2>1, <2>2 DEF Walk, NextPage, FirstQuery
<1> HIDE DEF q
<1>6. /\ Matching(q) = Matching(w) /\ (\A n : Newer(q, n) = Newer(w, n))
      /\ PageSize(q) = PageSize(w)
  BY <1>5, SameRows DEF PageSize
<1>7. q.page = w.page => Offset(q) = Offset(w)
  BY <1>6 DEF Offset
<1>8. q.page = w.page + 1 => Offset(q) = Offset(w) + PageSize(w)
  BY <1>4, <1>5, OffsetNext
<1>9. NoneSkipped(q)
  <2>1. CASE list = "listVerifications"
    BY <1>1, <1>2, <1>5, <1>6, <1>7, <2>1 DEF WalkFits, NoneSkipped, Ahead
  <2>2. CASE list # "listVerifications"
    BY <1>1, <1>2, <1>5, <1>6, <1>8, <2>2 DEF WalkFits, NoneSkipped, Ahead
  <2>3. QED
    BY <2>1, <2>2
<1>10. AccountsCounted(q)
  <2>1. SUFFICES ASSUME OfAccounts PROVE AccountsCounted(q)
    BY DEF AccountsCounted
  <2>2. w.filter = Unset /\ w.shown \in SUBSET Matching(w) /\ list # "listVerifications"
    BY <1>1, <1>2, <2>1 DEF WalkFits, AccountsCounted, OfAccounts
  <2>3. Cardinality(w.shown) <= Cardinality(Matching(w)) /\ Cardinality(w.shown) \in Nat
    BY <1>3, <2>2, FS_Subset, FS_CardinalityType
  <2>4. QED
    BY <1>3, <1>5, <1>6, <2>2, <2>3 DEF AccountsCounted
<1>11. WalkFits(q)
  BY <1>5, <1>9, <1>10 DEF WalkFits
<1>12. QED
  BY <1>1, <1>2, <1>5, <1>11, Walked

\* The table changes and clients stay where they are: rows that matched a
\* list without a filter still do, unless tenants are deleted.
LEMMA TableStep_Inv ==
  ASSUME ListInv, AddRow \/ ChangeStatus \/ DeleteRow
  PROVE  ListInv'
<1> USE ListingsAssumption
<1>1. ListTypeOK /\ UNCHANGED <<list, walk>>
  BY DEF ListInv, AddRow, ChangeStatus, DeleteRow
<1>2. /\ listed' \in Seq(ListedRow) /\ Len(listed') <= MaxRows
      /\ DOMAIN listed \subseteq DOMAIN listed'
      /\ \A n \in DOMAIN listed : listed'[n].owner = listed[n].owner
      /\ list # "getAllTenants" =>
           \A n \in DOMAIN listed' :
             \/ n \notin DOMAIN listed /\ listed'[n].status = "open"
             \/ /\ n \in DOMAIN listed
                /\ listed'[n].status \in {listed[n].status, "closed"}
  <2>1. CASE AddRow
    BY <1>1, <2>1 DEF AddRow, ListTypeOK, ListedRow
  <2>2. ASSUME NEW n \in DOMAIN listed, NEW s \in {"closed", "gone"},
               listed' = [listed EXCEPT ![n].status = s]
        PROVE  /\ listed' \in Seq(ListedRow) /\ Len(listed') <= MaxRows
               /\ DOMAIN listed' = DOMAIN listed
               /\ \A m \in DOMAIN listed :
                    /\ listed'[m].owner = listed[m].owner
                    /\ listed'[m].status \in {listed[m].status, s}
    <3>1. /\ listed \in Seq(ListedRow) /\ Len(listed) <= MaxRows
          /\ listed[n] \in ListedRow
      BY <1>1 DEF ListTypeOK
    <3> DEFINE changed == [listed[n] EXCEPT !.status = s]
    <3>2. changed \in ListedRow /\ changed.owner = listed[n].owner /\ changed.status = s
      BY <3>1 DEF ListedRow
    <3> HIDE DEF changed
    <3>3. listed' = [listed EXCEPT ![n] = changed]
      BY <2>2 DEF changed
    <3>4. QED
      BY <3>1, <3>2, <3>3
  <2>3. CASE ChangeStatus \/ DeleteRow
    BY <2>2, <2>3 DEF ChangeStatus, DeleteRow
  <2>4. QED
    BY <2>1, <2>3
<1>3. ListTypeOK'
  BY <1>1, <1>2 DEF ListTypeOK
<1>4. list # "getAllTenants" => \A n \in DOMAIN listed' : listed'[n].status # "gone"
  BY <1>2 DEF ListInv
<1>5. ASSUME NEW w, w.filter = Unset, list # "getAllTenants"
      PROVE  /\ Matching(w) \subseteq Matching(w)'
             /\ \A n : /\ Cardinality(Newer(w, n)) <= Cardinality(Newer(w, n)')
                      /\ Cardinality(Newer(w, n)) \in Nat
                      /\ Cardinality(Newer(w, n)') \in Nat
  <2>1. Matching(w) \subseteq Matching(w)'
    BY <1>1, <1>2, <1>4, <1>5 DEF Matching
  <2>2. \A n : Newer(w, n) \in SUBSET (Newer(w, n)')
    BY <2>1 DEF Newer
  <2>3. \A n : IsFiniteSet(Newer(w, n)')
    <3>1. /\ Matching(w)' \subseteq 1..Len(listed') /\ Len(listed') \in Nat
          /\ \A n : Newer(w, n)' \subseteq Matching(w)'
      BY <1>2 DEF Matching, Newer
    <3>2. IsFiniteSet(1..Len(listed'))
      BY <3>1, FS_Interval
    <3>3. \A n : Newer(w, n)' \in SUBSET (1..Len(listed'))
      BY <3>1
    <3>4. QED
      BY <3>2, <3>3, FS_Subset
  <2>4. QED
    BY <2>1, <2>2, <2>3, FS_Subset, FS_CardinalityType
<1>6. ASSUME NEW w \in Walk, WalkFits(w) PROVE WalkFits(w)'
  <2>1. /\ PageSize(w)' = PageSize(w) /\ Offset(w)' = Offset(w)
        /\ OfAccounts' = OfAccounts /\ Ahead(w)' = Ahead(w)
    BY <1>1 DEF PageSize, Offset, OfAccounts, Ahead
  <2>2. Offset(w) \in Nat /\ PageSize(w) \in Nat
    <3>1. w.limit \in Nat /\ w.page \in Nat \ {0}
      BY WalkNats
    <3>2. QED
      BY <3>1, OffsetNat, PageSizeNat
  <2>3. NoneSkipped(w)'
    BY <1>1, <1>5, <1>6, <2>1, <2>2 DEF WalkFits, NoneSkipped
  <2>4. AccountsCounted(w)'
    BY <1>1, <1>5, <1>6, <2>1 DEF WalkFits, AccountsCounted, OfAccounts
  <2>5. QED
    BY <1>1, <1>6, <2>3, <2>4 DEF WalkFits
<1>7. \A r \in Readers : WalkFits(walk[r])'
  <2>1. SUFFICES ASSUME NEW r \in Readers, NEW w \in Walk, w = walk[r], w = walk'[r]
                 PROVE  WalkFits(w)'
    BY <1>1 DEF ListTypeOK
  <2>2. QED
    BY <1>6, <2>1 DEF ListInv
<1>8. QED
  BY <1>1, <1>3, <1>4, <1>7 DEF ListInv

LEMMA ListStutter_Inv == ASSUME ListInv, UNCHANGED listVars PROVE ListInv'
BY DEF listVars, ListInv, ListTypeOK, WalkFits, NoneSkipped, AccountsCounted,
   Ahead, Matching, Newer, Offset, PageSize, OfAccounts

LEMMA ListInvariant == ListSpec => []ListInv
<1>1. ListInv /\ [ListNext]_listVars => ListInv'
  BY BeginWalk_Inv, ReadRows_Inv, ReadCount_Inv, TableStep_Inv, ListStutter_Inv
  DEF ListNext
<1>2. QED
  BY <1>1, ListInit_Inv, PTL DEF ListSpec

(* The table and what a client holds have their types.                     *)
THEOREM ListTypeCorrect == ListSpec => []ListTypeOK
<1>1. ListInv => ListTypeOK
  BY DEF ListInv
<1>2. QED
  BY <1>1, ListInvariant, PTL

(* A walk through a list without a filter shows every row that was there   *)
(* at its start, whatever the page size and however many are added.        *)
THEOREM NoneMissed == ListSpec => []NothingIsMissed
<1>1. ListInv => NothingIsMissed
  BY DEF ListInv, WalkFits, NoneSkipped, NothingIsMissed
<1>2. QED
  BY <1>1, ListInvariant, PTL

(* The number of users covers what the pages have shown.                   *)
THEOREM TotalCovers == ListSpec => []TotalCoversShown
<1>1. ListInv => TotalCoversShown
  BY DEF ListInv, WalkFits, AccountsCounted, TotalCoversShown
<1>2. QED
  BY <1>1, ListInvariant, PTL

-----------------------------------------------------------------------------
(* Overviews.                                                              *)

(* Every account was seeded or belongs to a verification stored before,    *)
(* and those under way still fit.                                          *)
AccountsFit == accounts + completing <= SampleAccounts + stored

(* What a request has counted so far fits the tables.                      *)
CountedKeys(o) ==
  LET rec == overview[o]
  IN  /\ rec.pc = "idle" =>
           rec.apiKeyCount = Uncounted /\ rec.activeApiKeyCount = Uncounted
      /\ rec.pc = "keys" /\ rec.apiKeyCount # Uncounted =>
           /\ rec.activeApiKeyCount = Uncounted
           /\ KeysWith({"active"}) <= rec.apiKeyCount \/ o \in keyMade
      /\ rec.pc = "keys" /\ rec.activeApiKeyCount # Uncounted =>
           rec.activeApiKeyCount <= KeysWith({"active", "revoked"})
      /\ rec.pc \notin {"idle", "keys"} =>
           /\ rec.apiKeyCount # Uncounted /\ rec.activeApiKeyCount # Uncounted
           /\ rec.activeApiKeyCount <= rec.apiKeyCount \/ o \in keyMade

CountedRows(o) ==
  LET rec == overview[o]
  IN  /\ rec.pc = "verifications" =>
           rec.accountCount # Uncounted /\ rec.accountCount <= stored + SampleAccounts
      /\ rec.pc = "done" =>
           /\ rec.accountCount # Uncounted /\ rec.totalVerifications # Uncounted
           /\ rec.accountCount <= rec.totalVerifications + SampleAccounts

StatsInv ==
  /\ StatsTypeOK
  /\ AccountsFit
  /\ \A o \in Overviews : CountedKeys(o) /\ CountedRows(o)

-----------------------------------------------------------------------------
(* Counting keys.                                                          *)

LEMMA KeysWithNat == ASSUME NEW set PROVE KeysWith(set) \in Nat
<1>1. IsFiniteSet({k \in StatKeys : keyStatus[k] \in set})
  BY FS_Subset, StatsAssumption
<1>2. QED
  BY <1>1, FS_CardinalityType DEF KeysWith

LEMMA ActiveAreKeys == KeysWith({"active"}) <= KeysWith({"active", "revoked"})
<1>1. IsFiniteSet({k \in StatKeys : keyStatus[k] \in {"active", "revoked"}})
  BY FS_Subset, StatsAssumption
<1>2. {k \in StatKeys : keyStatus[k] \in {"active"}}
        \subseteq {k \in StatKeys : keyStatus[k] \in {"active", "revoked"}}
  OBVIOUS
<1>3. QED
  BY <1>1, <1>2, FS_Subset DEF KeysWith

(* Fewer keys have a status of the set before than after.                  *)
LEMMA KeysGrow ==
  ASSUME NEW set, NEW old, NEW new,
         \A k \in StatKeys : old[k] \in set => new[k] \in set
  PROVE  Cardinality({k \in StatKeys : old[k] \in set})
           <= Cardinality({k \in StatKeys : new[k] \in set})
<1>1. IsFiniteSet({k \in StatKeys : new[k] \in set})
  BY FS_Subset, StatsAssumption
<1>2. {k \in StatKeys : old[k] \in set} \subseteq {k \in StatKeys : new[k] \in set}
  OBVIOUS
<1>3. QED
  BY <1>1, <1>2, FS_Subset

-----------------------------------------------------------------------------
(* The invariant.                                                          *)

LEMMA StatsInit_Inv == StatsInit => StatsInv
<1> SUFFICES ASSUME StatsInit PROVE StatsInv
  OBVIOUS
<1>1. NoOverview \in Overview
  BY DEF NoOverview, Overview, Count
<1>2. StatsTypeOK /\ AccountsFit
  BY <1>1, StatsAssumption DEF StatsInit, StatsTypeOK, AccountsFit
<1>3. \A o \in Overviews : CountedKeys(o) /\ CountedRows(o)
  BY DEF StatsInit, NoOverview, CountedKeys, CountedRows
<1>4. QED
  BY <1>2, <1>3 DEF StatsInv

(* A request that goes on with a record that fits.                         *)
LEMMA Counted_Inv ==
  ASSUME StatsInv, NEW o \in Overviews, NEW rec \in Overview, Counted(o, rec),
         CountedKeys(o)', CountedRows(o)'
  PROVE  StatsInv'
<1>1. \A b \in Overviews : b # o => overview'[b] = overview[b]
  BY DEF Counted, StatsInv, StatsTypeOK
<1>2. StatsTypeOK' /\ AccountsFit'
  BY DEF Counted, StatsInv, StatsTypeOK, AccountsFit
<1>3. \A set : KeysWith(set)' = KeysWith(set)
  BY DEF Counted, KeysWith
<1>4. \A b \in Overviews : b # o => CountedKeys(b)' /\ CountedRows(b)'
  BY <1>1, <1>3 DEF Counted, StatsInv, CountedKeys, CountedRows
<1>5. QED
  BY <1>2, <1>4 DEF StatsInv

LEMMA CountStep_Inv ==
  ASSUME StatsInv, NEW o \in Overviews,
         \/ BeginOverview(o) \/ CountKeys(o) \/ CountActiveKeys(o)
         \/ CountAccounts(o) \/ CountVerifications(o)
  PROVE  StatsInv'
<1> DEFINE rec == overview[o]
           all == KeysWith({"active", "revoked"})
           act == KeysWith({"active"})
<1>1. /\ rec \in Overview /\ CountedKeys(o) /\ CountedRows(o)
  BY DEF StatsInv, StatsTypeOK
<1>2. /\ all \in Nat /\ act \in Nat /\ act <= all
      /\ all \in Count /\ act \in Count
      /\ all # Uncounted /\ act # Uncounted
  BY KeysWithNat, ActiveAreKeys, StatsAssumption DEF Count
<1>3. /\ stored \in Nat /\ accounts \in Nat /\ completing \in Nat
      /\ accounts <= stored + SampleAccounts
      /\ stored # Uncounted /\ accounts # Uncounted
      /\ SampleAccounts \in Nat
  BY StatsAssumption DEF StatsInv, StatsTypeOK, AccountsFit
<1>4. ASSUME NEW new \in Overview, Counted(o, new)
      PROVE  overview'[o] = new /\ UNCHANGED <<stored, keyMade>>
             /\ KeysWith({"active", "revoked"})' = all /\ KeysWith({"active"})' = act
  BY <1>4 DEF Counted, StatsInv, StatsTypeOK, KeysWith
<1> HIDE DEF all, act
<1>5. CASE BeginOverview(o)
  <2> DEFINE new == [rec EXCEPT !.pc = "keys"]
  <2>1. new \in Overview /\ Counted(o, new) /\ rec.pc = "idle"
    BY <1>1, <1>5 DEF BeginOverview, Overview
  <2>2. CountedKeys(o)' /\ CountedRows(o)'
    BY <1>1, <1>4, <2>1 DEF CountedKeys, CountedRows, Overview, all, act
  <2>3. QED
    BY <2>1, <2>2, Counted_Inv
<1>6. CASE CountKeys(o)
  <2> DEFINE mid == [rec EXCEPT !.apiKeyCount = all]
             new == AfterKeyCount(mid)
  <2>1. Counted(o, new) /\ rec.pc = "keys" /\ rec.apiKeyCount = Uncounted
    BY <1>6 DEF CountKeys, all
  <2>2. mid \in Overview /\ mid.pc = "keys" /\ mid.apiKeyCount = all
        /\ mid.activeApiKeyCount = rec.activeApiKeyCount
    BY <1>1, <1>2, <2>1 DEF Overview
  <2>3. CASE rec.activeApiKeyCount = Uncounted
    <3>1. new = mid
      BY <2>2, <2>3 DEF AfterKeyCount
    <3>2. CountedKeys(o)' /\ CountedRows(o)'
      BY <1>1, <1>2, <1>4, <2>1, <2>2, <2>3, <3>1 DEF CountedKeys, CountedRows, all, act
    <3>3. QED
      BY <2>1, <2>2, <3>1, <3>2, Counted_Inv
  <2>4. CASE rec.activeApiKeyCount # Uncounted
    <3>1. new = [mid EXCEPT !.pc = "accounts"]
      BY <1>2, <2>2, <2>4 DEF AfterKeyCount, Follows
    <3>2. new \in Overview /\ new.pc = "accounts" /\ new.apiKeyCount = all
          /\ new.activeApiKeyCount = rec.activeApiKeyCount
      BY <2>2, <3>1 DEF Overview
    <3>3. rec.activeApiKeyCount <= all
      BY <1>1, <2>1, <2>4 DEF CountedKeys, all
    <3>4. CountedKeys(o)' /\ CountedRows(o)'
      BY <1>2, <1>4, <2>1, <2>4, <3>2, <3>3 DEF CountedKeys, CountedRows
    <3>5. QED
      BY <2>1, <3>2, <3>4, Counted_Inv
  <2>5. QED
    BY <2>3, <2>4
<1>7. CASE CountActiveKeys(o)
  <2> DEFINE mid == [rec EXCEPT !.activeApiKeyCount = act]
             new == AfterKeyCount(mid)
  <2>1. Counted(o, new) /\ rec.pc = "keys" /\ rec.activeApiKeyCount = Uncounted
    BY <1>7 DEF CountActiveKeys, act
  <2>2. mid \in Overview /\ mid.pc = "keys" /\ mid.activeApiKeyCount = act
        /\ mid.apiKeyCount = rec.apiKeyCount
    BY <1>1, <1>2, <2>1 DEF Overview
  <2>3. CASE rec.apiKeyCount = Uncounted
    <3>1. new = mid
      BY <2>2, <2>3 DEF AfterKeyCount
    <3>2. CountedKeys(o)' /\ CountedRows(o)'
      BY <1>1, <1>2, <1>4, <2>1, <2>2, <2>3, <3>1 DEF CountedKeys, CountedRows, all, act
    <3>3. QED
      BY <2>1, <2>2, <3>1, <3>2, Counted_Inv
  <2>4. CASE rec.apiKeyCount # Uncounted
    <3>1. new = [mid EXCEPT !.pc = "accounts"]
      BY <1>2, <2>2, <2>4 DEF AfterKeyCount, Follows
    <3>2. new \in Overview /\ new.pc = "accounts" /\ new.activeApiKeyCount = act
          /\ new.apiKeyCount = rec.apiKeyCount
      BY <2>2, <3>1 DEF Overview
    <3>3. act <= rec.apiKeyCount \/ o \in keyMade
      BY <1>1, <2>1, <2>4 DEF CountedKeys, act
    <3>4. CountedKeys(o)' /\ CountedRows(o)'
      BY <1>2, <1>4, <2>1, <2>4, <3>2, <3>3 DEF CountedKeys, CountedRows
    <3>5. QED
      BY <2>1, <3>2, <3>4, Counted_Inv
  <2>5. QED
    BY <2>3, <2>4
<1>8. CASE CountAccounts(o)
  <2> DEFINE new == [rec EXCEPT !.accountCount = accounts, !.pc = "verifications"]
  <2>1. new \in Overview /\ Counted(o, new) /\ rec.pc = "accounts"
    BY <1>1, <1>3, <1>8 DEF CountAccounts, Follows, Overview, Count
  <2>2. /\ new.pc = "verifications" /\ new.accountCount = accounts
        /\ new.apiKeyCount = rec.apiKeyCount
        /\ new.activeApiKeyCount = rec.activeApiKeyCount
    BY <1>1 DEF Overview
  <2>3. CountedKeys(o)' /\ CountedRows(o)'
    BY <1>1, <1>3, <1>4, <2>1, <2>2 DEF CountedKeys, CountedRows
  <2>4. QED
    BY <2>1, <2>3, Counted_Inv
<1>9. CASE CountVerifications(o)
  <2> DEFINE new == [rec EXCEPT !.totalVerifications = stored, !.pc = "done"]
  <2>1. new \in Overview /\ Counted(o, new) /\ rec.pc = "verifications"
    BY <1>1, <1>3, <1>9 DEF CountVerifications, Follows, Overview, Count
  <2>2. /\ new.pc = "done" /\ new.totalVerifications = stored
        /\ new.accountCount = rec.accountCount
        /\ new.apiKeyCount = rec.apiKeyCount
        /\ new.activeApiKeyCount = rec.activeApiKeyCount
    BY <1>1 DEF Overview
  <2>3. CountedKeys(o)' /\ CountedRows(o)'
    BY <1>1, <1>3, <1>4, <2>1, <2>2 DEF CountedKeys, CountedRows
  <2>4. QED
    BY <2>1, <2>3, Counted_Inv
<1>10. QED
  BY <1>5, <1>6, <1>7, <1>8, <1>9

(* A key is made: the requests that may have counted half are marked.      *)
LEMMA MakeKey_Inv == ASSUME StatsInv, MakeKey PROVE StatsInv'
<1>1. StatsTypeOK' /\ AccountsFit'
  BY DEF MakeKey, StatsInv, StatsTypeOK, AccountsFit
<1>2. \A k \in StatKeys : keyStatus[k] \in {"active", "revoked"}
                            => keyStatus'[k] \in {"active", "revoked"}
  BY DEF MakeKey, StatsInv, StatsTypeOK
<1>3. KeysWith({"active", "revoked"}) <= KeysWith({"active", "revoked"})'
  BY <1>2, KeysGrow DEF KeysWith
<1>4. /\ KeysWith({"active", "revoked"}) \in Nat
      /\ KeysWith({"active", "revoked"})' \in Nat
  BY KeysWithNat, FS_Subset, FS_CardinalityType, StatsAssumption DEF KeysWith
<1>5. ASSUME NEW o \in Overviews PROVE CountedKeys(o)' /\ CountedRows(o)'
  <2>1. overview[o] \in Overview /\ CountedKeys(o) /\ CountedRows(o)
    BY DEF StatsInv, StatsTypeOK
  <2>2. QED
    BY <1>3, <1>4, <2>1, StatsAssumption
    DEF MakeKey, CountedKeys, CountedRows, Overview, Count
<1>6. QED
  BY <1>1, <1>5 DEF StatsInv

LEMMA RevokeKey_Inv == ASSUME StatsInv, RevokeKey PROVE StatsInv'
<1>1. StatsTypeOK' /\ AccountsFit'
  BY DEF RevokeKey, StatsInv, StatsTypeOK, AccountsFit
<1>2. \A k \in StatKeys :
        /\ keyStatus[k] \in {"active", "revoked"} => keyStatus'[k] \in {"active", "revoked"}
        /\ keyStatus'[k] \in {"active"} => keyStatus[k] \in {"active"}
  BY DEF RevokeKey, StatsInv, StatsTypeOK
<1>3. /\ KeysWith({"active", "revoked"}) <= KeysWith({"active", "revoked"})'
      /\ KeysWith({"active"})' <= KeysWith({"active"})
  <2>1. Cardinality({k \in StatKeys : keyStatus[k] \in {"active", "revoked"}})
          <= Cardinality({k \in StatKeys : keyStatus'[k] \in {"active", "revoked"}})
    <3>1. \A k \in StatKeys : keyStatus[k] \in {"active", "revoked"}
                                => keyStatus'[k] \in {"active", "revoked"}
      BY <1>2
    <3>2. QED
      BY <3>1, KeysGrow
  <2>2. Cardinality({k \in StatKeys : keyStatus'[k] \in {"active"}})
          <= Cardinality({k \in StatKeys : keyStatus[k] \in {"active"}})
    <3>1. \A k \in StatKeys : keyStatus'[k] \in {"active"} => keyStatus[k] \in {"active"}
      BY <1>2
    <3>2. QED
      BY <3>1, KeysGrow
  <2>3. QED
    BY <2>1, <2>2 DEF KeysWith
<1>4. \A set : KeysWith(set) \in Nat /\ KeysWith(set)' \in Nat
  BY FS_Subset, FS_CardinalityType, StatsAssumption DEF KeysWith
<1>5. ASSUME NEW o \in Overviews PROVE CountedKeys(o)' /\ CountedRows(o)'
  <2>1. overview[o] \in Overview /\ CountedKeys(o) /\ CountedRows(o)
    BY DEF StatsInv, StatsTypeOK
  <2>2. QED
    BY <1>3, <1>4, <2>1, StatsAssumption
    DEF RevokeKey, CountedKeys, CountedRows, Overview, Count
<1>6. QED
  BY <1>1, <1>5 DEF StatsInv

LEMMA StoreStep_Inv ==
  ASSUME StatsInv, StoreRow \/ StoreAccount PROVE StatsInv'
<1>1. StatsTypeOK' /\ AccountsFit' /\ stored <= stored' /\ stored' \in Nat
      /\ stored \in Nat
  BY StatsAssumption
  DEF StoreRow, StoreAccount, StatsInv, StatsTypeOK, AccountsFit
<1>2. \A set : KeysWith(set)' = KeysWith(set)
  BY DEF StoreRow, StoreAccount, KeysWith
<1>3. ASSUME NEW o \in Overviews PROVE CountedKeys(o)' /\ CountedRows(o)'
  <2>1. overview[o] \in Overview /\ CountedKeys(o) /\ CountedRows(o)
    BY DEF StatsInv, StatsTypeOK
  <2>2. QED
    BY <1>1, <1>2, <2>1, StatsAssumption
    DEF StoreRow, StoreAccount, CountedKeys, CountedRows, Overview, Count
<1>4. QED
  BY <1>1, <1>3 DEF StatsInv

LEMMA StatsStutter_Inv == ASSUME StatsInv, UNCHANGED statVars PROVE StatsInv'
<1>1. \A set : KeysWith(set)' = KeysWith(set)
  BY DEF statVars, KeysWith
<1>2. QED
  BY <1>1 DEF statVars, StatsInv, StatsTypeOK, AccountsFit, CountedKeys, CountedRows

LEMMA StatsInvariant == StatsSpec => []StatsInv
<1>1. StatsInv /\ [StatsNext]_statVars => StatsInv'
  BY CountStep_Inv, MakeKey_Inv, RevokeKey_Inv, StoreStep_Inv, StatsStutter_Inv
  DEF StatsNext
<1>2. QED
  BY <1>1, StatsInit_Inv, PTL DEF StatsSpec

(* Rows, keys and the counts of a request have their types, and there are  *)
(* never more accounts than seeds and verifications.                       *)
THEOREM StatsTypeCorrect == StatsSpec => []StatsTypeOK
<1>1. StatsInv => StatsTypeOK
  BY DEF StatsInv
<1>2. QED
  BY <1>1, StatsInvariant, PTL

(* The counts of an overview fit together, however many keys are made and  *)
(* revoked and rows stored while it is counted.                            *)
THEOREM OverviewsFit == StatsSpec => []CountsFit
<1>1. StatsInv => CountsFit
  BY DEF StatsInv, CountedKeys, CountedRows, CountsFit
<1>2. QED
  BY <1>1, StatsInvariant, PTL

-----------------------------------------------------------------------------
(* Providers that decide at once.                                          *)

(* A session has a status that its provider can begin with: nothing        *)
(* changes it later.                                                       *)
SessionsFinal ==
  \A p \in Implementations, i \in SessionIds :
    verifications[p][i] # Absent =>
      verifications[p][i].status \in Contracts[p].initial

(* An id has a session only once its caller was told of it, and waits for  *)
(* no other.                                                               *)
SessionsTold ==
  \A p \in Implementations, i \in SessionIds :
    verifications[p][i] # Absent =>
      /\ told[p][i] = verifications[p][i].status
      /\ told[p][i] # Absent

WaitingIsNew ==
  \A i \in SessionIds : processing[i] # Absent =>
    \A p \in Implementations : told[p][i] = Absent

ProvidersInv ==
  /\ ProvidersTypeOK
  /\ SessionsFinal
  /\ SessionsTold
  /\ WaitingIsNew
  /\ VerdictsAgree

-----------------------------------------------------------------------------
(* Results.                                                                *)

(* A verdict and the risk told with it agree.                              *)
Coherent(r) ==
  /\ r.status = "passed" => r.riskLevel # "high"
  /\ r.status = "failed" => r.riskLevel # "low"

LEMMA VerdictResult ==
  ASSUME NEW status \in {"passed", "failed"}, NEW c \in Int,
         NEW risk \in {"low", "medium", "high"}
  PROVE  /\ Verdict(status, c, risk) \in Result
         /\ Verdict(status, c, risk).status = status
         /\ Verdict(status, c, risk).riskLevel = risk
         /\ Verdict(status, c, risk).confidence = c
BY DEF Verdict, Result

LEMMA FailureResult ==
  ASSUME NEW c \in Int \cup {Absent}, NEW x \in Failures(c)
  PROVE  x \in Result /\ Coherent(x) /\ x.confidence \in Percentage \cup ({c} \ {Absent})
<1>1. PICK d \in IF c = Absent THEN 10..35 ELSE {c} : x = Verdict("failed", d, "high")
  BY DEF Failures
<1>2. d \in Int /\ d \in Percentage \cup ({c} \ {Absent})
  BY <1>1 DEF Percentage
<1>3. x \in Result /\ x.status = "failed" /\ x.riskLevel = "high" /\ x.confidence = d
  BY <1>1, <1>2, VerdictResult
<1>4. QED
  BY <1>2, <1>3 DEF Coherent

(* What the mock decides is a result in which they agree, with a           *)
(* percentage or the number that the simulation asks for.                  *)
MayReport(request, r) ==
  /\ r \in Result /\ Coherent(r)
  /\ \/ r.confidence \in Percentage
     \/ /\ request.simulate # Absent /\ r.confidence # Absent
        /\ r.confidence = request.simulate.confidence

LEMMA ProcessedCoherent ==
  ASSUME NEW request \in DocumentRequest, NEW r \in Processed(request)
  PROVE  MayReport(request, r)
<1>1. /\ \A c \in Int \cup {Absent} : \A x \in Failures(c) :
           x \in Result /\ Coherent(x) /\ x.confidence \in Percentage \cup ({c} \ {Absent})
      /\ \A x \in Failures(Absent) : MayReport(request, x)
  BY FailureResult DEF MayReport
<1>2. \A x \in Unforced(request) : MayReport(request, x)
  <2>1. SUFFICES ASSUME NEW x \in Unforced(request), x \notin Failures(Absent)
                 PROVE  MayReport(request, x)
    BY <1>1
  <2>2. PICK c \in 85..98 :
          x = [Verdict("passed", c, "low") EXCEPT
                !.validity = IF request.type = "biometric" THEN Absent ELSE "passed",
                !.biometric = request.type # "document"]
    BY <2>1 DEF Unforced
  <2>3. x = [status |-> "passed", confidence |-> c, riskLevel |-> "low",
             validity |-> IF request.type = "biometric" THEN Absent ELSE "passed",
             biometric |-> request.type # "document"]
    BY <2>2 DEF Verdict
  <2>4. c \in Percentage /\ c \in Int
    BY DEF Percentage
  <2>5. QED
    BY <2>3, <2>4 DEF Result, Coherent, MayReport
<1>3. CASE request.simulate = Absent
  BY <1>2, <1>3 DEF Processed
<1>4. CASE request.simulate # Absent
  <2>1. request.simulate \in Simulation
    BY <1>4 DEF DocumentRequest
  <2>2. request.simulate.confidence \in Int \cup {Absent}
    BY <2>1 DEF Simulation
  <2>3. CASE request.simulate.forceStatus = "passed"
    <3>1. PICK c \in Int : /\ r = Verdict("passed", c, "low")
                           /\ \/ c \in Percentage
                              \/ c # Absent /\ c = request.simulate.confidence
      <4>1. r = Verdict("passed", IF request.simulate.confidence = Absent THEN 90
                                  ELSE request.simulate.confidence, "low")
        BY <1>4, <2>3 DEF Processed
      <4>2. 90 \in Percentage /\ 90 \in Int
        BY DEF Percentage
      <4>3. QED
        BY <2>2, <4>1, <4>2
    <3>2. r \in Result /\ r.status = "passed" /\ r.riskLevel = "low" /\ r.confidence = c
      BY <3>1, VerdictResult
    <3>3. QED
      BY <1>4, <3>1, <3>2 DEF Coherent, MayReport
  <2>4. CASE request.simulate.forceStatus # "passed"
    <3>1. \/ r \in Unforced(request) \/ r \in Failures(Absent)
          \/ r \in Failures(request.simulate.confidence)
      <4>1. request.simulate.defect \in {"poorImageQuality", "expiredDocument", Absent}
        BY <2>1 DEF Simulation
      <4>2. QED
        BY <1>4, <2>4, <4>1 DEF Processed
    <3>2. r \in Failures(request.simulate.confidence) => MayReport(request, r)
      BY <1>1, <1>4, <2>2 DEF MayReport
    <3>3. QED
      BY <1>1, <1>2, <3>1, <3>2
  <2>5. QED
    BY <2>3, <2>4
<1>5. QED
  BY <1>3, <1>4

(* The scores of Regula stay a percentage, and agree with the risk: the    *)
(* bound of a verdict, 75, lies between those of the risk, 65 and 85.      *)
LEMMA ScoredCoherent ==
  ASSUME NEW request \in DocumentRequest, NEW valid \in BOOLEAN,
         NEW authentic \in 0..FeatureCount
  PROVE  /\ Scored(request, valid, authentic) \in Result
         /\ Coherent(Scored(request, valid, authentic))
         /\ Scored(request, valid, authentic).confidence \in Percentage
<1> DEFINE c == OverallConfidence(valid, authentic)
<1>1. c \in Percentage /\ c \in Int
  BY DEF OverallConfidence, FeatureCount, Percentage
<1>2. request.selfie \in BOOLEAN
  BY DEF DocumentRequest
<1> HIDE DEF c
<1>3. Scored(request, valid, authentic) =
        [status |-> IF c > 75 THEN "passed" ELSE "failed", confidence |-> c,
         riskLevel |-> RiskLevel(c),
         validity |-> IF valid THEN "passed" ELSE "failed",
         biometric |-> request.selfie]
  BY DEF Scored, c
<1>4. QED
  BY <1>1, <1>2, <1>3 DEF RiskLevel, Result, Coherent

-----------------------------------------------------------------------------
(* The invariant.                                                          *)

LEMMA ProvidersInit_Inv == ProvidersInit => ProvidersInv
BY DEF ProvidersInit, ProvidersInv, ProvidersTypeOK, SessionsFinal, SessionsTold,
       WaitingIsNew, VerdictsAgree

(* A session that is coherent and final for its provider is stored.        *)
LEMMA StoreSession_Inv ==
  ASSUME ProvidersInv, NEW p \in Implementations, NEW i \in SessionIds,
         NEW status \in Contracts[p].initial, NEW result \in Result,
         Coherent(result),
         p = "MockRegulaProvider" =>
           (status = "completed") = (result.status = "passed"),
         result.confidence \in
           Percentage \cup IF p = "RegulaProvider" THEN {} ELSE Simulated,
         StoreSession(p, i, status, result),
         processing'[i] = Absent, processing' \in [SessionIds -> DocumentRequests \cup {Absent}],
         \A j \in SessionIds : j # i => processing'[j] = processing[j]
  PROVE  ProvidersInv'
<1> DEFINE new == [status |-> status, result |-> result]
<1>1. status \in Status
  BY DEF Contracts, Implementations, RegulaProvider, MockRegulaProvider, Status
<1>2. new \in DocumentSession /\ new # Absent /\ status # Absent
  BY <1>1, ProvidersAssumption DEF DocumentSession
<1>3. \A q \in Implementations, j \in SessionIds :
        /\ verifications'[q][j] = IF q = p /\ j = i THEN new ELSE verifications[q][j]
        /\ told'[q][j] = IF q = p /\ j = i THEN status ELSE told[q][j]
  BY DEF StoreSession, ProvidersInv, ProvidersTypeOK
<1>4. ProvidersTypeOK'
  <2>1. /\ verifications' \in [Implementations -> [SessionIds -> DocumentSession \cup {Absent}]]
        /\ processing' \in [SessionIds -> DocumentRequests \cup {Absent}]
        /\ told' \in [Implementations -> [SessionIds -> Status \cup {Absent}]]
    BY <1>1, <1>2 DEF StoreSession, ProvidersInv, ProvidersTypeOK
  <2>2. ASSUME NEW q \in Implementations, NEW j \in SessionIds, verifications'[q][j] # Absent
        PROVE  verifications'[q][j].result.confidence \in
                 Percentage \cup IF q = "RegulaProvider" THEN {} ELSE Simulated
    <3>1. CASE q = p /\ j = i
      BY <1>3, <3>1
    <3>2. CASE ~(q = p /\ j = i)
      BY <1>3, <2>2, <3>2 DEF ProvidersInv, ProvidersTypeOK
    <3>3. QED
      BY <3>1, <3>2
  <2>3. QED
    BY <2>1, <2>2 DEF ProvidersTypeOK
<1>5. SessionsFinal'
  BY <1>3 DEF SessionsFinal, ProvidersInv
<1>6. SessionsTold'
  BY <1>2, <1>3 DEF SessionsTold, ProvidersInv
<1>7. WaitingIsNew'
  BY <1>3 DEF WaitingIsNew, ProvidersInv
<1>8. VerdictsAgree'
  BY <1>3 DEF VerdictsAgree, ProvidersInv, Coherent
<1>9. QED
  BY <1>4, <1>5, <1>6, <1>7, <1>8 DEF ProvidersInv

LEMMA StartMock_Inv ==
  ASSUME ProvidersInv, NEW i \in SessionIds, StartMock(i)
  PROVE  ProvidersInv'
BY ProvidersAssumption
DEF ProvidersInv, ProvidersTypeOK, SessionsFinal, SessionsTold, WaitingIsNew,
    VerdictsAgree, StartMock, Unused

LEMMA FinishMock_Inv ==
  ASSUME ProvidersInv, NEW i \in SessionIds, FinishMock(i)
  PROVE  ProvidersInv'
<1>1. processing[i] \in DocumentRequests /\ processing[i] \in DocumentRequest
  BY ProvidersAssumption DEF ProvidersInv, ProvidersTypeOK, FinishMock
<1>2. PICK r \in Processed(processing[i]) :
        StoreSession("MockRegulaProvider", i, MockStatus(r), r)
  BY DEF FinishMock
<1>3. /\ r \in Result /\ Coherent(r)
      /\ r.confidence \in Percentage \cup Simulated
  <2>1. MayReport(processing[i], r)
    BY <1>1, ProcessedCoherent, ProvidersAssumption
  <2>2. processing[i].simulate # Absent /\ processing[i].simulate.confidence # Absent
          => processing[i].simulate.confidence \in Simulated
    BY <1>1 DEF Simulated
  <2>3. QED
    BY <2>1, <2>2 DEF MayReport
<1>4. /\ "MockRegulaProvider" \in Implementations
      /\ MockStatus(r) \in Contracts["MockRegulaProvider"].initial
      /\ (MockStatus(r) = "completed") = (r.status = "passed")
      /\ "MockRegulaProvider" # "RegulaProvider"
  BY DEF Implementations, Contracts, MockRegulaProvider, MockStatus
<1>5. /\ processing' \in [SessionIds -> DocumentRequests \cup {Absent}]
      /\ processing'[i] = Absent
      /\ \A j \in SessionIds : j # i => processing'[j] = processing[j]
  BY DEF FinishMock, ProvidersInv, ProvidersTypeOK
<1>6. QED
  BY <1>2, <1>3, <1>4, <1>5, StoreSession_Inv

LEMMA CreateRegula_Inv ==
  ASSUME ProvidersInv, NEW i \in SessionIds, CreateRegula(i)
  PROVE  ProvidersInv'
<1>1. PICK request \in DocumentRequests, valid \in BOOLEAN,
           authentic \in 0..FeatureCount :
        StoreSession("RegulaProvider", i, "completed", Scored(request, valid, authentic))
  BY DEF CreateRegula
<1>2. /\ Scored(request, valid, authentic) \in Result
      /\ Coherent(Scored(request, valid, authentic))
      /\ Scored(request, valid, authentic).confidence \in Percentage
  BY <1>1, ScoredCoherent, ProvidersAssumption
<1>3. /\ "RegulaProvider" \in Implementations
      /\ "RegulaProvider" # "MockRegulaProvider"
      /\ "completed" \in Contracts["RegulaProvider"].initial
  BY DEF Implementations, Contracts, RegulaProvider
<1>4. /\ processing' \in [SessionIds -> DocumentRequests \cup {Absent}]
      /\ processing'[i] = Absent /\ processing' = processing
  BY DEF CreateRegula, Unused, ProvidersInv, ProvidersTypeOK
<1>5. QED
  BY <1>1, <1>2, <1>3, <1>4, StoreSession_Inv

LEMMA GetStatus_Inv ==
  ASSUME ProvidersInv, NEW p \in Implementations, NEW i \in SessionIds,
         GetStatus(p, i)
  PROVE  ProvidersInv'
<1>1. verifications[p][i] \in DocumentSession
  BY DEF ProvidersInv, ProvidersTypeOK, GetStatus
<1>2. verifications[p][i].status \in Status /\ verifications[p][i].status # Absent
  BY <1>1, ProvidersAssumption DEF DocumentSession
<1>3. processing[i] = Absent
  BY DEF ProvidersInv, SessionsTold, WaitingIsNew, GetStatus
<1>4. \A q \in Implementations, j \in SessionIds :
        told'[q][j] = IF q = p /\ j = i THEN verifications[p][i].status ELSE told[q][j]
  BY DEF GetStatus, ProvidersInv, ProvidersTypeOK
<1>5. ProvidersTypeOK'
  BY <1>2 DEF GetStatus, ProvidersInv, ProvidersTypeOK
<1>6. SessionsTold' /\ WaitingIsNew'
  BY <1>2, <1>3, <1>4 DEF GetStatus, ProvidersInv, SessionsTold, WaitingIsNew
<1>7. SessionsFinal' /\ VerdictsAgree'
  BY DEF GetStatus, ProvidersInv, SessionsFinal, VerdictsAgree
<1>8. QED
  BY <1>5, <1>6, <1>7 DEF ProvidersInv

(* Neither implementation ever cancels: what it is asked to cancel has     *)
(* ended already.                                                          *)
LEMMA NothingToCancel ==
  ASSUME ProvidersInv, NEW p \in Implementations, NEW i \in SessionIds,
         CancelSession(p, i)
  PROVE  UNCHANGED providerVars
<1>1. verifications[p][i].status \in Contracts[p].initial
  BY DEF CancelSession, ProvidersInv, SessionsFinal
<1>2. ~Cancels(p, i)
  BY <1>1 DEF Cancels, Contracts, Implementations, RegulaProvider
<1>3. QED
  BY <1>2 DEF CancelSession, providerVars

LEMMA LoseSessions_Inv == ASSUME ProvidersInv, LoseSessions PROVE ProvidersInv'
BY DEF ProvidersInv, ProvidersTypeOK, SessionsFinal, SessionsTold, WaitingIsNew,
       VerdictsAgree, LoseSessions

LEMMA ProvidersStutter_Inv ==
  ASSUME ProvidersInv, UNCHANGED providerVars PROVE ProvidersInv'
BY DEF ProvidersInv, ProvidersTypeOK, SessionsFinal, SessionsTold, WaitingIsNew,
       VerdictsAgree, providerVars

LEMMA ProvidersInvariant == ProvidersSpec => []ProvidersInv
<1>1. ProvidersInv /\ [ProvidersNext]_providerVars => ProvidersInv'
  BY StartMock_Inv, FinishMock_Inv, CreateRegula_Inv, GetStatus_Inv,
     NothingToCancel, LoseSessions_Inv, ProvidersStutter_Inv
  DEF ProvidersNext
<1>2. QED
  BY <1>1, ProvidersInit_Inv, PTL DEF ProvidersSpec

(* Sessions, waiting requests and what callers were told have their types; *)
(* a confidence is a percentage, or a number that a request asked the mock *)
(* to simulate.                                                            *)
THEOREM ProvidersTypeCorrect == ProvidersSpec => []ProvidersTypeOK
<1>1. ProvidersInv => ProvidersTypeOK
  BY DEF ProvidersInv
<1>2. QED
  BY <1>1, ProvidersInvariant, PTL

(* What a caller was told last of a session that is kept is its status,    *)
(* which agrees with the verdict stored in it.                             *)
THEOREM VerdictsHold == ProvidersSpec => []VerdictsAgree
<1>1. ProvidersInv => VerdictsAgree
  BY DEF ProvidersInv
<1>2. QED
  BY <1>1, ProvidersInvariant, PTL

(* A caller who has been told a status of a session is told no other later. *)
AnswersStand ==
  \A p \in Implementations, i \in SessionIds :
    told[p][i] # Absent => told'[p][i] = told[p][i]

(* The first answer about a session stands, whoever asks for or cancels    *)
(* the session after it, restarts included.                                *)
THEOREM FirstAnswerStands == ProvidersSpec => [][AnswersStand]_told
<1>1. ASSUME ProvidersInv, [ProvidersNext]_providerVars PROVE [AnswersStand]_told
  <2>1. ASSUME NEW i \in SessionIds, StartMock(i) PROVE [AnswersStand]_told
    BY <2>1 DEF StartMock
  <2>2. ASSUME NEW i \in SessionIds, FinishMock(i) PROVE AnswersStand
    <3>1. told["MockRegulaProvider"][i] = Absent
      BY <1>1, <2>2 DEF FinishMock, ProvidersInv, WaitingIsNew, Implementations
    <3>2. PICK s \in {MockStatus(r) : r \in Processed(processing[i])} :
            told' = [told EXCEPT !["MockRegulaProvider"][i] = s]
      BY <2>2 DEF FinishMock, StoreSession
    <3>3. QED
      BY <1>1, <3>1, <3>2 DEF AnswersStand, ProvidersInv, ProvidersTypeOK
  <2>3. ASSUME NEW i \in SessionIds, CreateRegula(i) PROVE AnswersStand
    <3>1. told["RegulaProvider"][i] = Absent
      BY <2>3 DEF CreateRegula, Unused, Implementations
    <3>2. told' = [told EXCEPT !["RegulaProvider"][i] = "completed"]
      BY <2>3 DEF CreateRegula, StoreSession
    <3>3. QED
      BY <1>1, <3>1, <3>2 DEF AnswersStand, ProvidersInv, ProvidersTypeOK
  <2>4. ASSUME NEW p \in Implementations, NEW i \in SessionIds, GetStatus(p, i)
        PROVE  AnswersStand
    <3>1. told' = [told EXCEPT ![p][i] = told[p][i]]
      BY <1>1, <2>4 DEF GetStatus, ProvidersInv, SessionsTold
    <3>2. QED
      BY <1>1, <3>1 DEF AnswersStand, ProvidersInv, ProvidersTypeOK
  <2>5. ASSUME NEW p \in Implementations, NEW i \in SessionIds, CancelSession(p, i)
        PROVE  [AnswersStand]_told
    BY <1>1, <2>5, NothingToCancel DEF providerVars
  <2>6. QED
    BY <1>1, <2>1, <2>2, <2>3, <2>4, <2>5
    DEF ProvidersNext, LoseSessions, providerVars
<1>2. QED
  BY <1>1, ProvidersInvariant, PTL DEF ProvidersSpec

-----------------------------------------------------------------------------
(* The refinement.                                                         *)

Told == [p \in Implementations |-> [i \in SessionIds |-> StatusOf(verifications[p][i])]]

LEMMA StoredIsCreated ==
  ASSUME ProvidersInv, NEW p \in Implementations, NEW i \in SessionIds,
         verifications[p][i] = Absent,
         NEW status \in Contracts[p].initial, NEW result \in Result,
         StoreSession(p, i, status, result)
  PROVE  Contract!Create(p, i)
<1> DEFINE new == [status |-> status, result |-> result]
<1>1. new # Absent /\ new.status = status
  <2>1. status \in Status
    BY DEF Contracts, Implementations, RegulaProvider, MockRegulaProvider, Status
  <2>2. QED
    BY <2>1, ProvidersAssumption DEF DocumentSession
<1>2. Told[p][i] = Absent
  BY DEF Told, StatusOf
<1>3. \A q \in Implementations, j \in SessionIds :
        verifications'[q][j] = IF q = p /\ j = i THEN new ELSE verifications[q][j]
  BY DEF StoreSession, ProvidersInv, ProvidersTypeOK
<1>4. Told' = [Told EXCEPT ![p][i] = status]
  <2>1. \A q \in Implementations, j \in SessionIds :
          StatusOf(verifications[q][j])' = IF q = p /\ j = i THEN status
                                          ELSE StatusOf(verifications[q][j])
    BY <1>1, <1>3 DEF StatusOf
  <2>2. QED
    BY <2>1 DEF Told
<1>5. told' = [told EXCEPT ![p][i] = status]
  BY DEF StoreSession
<1>6. QED
  BY <1>2, <1>4, <1>5 DEF Contract!Create, Told

(* The implementations keep the contract that the verifications service is *)
(* specified with: sessions begin with a status of their provider, are     *)
(* never cancelled, never change, and go all at once.                      *)
THEOREM ContractKept == ProvidersSpec => KeepsContract
<1>1. ProvidersInit => Contract!Init
  BY DEF ProvidersInit, Contract!Init, StatusOf
<1>2. ProvidersInv /\ [ProvidersNext]_providerVars
        => [Contract!Next]_(Contract!contractVars)
  <2> SUFFICES ASSUME ProvidersInv, [ProvidersNext]_providerVars
               PROVE  Contract!Next \/ UNCHANGED <<verifications, told>>
    BY DEF Contract!contractVars
  <2>1. ASSUME NEW i \in SessionIds, StartMock(i)
        PROVE  UNCHANGED <<verifications, told>>
    BY <2>1 DEF StartMock
  <2>2. ASSUME NEW i \in SessionIds, FinishMock(i)
        PROVE  Contract!Next
    <3>1. verifications["MockRegulaProvider"][i] = Absent
      BY <2>2 DEF FinishMock, ProvidersInv, SessionsTold, WaitingIsNew, Implementations
    <3>2. PICK r \in Processed(processing[i]) :
            StoreSession("MockRegulaProvider", i, MockStatus(r), r)
      BY <2>2 DEF FinishMock
    <3>3. r \in Result
      BY <2>2, ProcessedCoherent, ProvidersAssumption DEF FinishMock, ProvidersInv, ProvidersTypeOK, MayReport
    <3>4. /\ "MockRegulaProvider" \in Implementations
          /\ MockStatus(r) \in Contracts["MockRegulaProvider"].initial
      BY DEF Implementations, Contracts, MockRegulaProvider, MockStatus
    <3>5. Contract!Create("MockRegulaProvider", i)
      BY <3>1, <3>2, <3>3, <3>4, StoredIsCreated
    <3>6. QED
      BY <3>4, <3>5 DEF Contract!Next
  <2>3. ASSUME NEW i \in SessionIds, CreateRegula(i)
        PROVE  Contract!Next
    <3>1. verifications["RegulaProvider"][i] = Absent
      BY <2>3 DEF CreateRegula, Unused, ProvidersInv, SessionsTold, Implementations
    <3>2. PICK request \in DocumentRequests, valid \in BOOLEAN,
               authentic \in 0..FeatureCount :
            StoreSession("RegulaProvider", i, "completed",
                         Scored(request, valid, authentic))
      BY <2>3 DEF CreateRegula
    <3>3. Scored(request, valid, authentic) \in Result
      BY <3>2, ScoredCoherent, ProvidersAssumption
    <3>4. /\ "RegulaProvider" \in Implementations
          /\ "completed" \in Contracts["RegulaProvider"].initial
      BY DEF Implementations, Contracts, RegulaProvider
    <3>5. Contract!Create("RegulaProvider", i)
      BY <3>1, <3>2, <3>3, <3>4, StoredIsCreated
    <3>6. QED
      BY <3>4, <3>5 DEF Contract!Next
  <2>4. ASSUME NEW p \in Implementations, NEW i \in SessionIds, GetStatus(p, i)
        PROVE  Contract!Next
    <3>1. /\ Told[p][i] = verifications[p][i].status
          /\ Told[p][i] # Absent
      <4>1. verifications[p][i] \in DocumentSession
        BY <2>4 DEF ProvidersInv, ProvidersTypeOK, GetStatus
      <4>2. QED
        BY <2>4, <4>1, ProvidersAssumption DEF Told, StatusOf, DocumentSession, GetStatus
    <3>2. Contract!Tell(p, i)
      BY <2>4, <3>1 DEF GetStatus, Contract!Tell, Told
    <3>3. QED
      BY <3>2 DEF Contract!Next
  <2>5. ASSUME NEW p \in Implementations, NEW i \in SessionIds, CancelSession(p, i)
        PROVE  UNCHANGED <<verifications, told>>
    BY <2>5, NothingToCancel DEF providerVars
  <2>6. ASSUME LoseSessions
        PROVE  Contract!Next
    <3>1. \A p \in Implementations : ~Contracts[p].remote
      BY DEF Contracts, Implementations, RegulaProvider, MockRegulaProvider
    <3>2. Contract!Restart
      BY <2>6, <3>1 DEF LoseSessions, Contract!Restart, StatusOf
    <3>3. QED
      BY <3>2 DEF Contract!Next
  <2>7. QED
    BY <2>1, <2>2, <2>3, <2>4, <2>5, <2>6 DEF ProvidersNext, providerVars
<1>3. QED
  BY <1>1, <1>2, ProvidersInvariant, PTL
  DEF ProvidersSpec, KeepsContract, Contract!Spec

-----------------------------------------------------------------------------
(* The components side by side.                                            *)

(* A step of the platform is one of a component, and none of the others.   *)
LEMMA ComponentsStep ==
  ASSUME [PlatformNext]_platformVars
  PROVE  /\ [MigrationsNext]_migrationVars /\ [AdminNext]_adminVars
         /\ [ListNext]_listVars /\ [StatsNext]_statVars
         /\ [ProvidersNext]_providerVars
BY DEF PlatformNext, Only, platformVars

(* What is true of a component alone is true of it in the platform.        *)
THEOREM ComponentsImplemented ==
  PlatformSpec => MigrationsSpec /\ AdminSpec /\ ListSpec /\ StatsSpec /\ ProvidersSpec
<1>1. PlatformInit => MigrationsInit /\ AdminInit /\ ListInit /\ StatsInit /\ ProvidersInit
  BY DEF PlatformInit
<1>2. [PlatformNext]_platformVars =>
        /\ [MigrationsNext]_migrationVars /\ [AdminNext]_adminVars
        /\ [ListNext]_listVars /\ [StatsNext]_statVars
        /\ [ProvidersNext]_providerVars
  BY ComponentsStep
<1>3. QED
  BY <1>1, <1>2, PTL
  DEF PlatformSpec, MigrationsSpec, AdminSpec, ListSpec, StatsSpec, ProvidersSpec

(* The four components with requests keep their types.                     *)
THEOREM PlatformTypeCorrect == PlatformSpec => []PlatformTypeOK
BY ComponentsImplemented, AdminTypeCorrect, ListTypeCorrect, StatsTypeCorrect,
   ProvidersTypeCorrect, PTL DEF PlatformTypeOK

(* Their promises hold in the platform.                                    *)
THEOREM PlatformPromises ==
  PlatformSpec => /\ []OperatorsDecide /\ []RetiredStay /\ []ActsAsPresented
                  /\ []NothingIsMissed /\ []TotalCoversShown /\ []CountsFit
                  /\ KeepsContract
                  /\ []SchemaIsReplay /\ []CodeIsServed /\ []MigrationsApply
                  /\ VerificationsSurvive
BY ComponentsImplemented, OperatorsObeyed, RetiredStayRetired, ActsOnlyAsPresented,
   NoneMissed, TotalCovers, OverviewsFit, ContractKept,
   ReplayHolds, CodeServed, ApplyHolds, HistorySurvives, PTL

=============================================================================
