------------------------------ MODULE Listings ------------------------------
(***************************************************************************)
(* The paged lists: a client asks for page after page while rows are added,*)
(* change their status or are deleted.  Each page is two statements, one   *)
(* for the rows and one for their number, and another read of the tables.  *)
(*                                                                         *)
(* A behaviour is about one list and its table.  A row is its position in  *)
(* the order of creation; no two are created at the same time.             *)
(***************************************************************************)
EXTENDS Naturals, Sequences, FiniteSets

CONSTANTS
  Customers,   \* tenants whose rows are listed
  Readers,     \* clients that walk through a list
  PageLimits,  \* the limits they ask for; 0 when they give none
  DefaultLimit, LimitCap,  \* 20 and 100
  MaxRows,     \* bound: rows of the table
  MaxPages,    \* bound: pages a client reads
  Unset        \* no filter, no client

ASSUME ListingsAssumption ==
  /\ PageLimits \subseteq Nat /\ {DefaultLimit, LimitCap} \subseteq Nat \ {0}
  /\ MaxRows \in Nat /\ MaxPages \in Nat
  /\ Unset \notin Customers \cup {"open", "closed", "gone"}

ListNames == {"listVerifications", "getVerifiedUsers", "listTenantUsers", "getAllTenants"}

\* A verification is open or closed, as is a tenant; accounts stay open.
ListedRow == [owner : Customers, status : {"open", "closed", "gone"}]

Walk ==
  [owner : Customers \cup {Unset}, filter : {"open", "closed", Unset}, limit : PageLimits \cup {0},
   page : 1..MaxPages + 1, pc : {"idle", "count", "rows", "done"},
   shown : SUBSET (1..MaxRows),   \* rows of the pages read so far
   more : BOOLEAN,                \* the last page had rows
   total : Nat,                   \* as last told
   there : SUBSET (1..MaxRows)]   \* what a walk should show: the rows that
                                  \* matched when it began

VARIABLES
  list,    \* which list
  listed,  \* the rows of its table
  walk     \* the locals of each client

listVars == <<list, listed, walk>>

ListTypeOK ==
  /\ list \in ListNames
  /\ listed \in Seq(ListedRow) /\ Len(listed) <= MaxRows
  /\ walk \in [Readers -> Walk]

-----------------------------------------------------------------------------
(* The queries.                                                            *)

OfAccounts == list \in {"getVerifiedUsers", "listTenantUsers"}

\* WHERE: an administrator's list of tenants shows all of them.
Matching(w) ==
  {n \in DOMAIN listed :
     /\ listed[n].status # "gone"
     /\ list = "getAllTenants" \/ listed[n].owner = w.owner
     /\ w.filter \in {Unset, listed[n].status}}

\* ORDER BY created_at DESC: the rows that come before row n.
Newer(w, n) == {m \in Matching(w) : m > n}

\* The limit after default and cap; the list of tenants has no cap.
PageSize(w) ==
  IF w.limit = 0 THEN DefaultLimit
  ELSE IF list = "getAllTenants" \/ w.limit <= LimitCap THEN w.limit
  ELSE LimitCap

\* Faulty variant: a page too far.
OffsetTooFar(w) == w.page * PageSize(w)

Offset(w) == (w.page - 1) * PageSize(w)

\* LIMIT and OFFSET
PageRows(w) ==
  {n \in Matching(w) :
     Cardinality(Newer(w, n)) \in Offset(w)..Offset(w) + PageSize(w) - 1}

\* Faulty variant: the rows of the page.
TotalOfPage(w) == Cardinality(PageRows(w))

\* listVerifications makes its count query by replacing a text that is not in
\* the other, so it finds no total.
Total(w) == IF list = "listVerifications" THEN 0 ELSE Cardinality(Matching(w))

-----------------------------------------------------------------------------
(* A walk.                                                                 *)

\* listVerifications counts first, the others last.
FirstQuery == IF list = "listVerifications" THEN "count" ELSE "rows"

BeginWalk(r) ==
  /\ walk[r].pc = "idle"
  /\ \E c \in Customers, f \in {"open", "closed", Unset}, n \in PageLimits :
       LET w == [walk[r] EXCEPT !.owner = c, !.filter = f, !.limit = n,
                                !.pc = FirstQuery]
       IN  /\ OfAccounts => f = Unset
           /\ walk' = [walk EXCEPT ![r] = [w EXCEPT !.there = Matching(w)]]
  /\ UNCHANGED <<list, listed>>

\* After both queries: the client goes on until a page is empty.
NextPage(w) ==
  IF w.more THEN [w EXCEPT !.page = @ + 1, !.pc = FirstQuery]
  ELSE [w EXCEPT !.pc = "done"]

ReadRows(r) ==
  LET w == walk[r]
      rows == PageRows(w)
      read == [w EXCEPT !.shown = @ \cup rows, !.more = rows # {}]
  IN  /\ w.pc = "rows" /\ w.page <= MaxPages
      /\ walk' = [walk EXCEPT ![r] =
           IF list = "listVerifications" THEN NextPage(read)
           ELSE [read EXCEPT !.pc = "count"]]
      /\ UNCHANGED <<list, listed>>

ReadCount(r) ==
  LET w == walk[r]
      counted == [w EXCEPT !.total = Total(w)]
  IN  /\ w.pc = "count"
      /\ walk' = [walk EXCEPT ![r] =
           IF list = "listVerifications" THEN [counted EXCEPT !.pc = "rows"]
           ELSE NextPage(counted)]
      /\ UNCHANGED <<list, listed>>

-----------------------------------------------------------------------------
(* Meanwhile: see Verifications and TenantAccess.                          *)

AddRow ==
  /\ Len(listed) < MaxRows
  /\ \E c \in Customers : listed' = Append(listed, [owner |-> c, status |-> "open"])
  /\ UNCHANGED <<list, walk>>

ChangeStatus ==
  /\ ~OfAccounts
  /\ \E n \in DOMAIN listed :
       /\ listed[n].status = "open"
       /\ listed' = [listed EXCEPT ![n].status = "closed"]
  /\ UNCHANGED <<list, walk>>

\* Only tenants are ever deleted.
DeleteRow ==
  /\ list = "getAllTenants"
  /\ \E n \in DOMAIN listed :
       /\ listed[n].status # "gone"
       /\ listed' = [listed EXCEPT ![n].status = "gone"]
  /\ UNCHANGED <<list, walk>>

NoWalk ==
  [owner |-> Unset, filter |-> Unset, limit |-> 0, page |-> 1, pc |-> "idle",
   shown |-> {}, more |-> TRUE, total |-> 0, there |-> {}]

ListInit ==
  /\ list \in ListNames
  /\ listed = <<>>
  /\ walk = [r \in Readers |-> NoWalk]

ListNext ==
  \/ \E r \in Readers : BeginWalk(r) \/ ReadRows(r) \/ ReadCount(r)
  \/ AddRow \/ ChangeStatus \/ DeleteRow

ListSpec == ListInit /\ [][ListNext]_listVars

-----------------------------------------------------------------------------
(* Properties.                                                             *)

(* A list without a filter of rows that are never deleted shows every row  *)
(* that was there when the walk began, however many are added meanwhile:   *)
(* they push rows to later pages, never to earlier ones.                   *)
NothingIsMissed ==
  \A r \in Readers :
    walk[r].pc = "done" /\ walk[r].filter = Unset /\ list # "getAllTenants" =>
      walk[r].there \subseteq walk[r].shown

(* The number of users is never less than what the pages have shown of     *)
(* different ones, so a client that trusts it does not stop early.         *)
TotalCoversShown ==
  \A r \in Readers :
    walk[r].pc = "done" /\ OfAccounts =>
      walk[r].total >= Cardinality(walk[r].shown)
=============================================================================
