------------------------- MODULE AdminAccessProofs -------------------------
(***************************************************************************)
(* Theorems about AdminAccess, for any administrators, keys, tokens,       *)
(* tenants, requests and failures.                                         *)
(***************************************************************************)
EXTENDS AdminAccess, SequenceTheorems, TLAPS

(* r may be the row of x.                                                  *)
OfKind(x, r) ==
  \/ x \in Admins /\ r \in AdminRow
  \/ x \in AdminKeys /\ r \in AdminKeyRow
  \/ x \in AdminTokens /\ r \in AdminTokenRow

(* A copy of the row of x, which is there: all but the owner may be stale. *)
CopyOf(x, r) ==
  /\ x \in Ids /\ Exists(x) /\ OfKind(x, r)
  /\ x \notin Admins => r.owner = row[x].owner

(* What the SELECT of save number i will find, or has found.               *)
Base(rec, i) ==
  IF i = 1 /\ rec.pc = "update" THEN rec.loaded ELSE row[rec.saves[i].id]

(* An administrator whose row did not change under a request is saved as   *)
(* it is, a key is not made active again, and a token is always revoked.   *)
SaveOK(rec, i) ==
  LET x == rec.saves[i].id
      e == rec.saves[i].entity
  IN  /\ CopyOf(x, e)
      /\ x \in Admins \ contended => e = Base(rec, i)
      /\ x \in AdminKeys \ contended => e.status = "revoked" \/ e = Base(rec, i)
      /\ x \in AdminTokens => e.isRevoked

(* What was selected for a save, and has since been retired at most.       *)
LoadedOK(rec) ==
  rec.pc = "update" =>
    LET x == rec.saves[1].id
    IN  /\ CopyOf(x, rec.loaded)
        /\ x \in AdminKeys \ contended =>
             (rec.loaded.status = "revoked" => row[x].status = "revoked")
        /\ x \in AdminTokens => (rec.loaded.isRevoked => row[x].isRevoked)

(* Whom a call is about, and where it is.                                  *)
SubjectOK(rec) ==
  /\ rec.op = "login" => rec.subject \in Admins
  /\ rec.op \in {"refresh", "logout"} => rec.subject \in AdminTokens
  /\ rec.op = "revokeApiKey" => rec.subject \in AdminKeys
  /\ rec.op \notin {"request", Null} => Exists(rec.subject)

ShapeOK(rec) ==
  /\ rec.pc \in {"token", "select", "update"} => rec.saves # <<>>
  /\ rec.pc \in {"jwt", "jwtTenant", "key", "keyTenant"} => rec.op = "request"
  /\ rec.pc \in {"idle", "jwt", "jwtTenant", "key", "keyTenant", "done"} => rec.saves = <<>>
  /\ rec.pc = "token" => rec.op \in {"login", "refresh"}
  /\ rec.op # "request" /\ rec.saves # <<>> =>
       /\ Len(rec.saves) = 1 /\ rec.saves[1].id = rec.subject
       /\ rec.op = "revokeApiKey" => rec.saves[1].entity.status = "revoked"
  /\ rec.reply # Null => rec.pc = "done"
  /\ rec.pc # "idle" => rec.op # Null

RetiredOK(rec) ==
  rec.reply = "ok" =>
    /\ rec.op \in {"refresh", "logout"} => row[rec.subject].isRevoked
    /\ rec.op = "revokeApiKey" /\ rec.subject \notin contended =>
         row[rec.subject].status = "revoked"

(* a is whose access token or key the request came with.                   *)
Owns(rec, a) ==
  \/ a = rec.with.jwt
  \/ rec.with.key \in AdminKeys /\ Exists(rec.with.key) /\ a = row[rec.with.key].owner

(* request.admin is the subject of the token, which named a tenant.        *)
AfterToken(rec) ==
  /\ rec.admin = rec.with.jwt /\ rec.with.override # Null
  /\ rec.guard = "ApiKeyGuard"

(* What the guards have made of the credentials so far.                    *)
IdentityOK(rec) ==
  rec.op = "request" =>
    /\ rec.user # Null => Owns(rec, rec.user)
    /\ rec.admin # Null => Owns(rec, rec.admin)
    /\ rec.guard = IF rec.with.route # "tenant" /\ rec.user = Null
                     THEN "AdminAuthGuard" ELSE "ApiKeyGuard"
    /\ rec.saves # <<>> =>
         /\ rec.with.key \in AdminKeys /\ Exists(rec.with.key)
         /\ rec.saves[Len(rec.saves)].id = row[rec.with.key].owner
    /\ rec.pc \in {"jwtTenant", "keyTenant"} => rec.admin # Null /\ rec.guard = "ApiKeyGuard"
    /\ rec.pc = "jwt" => rec.admin = Null
    /\ rec.reply = Null /\ rec.pc # "keyTenant" /\ rec.admin # Null => AfterToken(rec)
    /\ rec.reply = Null => rec.tenant = Null
    /\ rec.reply = "ok" =>
         /\ rec.guard = "ApiKeyGuard"
         /\ rec.admin = Null => rec.tenant \in {rec.with.jwt, rec.with.key} \cap Tenants
         /\ rec.admin # Null =>
              \/ rec.tenant \in {rec.with.override, Null}
              \/ AfterToken(rec) /\ rec.tenant = rec.with.key

VisitOK(rec) ==
  /\ ShapeOK(rec) /\ SubjectOK(rec) /\ LoadedOK(rec) /\ RetiredOK(rec) /\ IdentityOK(rec)
  /\ \A i \in DOMAIN rec.saves : SaveOK(rec, i)

AdminInv ==
  /\ AdminTypeOK
  /\ OperatorsDecide
  /\ \A v \in Visits : VisitOK(visit[v])

-----------------------------------------------------------------------------
(* Rows.                                                                   *)

(* No row goes away, changes its owner or is retired and back; one that    *)
(* changes under a request that is to save it is contended, as is a key    *)
(* that is made active again.                                              *)
RowsKept ==
  /\ contended \subseteq contended'
  /\ \A x \in Ids : Exists(x) =>
       /\ row'[x] # Null
       /\ x \notin Admins => row'[x].owner = row[x].owner
       /\ x \in AdminTokens => (row[x].isRevoked => row'[x].isRevoked)
       /\ x \in AdminKeys \ contended' =>
            (row[x].status = "revoked" => row'[x].status = "revoked")
       /\ x \notin AdminTokens /\ row'[x] # row[x] /\ x \notin contended' =>
            \A u \in Visits : ~WillSelect(u, x)

LEMMA RowOfKind ==
  ASSUME AdminTypeOK, NEW x \in Ids, Exists(x)
  PROVE  OfKind(x, row[x]) /\ CopyOf(x, row[x])
BY DEF AdminTypeOK, RowsOK, OfKind, CopyOf, Exists, Ids

LEMMA Kinds ==
  ASSUME NEW x \in Ids
  PROVE  /\ x \in Admins => x \notin AdminKeys /\ x \notin AdminTokens
         /\ x \in AdminKeys => x \notin Admins /\ x \notin AdminTokens
         /\ x \in AdminTokens => x \notin Admins /\ x \notin AdminKeys
BY AdminAssumption

LEMMA NullIsNoRow == Null \notin Ids /\ Null \notin Row /\ Null \notin Tenants
BY AdminAssumption

LEMMA SavedFields ==
  ASSUME NEW x \in Ids, NEW cur, NEW ent, NEW found,
         OfKind(x, cur), OfKind(x, ent), OfKind(x, found)
  PROVE  LET new == Saved(cur, ent, found)
         IN  /\ OfKind(x, new)
             /\ x \in Admins =>
                  /\ new.status = IF ent.status # found.status THEN ent.status ELSE cur.status
                  /\ new.role = IF ent.role # found.role THEN ent.role ELSE cur.role
                  /\ ent = found => new = cur
             /\ x \in AdminKeys =>
                  /\ new.owner = IF ent.owner # found.owner THEN ent.owner ELSE cur.owner
                  /\ new.status = IF ent.status # found.status THEN ent.status ELSE cur.status
             /\ x \in AdminTokens =>
                  /\ new.owner = IF ent.owner # found.owner THEN ent.owner ELSE cur.owner
                  /\ new.isRevoked = IF ent.isRevoked # found.isRevoked THEN ent.isRevoked
                                     ELSE cur.isRevoked
<1>1. CASE x \in Admins
  <2>1. cur \in AdminRow /\ ent \in AdminRow /\ found \in AdminRow
    BY <1>1, Kinds DEF OfKind
  <2>2. QED
    BY <1>1, <2>1, Kinds DEF OfKind, Saved, AdminRow
<1>2. CASE x \in AdminKeys
  <2>1. cur \in AdminKeyRow /\ ent \in AdminKeyRow /\ found \in AdminKeyRow
    BY <1>2, Kinds DEF OfKind
  <2>2. QED
    BY <1>2, <2>1, Kinds DEF OfKind, Saved, AdminKeyRow
<1>3. CASE x \in AdminTokens
  <2>1. cur \in AdminTokenRow /\ ent \in AdminTokenRow /\ found \in AdminTokenRow
    BY <1>3, Kinds DEF OfKind
  <2>2. QED
    BY <1>3, <2>1, Kinds DEF OfKind, Saved, AdminTokenRow
<1>4. QED
  BY <1>1, <1>2, <1>3 DEF Ids

-----------------------------------------------------------------------------
(* A request that does not move stays well-formed when the rows are kept.  *)

LEMMA Copy_Kept ==
  ASSUME RowsKept, NEW x, NEW r, CopyOf(x, r) PROVE CopyOf(x, r)'
BY DEF RowsKept, CopyOf, Exists, OfKind

LEMMA SavesAt ==
  ASSUME NEW rec \in Visit, rec.saves # <<>>
  PROVE  LET s == rec.saves
         IN  /\ s \in Seq(Save) /\ Len(s) \in Nat \ {0} /\ DOMAIN s = 1..Len(s)
             /\ Head(s) = s[1] /\ 1 \in DOMAIN s /\ Len(s) \in DOMAIN s
             /\ \A i \in DOMAIN s : s[i] \in Save
             /\ Tail(s) \in Seq(Save) /\ Len(Tail(s)) = Len(s) - 1
             /\ DOMAIN Tail(s) = 1..(Len(s) - 1)
             /\ \A i \in DOMAIN Tail(s) : i \in Nat /\ i > 0 /\ Tail(s)[i] = s[i + 1]
                                         /\ i + 1 \in DOMAIN s
<1>1. rec.saves \in Seq(Save)
  BY DEF Visit
<1>2. QED
  BY <1>1, LenProperties, EmptySeq, HeadTailProperties, ElementOfSeq

(* No row changed that the request still has to read for a save.           *)
SelectsKept(rec) ==
  \A i \in DOMAIN rec.saves :
    ~(i = 1 /\ rec.pc = "update") =>
      LET x == rec.saves[i].id
      IN  x \in (Admins \cup AdminKeys) \ contended' => row'[x] = row[x]

LEMMA Visit_Kept ==
  ASSUME RowsKept, NEW rec \in Visit, VisitOK(rec), SelectsKept(rec)
  PROVE  VisitOK(rec)'
<1>1. rec.op \in VisitOp \cup {Null}
  BY DEF Visit
<1>2. ASSUME NEW i \in DOMAIN rec.saves PROVE SaveOK(rec, i)'
  <2> DEFINE x == rec.saves[i].id
             e == rec.saves[i].entity
  <2>1. SaveOK(rec, i) /\ CopyOf(x, e) /\ CopyOf(x, e)'
    BY Copy_Kept DEF SaveOK, VisitOK
  <2>2. CASE i = 1 /\ rec.pc = "update"
    BY <2>1, <2>2 DEF SaveOK, Base, RowsKept
  <2>3. CASE ~(i = 1 /\ rec.pc = "update")
    BY <2>1, <2>3 DEF SelectsKept, SaveOK, Base, RowsKept
  <2>4. QED
    BY <2>2, <2>3
<1>3. ShapeOK(rec)'
  BY DEF VisitOK, ShapeOK
<1>4. SubjectOK(rec)'
  <2>1. rec.op \notin {"request", Null} => rec.subject \in Ids
    BY <1>1 DEF VisitOK, SubjectOK, VisitOp, Ids
  <2>2. \A x \in Ids : Exists(x) => Exists(x)'
    BY DEF RowsKept, Exists
  <2>3. QED
    BY <2>1, <2>2 DEF VisitOK, SubjectOK
<1>5. LoadedOK(rec)'
  <2> DEFINE x == rec.saves[1].id
             r == rec.loaded
  <2> SUFFICES ASSUME rec.pc = "update"
               PROVE  /\ CopyOf(x, r)'
                      /\ x \in AdminKeys \ contended' =>
                           (r.status = "revoked" => row'[x].status = "revoked")
                      /\ x \in AdminTokens => (r.isRevoked => row'[x].isRevoked)
    BY DEF LoadedOK
  <2>1. LoadedOK(rec) /\ CopyOf(x, r) /\ CopyOf(x, r)'
    BY Copy_Kept DEF VisitOK, LoadedOK
  <2>2. QED
    BY <2>1 DEF LoadedOK, CopyOf, RowsKept
<1>6. RetiredOK(rec)'
  <2> DEFINE x == rec.subject
  <2>1. /\ rec.op \in {"refresh", "logout"} => x \in AdminTokens /\ x \in Ids /\ Exists(x)
        /\ rec.op = "revokeApiKey" => x \in AdminKeys /\ x \in Ids /\ Exists(x)
    BY <1>1, AdminAssumption DEF VisitOK, SubjectOK, VisitOp, Ids
  <2>2. QED
    BY <1>1, <2>1 DEF VisitOK, RetiredOK, RowsKept
<1>7. IdentityOK(rec)'
  <2>1. \A k \in AdminKeys : Exists(k) => row'[k].owner = row[k].owner /\ Exists(k)'
    BY Kinds DEF RowsKept, Ids, Exists
  <2>2. \A a : Owns(rec, a) => Owns(rec, a)'
    BY <2>1 DEF Owns
  <2>3. QED
    BY <2>1, <2>2 DEF VisitOK, IdentityOK
<1>8. QED
  BY <1>2, <1>3, <1>4, <1>5, <1>6, <1>7 DEF VisitOK

(* Requests that do not move stay well-formed.                             *)
LEMMA Others_Kept ==
  ASSUME AdminInv, RowsKept, NEW v \in Visits
  PROVE  /\ visit[v] \in Visit /\ VisitOK(visit[v])
         /\ visit'[v] = visit[v] => VisitOK(visit[v])'
<1>1. visit[v] \in Visit /\ VisitOK(visit[v])
  BY DEF AdminInv, AdminTypeOK
<1>2. SelectsKept(visit[v])
  <2> SUFFICES ASSUME NEW i \in DOMAIN visit[v].saves, ~(i = 1 /\ visit[v].pc = "update"),
                      visit[v].saves[i].id \in (Admins \cup AdminKeys) \ contended'
               PROVE  row'[visit[v].saves[i].id] = row[visit[v].saves[i].id]
    BY DEF SelectsKept
  <2> DEFINE x == visit[v].saves[i].id
  <2>1. WillSelect(v, x)
    BY DEF WillSelect
  <2>2. x \in Ids /\ Exists(x) /\ x \notin AdminTokens
    BY <1>1, Kinds DEF VisitOK, SaveOK, CopyOf
  <2>3. QED
    BY <2>1, <2>2 DEF RowsKept
<1>3. ASSUME visit'[v] = visit[v] PROVE VisitOK(visit[v])'
  <2> DEFINE rec == visit[v]
  <2>1. rec \in Visit /\ VisitOK(rec) /\ SelectsKept(rec) /\ visit'[v] = rec
    BY <1>1, <1>2, <1>3
  <2>2. QED
    BY <2>1, Visit_Kept
<1>4. QED
  BY <1>1, <1>3

LEMMA Move_Inv ==
  ASSUME AdminInv, NEW v \in Visits, NEW rec \in Visit, visit' = [visit EXCEPT ![v] = rec],
         RowsKept, AdminTypeOK', OperatorsDecide', VisitOK(rec)'
  PROVE  AdminInv'
<1>1. visit'[v] = rec /\ \A u \in Visits : u # v => visit'[u] = visit[u]
  BY DEF AdminInv, AdminTypeOK
<1>2. ASSUME NEW u \in Visits PROVE VisitOK(visit[u])'
  BY <1>1, Others_Kept
<1>3. QED
  BY <1>2 DEF AdminInv

LEMMA Still_Kept ==
  ASSUME UNCHANGED <<row, contended>>
  PROVE  /\ RowsKept
         /\ \A rec \in Visit : VisitOK(rec) => VisitOK(rec)'
<1>1. RowsKept
  BY DEF RowsKept, Exists
<1>2. \A rec \in Visit : SelectsKept(rec)
  BY DEF SelectsKept
<1>3. QED
  BY <1>1, <1>2, Visit_Kept

(* A step that leaves the rows as they are.                                *)
LEMMA Still_Inv ==
  ASSUME AdminInv, NEW v \in Visits, NEW rec \in Visit, visit' = [visit EXCEPT ![v] = rec],
         UNCHANGED <<row, expired, issued, active, there, wanted, contended, changes>>,
         mishaps' \in 0..MaxFaults, VisitOK(rec)
  PROVE  AdminInv'
<1>1. RowsKept /\ VisitOK(rec)'
  BY Still_Kept
<1>2. AdminTypeOK'
  BY DEF AdminInv, AdminTypeOK, RowsOK
<1>3. OperatorsDecide'
  BY DEF AdminInv, OperatorsDecide
<1>4. QED
  BY <1>1, <1>2, <1>3, Move_Inv

-----------------------------------------------------------------------------
(* The guards.                                                             *)

LEMMA VisitFields ==
  ASSUME NEW rec \in Visit
  PROVE  /\ rec.op \in VisitOp \cup {Null}
         /\ rec.with \in Credentials /\ rec.subject \in Ids \cup {Null}
         /\ rec.saves \in Seq(Save)
         /\ rec.user \in Admins \cup {Null} /\ rec.admin \in Admins \cup {Null}
         /\ rec.tenant \in Tenants \cup {Null} /\ rec.reply \in {"ok", "error", Null}
         /\ rec.guard \in {"AdminAuthGuard", "ApiKeyGuard", Null}
         /\ rec.with.override \in Tenants \cup {Null}
         /\ rec.with.key \in AdminKeys \cup Tenants \cup {Null}
         /\ rec.with.jwt \in Admins \cup Tenants \cup {Null}
BY DEF Visit, Credentials

(* A request that is answered with an error.                               *)
LEMMA Failed_OK ==
  ASSUME NEW rec \in Visit, VisitOK(rec), rec.pc # "idle"
  PROVE  Answered(rec, "error") \in Visit /\ VisitOK(Answered(rec, "error"))
<1> DEFINE new == Answered(rec, "error")
<1>1. <<>> \in Seq(Save)
  BY EmptySeq
<1>2. /\ new \in Visit /\ new.saves = <<>> /\ new.pc = "done" /\ new.reply = "error"
      /\ new.op = rec.op /\ new.with = rec.with /\ new.subject = rec.subject
      /\ new.user = rec.user /\ new.admin = rec.admin /\ new.guard = rec.guard
      /\ new.tenant = rec.tenant
  BY <1>1 DEF Answered, Visit
<1> HIDE DEF new
<1>3. ShapeOK(new) /\ SubjectOK(new) /\ LoadedOK(new) /\ RetiredOK(new)
  BY <1>2 DEF VisitOK, ShapeOK, SubjectOK, LoadedOK, RetiredOK
<1>4. IdentityOK(new)
  BY <1>2, AdminAssumption DEF VisitOK, IdentityOK, Owns
<1>5. QED
  BY <1>2, <1>3, <1>4 DEF VisitOK, new

(* A guard takes a request for the administrator whose token or key it is. *)
LEMMA Passed_OK ==
  ASSUME NEW rec \in Visit, VisitOK(rec), rec.op = "request", rec.reply = Null,
         rec.pc \in {"jwt", "key", "select", "update"},
         NEW a \in Admins, Owns(rec, a), rec.pc = "jwt" => a = rec.with.jwt, NEW role
  PROVE  /\ Passed(rec, a, role) \in Visit /\ VisitOK(Passed(rec, a, role))
         /\ Passed(rec, a, role).saves = <<>>
<1>1. <<>> \in Seq(Save)
  BY EmptySeq
<1>2. /\ rec.guard \in {"AdminAuthGuard", "ApiKeyGuard"}
      /\ rec.admin # Null => AfterToken(rec)
      /\ rec.user # Null => Owns(rec, rec.user)
      /\ rec.guard = IF rec.with.route # "tenant" /\ rec.user = Null
                       THEN "AdminAuthGuard" ELSE "ApiKeyGuard"
      /\ SubjectOK(rec) /\ rec.pc # "idle" /\ a # Null /\ rec.tenant = Null
      /\ rec.with.override \in Tenants \cup {Null}
  BY VisitFields, AdminAssumption DEF VisitOK, IdentityOK, Ids
<1>3. CASE rec.guard = "AdminAuthGuard" /\ rec.with.route = "managing" /\ ~MayManage(role)
  <2>1. Passed(rec, a, role) = Answered(rec, "error") /\ Answered(rec, "error").saves = <<>>
    BY <1>1, <1>3 DEF Passed, Answered, Visit
  <2>2. QED
    BY <1>2, <2>1, Failed_OK
<1>4. CASE rec.guard = "AdminAuthGuard" /\ ~(rec.with.route = "managing" /\ ~MayManage(role))
  <2> DEFINE new == [rec EXCEPT !.guard = "ApiKeyGuard", !.pc = "jwt", !.user = a,
                                !.saves = <<>>, !.loaded = Null]
  <2>1. Passed(rec, a, role) = new
    BY <1>4 DEF Passed
  <2>2. /\ new \in Visit /\ new.saves = <<>> /\ new.pc = "jwt" /\ new.reply = Null
        /\ new.op = "request" /\ new.with = rec.with /\ new.subject = rec.subject
        /\ new.user = a /\ new.admin = Null /\ new.guard = "ApiKeyGuard"
        /\ new.tenant = Null
    BY <1>1, <1>2, <1>4 DEF Visit, AfterToken
  <2> HIDE DEF new
  <2>3. ShapeOK(new) /\ SubjectOK(new) /\ LoadedOK(new) /\ RetiredOK(new)
    BY <1>2, <2>2, AdminAssumption DEF ShapeOK, SubjectOK, LoadedOK, RetiredOK, VisitOp
  <2>4. IdentityOK(new)
    BY <1>2, <2>2, AdminAssumption DEF IdentityOK, Owns
  <2>5. QED
    BY <2>1, <2>2, <2>3, <2>4 DEF VisitOK
<1>5. CASE rec.guard = "ApiKeyGuard" /\ rec.with.override = Null
  <2> DEFINE new == Answered([rec EXCEPT !.admin = a], "ok")
  <2>1. Passed(rec, a, role) = new
    BY <1>5 DEF Passed
  <2>2. /\ new \in Visit /\ new.saves = <<>> /\ new.pc = "done" /\ new.reply = "ok"
        /\ new.op = "request" /\ new.with = rec.with /\ new.subject = rec.subject
        /\ new.user = rec.user /\ new.admin = a /\ new.guard = "ApiKeyGuard"
        /\ new.tenant = rec.tenant
    BY <1>1, <1>5 DEF Answered, Visit
  <2> HIDE DEF new
  <2>3. ShapeOK(new) /\ SubjectOK(new) /\ LoadedOK(new) /\ RetiredOK(new)
    BY <1>2, <2>2, AdminAssumption DEF ShapeOK, SubjectOK, LoadedOK, RetiredOK, VisitOp
  <2>4. IdentityOK(new)
    BY <1>2, <1>5, <2>2, AdminAssumption DEF VisitOK, IdentityOK, Owns, AfterToken
  <2>5. QED
    BY <2>1, <2>2, <2>3, <2>4 DEF VisitOK
<1>6. CASE rec.guard = "ApiKeyGuard" /\ rec.with.override # Null
  <2> DEFINE to == IF rec.pc = "jwt" THEN "jwtTenant" ELSE "keyTenant"
             new == [rec EXCEPT !.admin = a, !.saves = <<>>, !.loaded = Null, !.pc = to]
  <2>1. Passed(rec, a, role) = new
    BY <1>6 DEF Passed
  <2>2. /\ new \in Visit /\ new.saves = <<>> /\ new.pc = to /\ new.reply = Null
        /\ new.op = "request" /\ new.with = rec.with /\ new.subject = rec.subject
        /\ new.user = rec.user /\ new.admin = a /\ new.guard = "ApiKeyGuard"
        /\ new.tenant = Null
    BY <1>1, <1>2, <1>6 DEF Visit
  <2> HIDE DEF new
  <2>3. ShapeOK(new) /\ SubjectOK(new) /\ LoadedOK(new) /\ RetiredOK(new)
    BY <1>2, <2>2, AdminAssumption DEF ShapeOK, SubjectOK, LoadedOK, RetiredOK, VisitOp
  <2>4. IdentityOK(new)
    BY <1>2, <1>6, <2>2, AdminAssumption DEF VisitOK, IdentityOK, Owns, AfterToken
  <2>5. QED
    BY <2>1, <2>2, <2>3, <2>4 DEF VisitOK
<1>7. QED
  BY <1>2, <1>3, <1>4, <1>5, <1>6

(* A guard takes a request for the tenant whose token or key it is.        *)
LEMMA ForTenant_OK ==
  ASSUME NEW rec \in Visit, VisitOK(rec), rec.op = "request", rec.reply = Null,
         rec.pc \in {"jwt", "key"}, rec.guard = "ApiKeyGuard",
         NEW t \in Tenants, t \in {rec.with.jwt, rec.with.key}
  PROVE  ForTenant(rec, t) \in Visit /\ VisitOK(ForTenant(rec, t))
<1> DEFINE new == Answered([rec EXCEPT !.tenant = t], "ok")
<1>1. <<>> \in Seq(Save)
  BY EmptySeq
<1>2. /\ new \in Visit /\ new.saves = <<>> /\ new.pc = "done" /\ new.reply = "ok"
      /\ new.op = "request" /\ new.with = rec.with /\ new.subject = rec.subject
      /\ new.user = rec.user /\ new.admin = rec.admin /\ new.guard = "ApiKeyGuard"
      /\ new.tenant = t
  BY <1>1 DEF Answered, Visit
<1> HIDE DEF new
<1>3. ShapeOK(new) /\ SubjectOK(new) /\ LoadedOK(new) /\ RetiredOK(new)
  BY <1>2, AdminAssumption DEF ShapeOK, SubjectOK, LoadedOK, RetiredOK, VisitOp
<1>4. rec.admin # Null => AfterToken(rec) /\ t = rec.with.key
  <2>1. rec.admin # Null => AfterToken(rec) /\ rec.admin \in Admins
    BY VisitFields DEF VisitOK, IdentityOK
  <2>2. t \notin Admins
    BY AdminAssumption DEF Ids
  <2>3. QED
    BY <2>1, <2>2 DEF AfterToken
<1>5. AfterToken(new) <=> AfterToken(rec)
  BY <1>2 DEF AfterToken
<1>6. IdentityOK(new)
  BY <1>2, <1>4, <1>5, AdminAssumption DEF VisitOK, IdentityOK, Owns
<1>7. QED
  BY <1>2, <1>3, <1>6 DEF VisitOK, ForTenant, new

LEMMA BeginRequest_Inv ==
  ASSUME AdminInv, NEW v \in Visits, BeginRequest(v) PROVE AdminInv'
<1>1. PICK c \in Presented :
        visit' = [visit EXCEPT ![v] = [NoVisit EXCEPT
          !.op = "request", !.pc = "jwt", !.with = c,
          !.guard = IF c.route = "tenant" THEN "ApiKeyGuard" ELSE "AdminAuthGuard"]]
  BY DEF BeginRequest, StartVisit
<1> DEFINE new == [NoVisit EXCEPT
             !.op = "request", !.pc = "jwt", !.with = c,
             !.guard = IF c.route = "tenant" THEN "ApiKeyGuard" ELSE "AdminAuthGuard"]
<1>2. c \in Credentials /\ <<>> \in Seq(Save)
  BY EmptySeq, AdminAssumption
<1>3. /\ new \in Visit /\ new.saves = <<>> /\ new.pc = "jwt" /\ new.reply = Null
      /\ new.op = "request" /\ new.with = c /\ new.user = Null /\ new.admin = Null
      /\ new.guard = IF c.route = "tenant" THEN "ApiKeyGuard" ELSE "AdminAuthGuard"
      /\ new.tenant = Null
  BY <1>2 DEF NoVisit, Visit, VisitOp
<1> HIDE DEF new
<1>4. ShapeOK(new) /\ SubjectOK(new) /\ LoadedOK(new) /\ RetiredOK(new)
  BY <1>3, AdminAssumption DEF ShapeOK, SubjectOK, LoadedOK, RetiredOK, VisitOp
<1>5. IdentityOK(new)
  BY <1>3, AdminAssumption DEF IdentityOK
<1>6. VisitOK(new)
  BY <1>3, <1>4, <1>5 DEF VisitOK
<1>7. visit' = [visit EXCEPT ![v] = new]
  BY <1>1 DEF new
<1>8. QED
  BY <1>3, <1>6, <1>7, Still_Inv DEF BeginRequest, AdminInv, AdminTypeOK

LEMMA ReadJwt_Inv ==
  ASSUME AdminInv, NEW v \in Visits, ReadJwt(v) PROVE AdminInv'
<1> DEFINE rec == visit[v]
           a == rec.with.jwt
<1>1. /\ rec \in Visit /\ VisitOK(rec) /\ rec.pc = "jwt" /\ rec.op = "request"
      /\ rec.reply = Null
  BY VisitFields, AdminAssumption DEF AdminInv, AdminTypeOK, ReadJwt, VisitOK, ShapeOK
<1>2. UNCHANGED <<row, expired, issued, active, there, wanted, contended, changes, mishaps>>
  BY DEF ReadJwt
<1>3. mishaps' \in 0..MaxFaults /\ active \subseteq Tenants
  BY <1>2 DEF AdminInv, AdminTypeOK
<1>4. CASE a \in Admins /\ MoveVisit(v, Passed(rec, a, row[a].role))
  <2>1. Owns(rec, a)
    BY DEF Owns
  <2>2. Passed(rec, a, row[a].role) \in Visit /\ VisitOK(Passed(rec, a, row[a].role))
    BY <1>1, <1>4, <2>1, Passed_OK
  <2>3. QED
    BY <1>2, <1>3, <1>4, <2>2, Still_Inv DEF MoveVisit
<1>5. CASE rec.guard = "ApiKeyGuard" /\ a \in active /\ MoveVisit(v, ForTenant(rec, a))
  <2>1. ForTenant(rec, a) \in Visit /\ VisitOK(ForTenant(rec, a))
    BY <1>1, <1>3, <1>5, ForTenant_OK
  <2>2. QED
    BY <1>2, <1>3, <1>5, <2>1, Still_Inv DEF MoveVisit
<1>6. CASE MoveVisit(v, [rec EXCEPT !.pc = "key"])
  <2> DEFINE new == [rec EXCEPT !.pc = "key"]
  <2>1. /\ new \in Visit /\ new.saves = rec.saves /\ new.pc = "key" /\ new.reply = rec.reply
        /\ new.op = "request" /\ new.with = rec.with /\ new.subject = rec.subject
        /\ new.user = rec.user /\ new.admin = rec.admin /\ new.guard = rec.guard
        /\ new.tenant = rec.tenant
    BY <1>1 DEF Visit
  <2>2. visit' = [visit EXCEPT ![v] = new] /\ rec.saves = <<>>
    BY <1>1, <1>6 DEF MoveVisit, VisitOK, ShapeOK
  <2> HIDE DEF new, rec
  <2>3. ShapeOK(new) /\ SubjectOK(new) /\ LoadedOK(new) /\ RetiredOK(new)
    BY <1>1, <2>1, <2>2, AdminAssumption DEF VisitOK, ShapeOK, SubjectOK, LoadedOK, RetiredOK, VisitOp
  <2>4. IdentityOK(new)
    BY <1>1, <2>1, <2>2 DEF VisitOK, IdentityOK, Owns, AfterToken
  <2>5. VisitOK(new)
    BY <2>1, <2>2, <2>3, <2>4 DEF VisitOK
  <2>6. QED
    BY <1>2, <1>3, <2>1, <2>2, <2>5, Still_Inv
<1>7. QED
  BY <1>4, <1>5, <1>6 DEF ReadJwt

LEMMA ReadKey_Inv ==
  ASSUME AdminInv, NEW v \in Visits, ReadKey(v) PROVE AdminInv'
<1> DEFINE rec == visit[v]
           k == rec.with.key
           o == row[k].owner
<1>1. /\ rec \in Visit /\ VisitOK(rec) /\ rec.pc = "key" /\ rec.op = "request"
      /\ rec.reply = Null /\ rec.tenant = Null
  BY VisitFields, AdminAssumption DEF AdminInv, AdminTypeOK, ReadKey, VisitOK, ShapeOK, IdentityOK
<1>2. UNCHANGED <<row, expired, issued, active, there, wanted, contended, changes, mishaps>>
  BY DEF ReadKey
<1>3. AdminTypeOK /\ mishaps' \in 0..MaxFaults /\ active \subseteq Tenants
  BY <1>2 DEF AdminInv, AdminTypeOK
<1>4. CASE k \in AdminKeys /\ IsActive(k) /\ IsActive(o)
  <2> DEFINE s == <<[id |-> k, entity |-> row[k]], [id |-> o, entity |-> row[o]]>>
             new == [rec EXCEPT !.pc = "select", !.saves = s]
  <2>1. visit' = [visit EXCEPT ![v] = new]
    BY <1>4 DEF ReadKey, MoveVisit
  <2>2. /\ k \in Ids /\ Exists(k) /\ OfKind(k, row[k]) /\ CopyOf(k, row[k])
        /\ k \notin Admins /\ k \notin AdminTokens
    BY <1>3, <1>4, RowOfKind, Kinds DEF IsActive, Ids
  <2>3. o \in Admins /\ o \in Ids
    BY <2>2 DEF OfKind, AdminKeyRow, Ids
  <2>4. Exists(o) /\ OfKind(o, row[o]) /\ CopyOf(o, row[o]) /\ o \notin AdminTokens
    BY <1>3, <1>4, <2>3, RowOfKind, Kinds DEF IsActive
  <2>5. s \in Seq(Save) /\ Len(s) = 2 /\ DOMAIN s = {1, 2} /\ s # <<>>
        /\ s[1].id = k /\ s[1].entity = row[k] /\ s[2].id = o /\ s[2].entity = row[o]
    <3>1. row[k] \in Row /\ row[o] \in Row
      BY <2>2, <2>4 DEF OfKind, Row
    <3> HIDE DEF k, o
    <3>2. QED
      BY <2>2, <2>3, <3>1 DEF Save
  <2> HIDE DEF s, o, k
  <2>6. /\ new \in Visit /\ new.saves = s /\ new.pc = "select" /\ new.reply = Null
        /\ new.op = "request" /\ new.with = rec.with /\ new.subject = rec.subject
        /\ new.user = rec.user /\ new.admin = rec.admin /\ new.guard = rec.guard
        /\ new.tenant = Null
    BY <1>1, <2>5 DEF Visit
  <2> HIDE DEF new
  <2>7. ShapeOK(new) /\ SubjectOK(new) /\ LoadedOK(new) /\ RetiredOK(new)
    BY <1>1, <2>5, <2>6, AdminAssumption DEF VisitOK, ShapeOK, SubjectOK, LoadedOK, RetiredOK, VisitOp
  <2>8. IdentityOK(new)
    <3>1. new.saves[Len(new.saves)].id = o
      BY <2>5, <2>6
    <3>2. /\ rec.user # Null => Owns(rec, rec.user)
          /\ rec.admin # Null => Owns(rec, rec.admin) /\ AfterToken(rec)
          /\ rec.guard = IF rec.with.route # "tenant" /\ rec.user = Null
                           THEN "AdminAuthGuard" ELSE "ApiKeyGuard"
      BY <1>1 DEF VisitOK, IdentityOK
    <3>3. /\ \A a : Owns(new, a) <=> Owns(rec, a)
          /\ AfterToken(new) <=> AfterToken(rec)
      BY <2>6 DEF Owns, AfterToken
    <3>4. QED
      BY <1>4, <2>2, <2>6, <3>1, <3>2, <3>3, AdminAssumption DEF IdentityOK, k, o
  <2>9. ASSUME NEW i \in DOMAIN new.saves PROVE SaveOK(new, i)
    <3>1. CASE i = 1
      BY <2>2, <2>5, <2>6, <3>1 DEF SaveOK, Base
    <3>2. CASE i = 2
      BY <2>3, <2>4, <2>5, <2>6, <3>2, Kinds DEF SaveOK, Base
    <3>3. QED
      BY <2>5, <2>6, <3>1, <3>2
  <2>10. VisitOK(new)
    BY <2>7, <2>8, <2>9 DEF VisitOK
  <2>11. QED
    BY <1>2, <1>3, <2>1, <2>6, <2>10, Still_Inv
<1>5. CASE ~(k \in AdminKeys /\ IsActive(k) /\ IsActive(o))
           /\ rec.guard = "ApiKeyGuard" /\ k \in active
  <2>1. ForTenant(rec, k) \in Visit /\ VisitOK(ForTenant(rec, k))
    BY <1>1, <1>3, <1>5, ForTenant_OK
  <2>2. visit' = [visit EXCEPT ![v] = ForTenant(rec, k)]
    BY <1>5 DEF ReadKey, MoveVisit
  <2>3. QED
    BY <1>2, <1>3, <2>1, <2>2, Still_Inv
<1>6. CASE /\ ~(k \in AdminKeys /\ IsActive(k) /\ IsActive(o))
           /\ ~(rec.guard = "ApiKeyGuard" /\ k \in active)
  <2>1. Answered(rec, "error") \in Visit /\ VisitOK(Answered(rec, "error"))
    BY <1>1, Failed_OK
  <2>2. visit' = [visit EXCEPT ![v] = Answered(rec, "error")]
    BY <1>6 DEF ReadKey, MoveVisit
  <2>3. QED
    BY <1>2, <1>3, <2>1, <2>2, Still_Inv
<1>7. QED
  BY <1>4, <1>5, <1>6

LEMMA Thrown_OK ==
  ASSUME NEW rec \in Visit, VisitOK(rec), rec.pc # "idle"
  PROVE  Thrown(rec) \in Visit /\ VisitOK(Thrown(rec))
<1>1. CASE rec.pc = "jwtTenant"
  <2> DEFINE new == [rec EXCEPT !.pc = "key"]
  <2>1. /\ new \in Visit /\ new.saves = rec.saves /\ new.pc = "key" /\ new.reply = rec.reply
        /\ new.op = rec.op /\ new.with = rec.with /\ new.subject = rec.subject
        /\ new.user = rec.user /\ new.admin = rec.admin /\ new.guard = rec.guard
        /\ new.tenant = rec.tenant
    BY DEF Visit
  <2>2. Thrown(rec) = new
    BY <1>1 DEF Thrown
  <2> HIDE DEF new
  <2>3. rec.op = "request" /\ rec.saves = <<>> /\ rec.reply = Null
    BY <1>1, VisitFields DEF VisitOK, ShapeOK
  <2>4. ShapeOK(new) /\ SubjectOK(new) /\ LoadedOK(new) /\ RetiredOK(new)
    BY <2>1, <2>3, AdminAssumption DEF VisitOK, ShapeOK, SubjectOK, LoadedOK, RetiredOK, VisitOp
  <2>5. IdentityOK(new)
    BY <1>1, <2>1, <2>3, AdminAssumption DEF VisitOK, IdentityOK, Owns, AfterToken
  <2>6. VisitOK(new)
    BY <2>1, <2>3, <2>4, <2>5 DEF VisitOK
  <2>7. QED
    BY <2>1, <2>2, <2>6
<1>2. CASE rec.pc # "jwtTenant"
  BY <1>2, Failed_OK DEF Thrown
<1>3. QED
  BY <1>1, <1>2

LEMMA ReadOverride_Inv ==
  ASSUME AdminInv, NEW v \in Visits, ReadOverride(v) PROVE AdminInv'
<1> DEFINE rec == visit[v]
           t == IF rec.with.override \in active THEN rec.with.override ELSE Null
           new == Answered([rec EXCEPT !.tenant = t], "ok")
<1>1. /\ rec \in Visit /\ VisitOK(rec) /\ rec.pc \in {"jwtTenant", "keyTenant"}
      /\ rec.op = "request" /\ rec.admin # Null
  BY VisitFields, AdminAssumption DEF AdminInv, AdminTypeOK, ReadOverride, VisitOK, ShapeOK, IdentityOK
<1>2. UNCHANGED <<row, expired, issued, active, there, wanted, contended, changes, mishaps>>
  BY DEF ReadOverride
<1>3. mishaps' \in 0..MaxFaults /\ active \subseteq Tenants /\ <<>> \in Seq(Save)
  BY <1>2, EmptySeq DEF AdminInv, AdminTypeOK
<1>4. CASE rec.with.override \notin there
  <2>1. Thrown(rec) \in Visit /\ VisitOK(Thrown(rec))
    BY <1>1, Thrown_OK
  <2>2. visit' = [visit EXCEPT ![v] = Thrown(rec)]
    BY <1>4 DEF ReadOverride, MoveVisit
  <2>3. QED
    BY <1>2, <1>3, <2>1, <2>2, Still_Inv
<1>5. CASE rec.with.override \in there
  <2>1. visit' = [visit EXCEPT ![v] = new]
    BY <1>5 DEF ReadOverride, MoveVisit
  <2>2. /\ t \in Tenants \cup {Null} /\ t \in {rec.with.override, Null}
    BY <1>3
  <2>3. /\ rec.guard = "ApiKeyGuard"
        /\ rec.guard = IF rec.with.route # "tenant" /\ rec.user = Null
                        THEN "AdminAuthGuard" ELSE "ApiKeyGuard"
        /\ rec.user # Null => Owns(rec, rec.user)
        /\ Owns(rec, rec.admin)
    BY <1>1 DEF VisitOK, IdentityOK
  <2> HIDE DEF t
  <2>4. /\ new \in Visit /\ new.saves = <<>> /\ new.pc = "done" /\ new.reply = "ok"
        /\ new.op = "request" /\ new.with = rec.with /\ new.subject = rec.subject
        /\ new.user = rec.user /\ new.admin = rec.admin /\ new.guard = rec.guard
        /\ new.tenant = t
    BY <1>1, <1>3, <2>2 DEF Answered, Visit
  <2> HIDE DEF new
  <2>5. ShapeOK(new) /\ SubjectOK(new) /\ LoadedOK(new) /\ RetiredOK(new)
    BY <2>4, AdminAssumption DEF ShapeOK, SubjectOK, LoadedOK, RetiredOK, VisitOp
  <2>6. IdentityOK(new)
    BY <1>1, <2>2, <2>3, <2>4, AdminAssumption DEF IdentityOK, Owns
  <2>7. VisitOK(new)
    BY <2>4, <2>5, <2>6 DEF VisitOK
  <2>8. QED
    BY <1>2, <1>3, <2>1, <2>4, <2>7, Still_Inv
<1>6. QED
  BY <1>4, <1>5

-----------------------------------------------------------------------------
(* Logins and tokens.                                                      *)

LEMMA Begun_Visit ==
  ASSUME NEW rec \in Visit, NEW op \in VisitOp, NEW pc \in {"token", "select"},
         NEW x \in Ids, NEW s \in Seq(Save)
  PROVE  [rec EXCEPT !.op = op, !.pc = pc, !.subject = x, !.saves = s] \in Visit
BY DEF Visit

(* A call that begins with a row read and an entity to save.               *)
LEMMA Starts_Inv ==
  ASSUME AdminInv, NEW v \in Visits,
         NEW op \in {"login", "refresh", "logout", "revokeApiKey"},
         NEW pc \in {"token", "select"}, pc = "token" => op \in {"login", "refresh"},
         NEW x, x \in IF op = "login" THEN Admins
                      ELSE IF op = "revokeApiKey" THEN AdminKeys ELSE AdminTokens,
         Exists(x), NEW e, CopyOf(x, e),
         x \in Admins => e = row[x], x \in AdminKeys => e.status = "revoked",
         x \in AdminTokens => e.isRevoked,
         UNCHANGED <<row, expired, issued, active, there, wanted, contended, changes, mishaps>>,
         visit' = [visit EXCEPT ![v] = [NoVisit EXCEPT
           !.op = op, !.pc = pc, !.subject = x, !.saves = <<[id |-> x, entity |-> e]>>]]
  PROVE  AdminInv'
<1> DEFINE s == <<[id |-> x, entity |-> e]>>
           new == [NoVisit EXCEPT !.op = op, !.pc = pc, !.subject = x, !.saves = s]
<1>1. /\ s \in Seq(Save) /\ Len(s) = 1 /\ DOMAIN s = {1} /\ s # <<>>
      /\ s[1].id = x /\ s[1].entity = e
  BY DEF CopyOf, OfKind, Row, Save
<1> HIDE DEF s
<1>2. /\ new \in Visit /\ new.saves = s /\ new.pc = pc /\ new.reply = Null
      /\ new.op = op /\ new.subject = x
  <2>1. NoVisit \in Visit /\ NoVisit.reply = Null
    <3>1. NoCredentials \in Credentials /\ <<>> \in Seq(Save)
      BY EmptySeq DEF NoCredentials, Credentials, Route
    <3>2. QED
      BY <3>1 DEF NoVisit, Visit
  <2>2. op \in VisitOp /\ x \in Ids
    BY DEF VisitOp, CopyOf
  <2>3. /\ new.saves = s /\ new.pc = pc /\ new.reply = Null
        /\ new.op = op /\ new.subject = x
    BY <2>1 DEF NoVisit
  <2>4. new \in Visit
    BY <1>1, <2>1, <2>2, Begun_Visit
  <2>5. QED
    BY <2>3, <2>4
<1>3. visit' = [visit EXCEPT ![v] = new]
  BY DEF s
<1> HIDE DEF new
<1>4. ShapeOK(new) /\ SubjectOK(new) /\ LoadedOK(new) /\ RetiredOK(new) /\ IdentityOK(new)
  BY <1>1, <1>2, Kinds, AdminAssumption
     DEF ShapeOK, SubjectOK, LoadedOK, RetiredOK, IdentityOK, VisitOp, CopyOf
<1>5. ASSUME NEW i \in DOMAIN new.saves PROVE SaveOK(new, i)
  BY <1>1, <1>2 DEF SaveOK, Base
<1>6. VisitOK(new)
  BY <1>4, <1>5 DEF VisitOK
<1>7. mishaps' \in 0..MaxFaults
  BY DEF AdminInv, AdminTypeOK
<1>8. QED
  BY <1>2, <1>3, <1>6, <1>7, Still_Inv

LEMMA BeginLogin_Inv ==
  ASSUME AdminInv, NEW v \in Visits, BeginLogin(v) PROVE AdminInv'
<1>1. PICK a \in Admins :
        /\ IsActive(a)
        /\ visit' = [visit EXCEPT ![v] = [NoVisit EXCEPT
             !.op = "login", !.pc = "token", !.subject = a,
             !.saves = <<[id |-> a, entity |-> row[a]]>>]]
  BY DEF BeginLogin, StartVisit
<1>2. a \in Ids /\ Exists(a) /\ CopyOf(a, row[a]) /\ a \notin AdminKeys /\ a \notin AdminTokens
  BY <1>1, RowOfKind, Kinds DEF AdminInv, IsActive, Ids
<1>3. QED
  BY <1>1, <1>2, Starts_Inv DEF BeginLogin

LEMMA Retired_Copy ==
  ASSUME AdminTypeOK, NEW t \in AdminTokens, Exists(t)
  PROVE  /\ t \in Ids /\ t \notin Admins /\ t \notin AdminKeys
         /\ CopyOf(t, Retired(row[t])) /\ Retired(row[t]).isRevoked
<1>1. t \in Ids /\ t \notin Admins /\ t \notin AdminKeys
  BY Kinds DEF Ids
<1>2. row[t] \in AdminTokenRow
  BY <1>1, RowOfKind DEF OfKind
<1>3. QED
  BY <1>1, <1>2 DEF CopyOf, OfKind, Retired, AdminTokenRow

LEMMA BeginRefresh_Inv ==
  ASSUME AdminInv, NEW v \in Visits, BeginRefresh(v) PROVE AdminInv'
<1>1. PICK t \in AdminTokens :
        /\ Exists(t)
        /\ visit' = [visit EXCEPT ![v] = [NoVisit EXCEPT
             !.op = "refresh", !.pc = "token", !.subject = t,
             !.saves = <<[id |-> t, entity |-> Retired(row[t])]>>]]
  BY DEF BeginRefresh, StartVisit
<1>2. /\ t \notin Admins /\ t \notin AdminKeys
      /\ CopyOf(t, Retired(row[t])) /\ Retired(row[t]).isRevoked
  BY <1>1, Retired_Copy DEF AdminInv
<1>3. QED
  BY <1>1, <1>2, Starts_Inv DEF BeginRefresh

LEMMA BeginLogout_Inv ==
  ASSUME AdminInv, NEW v \in Visits, BeginLogout(v) PROVE AdminInv'
<1>1. PICK t \in AdminTokens :
        /\ Exists(t)
        /\ visit' = [visit EXCEPT ![v] = [NoVisit EXCEPT
             !.op = "logout", !.pc = "select", !.subject = t,
             !.saves = <<[id |-> t, entity |-> Retired(row[t])]>>]]
  BY DEF BeginLogout, StartVisit
<1>2. /\ t \notin Admins /\ t \notin AdminKeys
      /\ CopyOf(t, Retired(row[t])) /\ Retired(row[t]).isRevoked
  BY <1>1, Retired_Copy DEF AdminInv
<1>3. QED
  BY <1>1, <1>2, Starts_Inv DEF BeginLogout

LEMMA BeginRevokeApiKey_Inv ==
  ASSUME AdminInv, NEW v \in Visits, BeginRevokeApiKey(v) PROVE AdminInv'
<1>1. PICK k \in AdminKeys :
        /\ Exists(k)
        /\ visit' = [visit EXCEPT ![v] = [NoVisit EXCEPT
             !.op = "revokeApiKey", !.pc = "select", !.subject = k,
             !.saves = <<[id |-> k, entity |-> [row[k] EXCEPT !.status = "revoked"]]>>]]
  BY DEF BeginRevokeApiKey, StartVisit
<1> DEFINE e == [row[k] EXCEPT !.status = "revoked"]
<1>2. k \in Ids /\ k \notin Admins /\ k \notin AdminTokens
  BY Kinds DEF Ids
<1>3. row[k] \in AdminKeyRow
  BY <1>1, <1>2, RowOfKind DEF OfKind, AdminInv
<1>4. CopyOf(k, e) /\ e.status = "revoked"
  BY <1>1, <1>2, <1>3 DEF CopyOf, OfKind, AdminKeyRow
<1>5. QED
  BY <1>1, <1>2, <1>4, Starts_Inv DEF BeginRevokeApiKey

LEMMA StatementFails_Inv ==
  ASSUME AdminInv, NEW v \in Visits, StatementFails(v) PROVE AdminInv'
<1>1. visit[v] \in Visit /\ VisitOK(visit[v]) /\ visit[v].pc # "idle"
  BY DEF AdminInv, AdminTypeOK, StatementFails
<1>2. /\ Thrown(visit[v]) \in Visit /\ VisitOK(Thrown(visit[v]))
  BY <1>1, Thrown_OK
<1>3. mishaps' \in 0..MaxFaults
  BY AdminAssumption DEF AdminInv, AdminTypeOK, StatementFails
<1>4. QED
  BY <1>2, <1>3, Still_Inv DEF StatementFails, MoveVisit

LEMMA SelectForSave_Inv ==
  ASSUME AdminInv, NEW v \in Visits, SelectForSave(v) PROVE AdminInv'
<1> DEFINE rec == visit[v]
           x == rec.saves[1].id
           new == [rec EXCEPT !.pc = "update", !.loaded = row[Head(rec.saves).id]]
<1>1. /\ rec \in Visit /\ VisitOK(rec) /\ rec.pc = "select" /\ rec.saves # <<>>
      /\ AdminTypeOK
  BY DEF AdminInv, AdminTypeOK, SelectForSave, VisitOK, ShapeOK
<1>2. /\ 1 \in DOMAIN rec.saves /\ Head(rec.saves) = rec.saves[1]
  BY <1>1, SavesAt
<1>3. x \in Ids /\ Exists(x) /\ SaveOK(rec, 1)
  BY <1>1, <1>2 DEF VisitOK, SaveOK, CopyOf
<1>4. CopyOf(x, row[x]) /\ row[x] \in Row
  BY <1>1, <1>3, RowOfKind DEF OfKind, Row
<1>5. /\ new \in Visit /\ new.saves = rec.saves /\ new.pc = "update" /\ new.reply = rec.reply
      /\ new.op = rec.op /\ new.with = rec.with /\ new.subject = rec.subject
      /\ new.user = rec.user /\ new.admin = rec.admin /\ new.guard = rec.guard
      /\ new.tenant = rec.tenant /\ new.loaded = row[x]
  BY <1>1, <1>2, <1>4 DEF Visit
<1>6. visit' = [visit EXCEPT ![v] = new]
  BY DEF SelectForSave, MoveVisit
<1> HIDE DEF new, rec
<1>7. ShapeOK(new) /\ SubjectOK(new) /\ RetiredOK(new)
  BY <1>1, <1>5 DEF VisitOK, ShapeOK, SubjectOK, RetiredOK
<1>8. LoadedOK(new)
  BY <1>4, <1>5 DEF LoadedOK
<1>9. IdentityOK(new)
  BY <1>1, <1>5, AdminAssumption DEF VisitOK, IdentityOK, Owns, AfterToken
<1>10. ASSUME NEW i \in DOMAIN new.saves PROVE SaveOK(new, i)
  <2>1. SaveOK(rec, i) /\ Base(rec, i) = row[rec.saves[i].id]
    BY <1>1, <1>5 DEF VisitOK, Base
  <2>2. Base(new, i) = row[rec.saves[i].id]
    BY <1>5 DEF Base
  <2>3. QED
    BY <1>5, <2>1, <2>2 DEF SaveOK
<1>11. VisitOK(new)
  BY <1>7, <1>8, <1>9, <1>10 DEF VisitOK
<1>12. mishaps' \in 0..MaxFaults
  BY DEF AdminInv, AdminTypeOK, SelectForSave
<1>13. QED
  BY <1>5, <1>6, <1>11, <1>12, Still_Inv DEF SelectForSave

-----------------------------------------------------------------------------
(* Steps that change rows.                                                 *)

LEMMA RowSet ==
  ASSUME AdminTypeOK, NEW x \in Ids, NEW new, OfKind(x, new), SetRow(x, new),
         x \notin Admins => row[new.owner] # Null
  PROVE  /\ DOMAIN row' = Ids /\ RowsOK(row') /\ row'[x] = new /\ new # Null
         /\ \A y \in Ids : y # x => row'[y] = row[y]
<1>1. /\ DOMAIN row' = Ids /\ row'[x] = new
      /\ \A y \in Ids : y # x => row'[y] = row[y]
  BY DEF SetRow, AdminTypeOK
<1>2. new # Null
  BY AdminAssumption DEF OfKind, Row
<1>3. ASSUME NEW y \in Ids, row'[y] # Null
      PROVE  OfKind(y, row'[y]) /\ (y \notin Admins => row'[row'[y].owner] # Null)
  <2>1. CASE y = x
    <3>1. x \notin Admins => new.owner \in Ids
      BY DEF OfKind, AdminKeyRow, AdminTokenRow, Ids
    <3>2. QED
      BY <1>1, <1>2, <2>1, <3>1
  <2>2. CASE y # x
    <3>1. row[y] # Null /\ row'[y] = row[y] /\ OfKind(y, row[y])
      BY <1>1, <1>3, <2>2, RowOfKind DEF Exists
    <3>2. y \notin Admins => row[y].owner \in Ids /\ row[row[y].owner] # Null
      BY <3>1 DEF OfKind, AdminKeyRow, AdminTokenRow, Ids, AdminTypeOK, RowsOK
    <3>3. QED
      BY <1>1, <1>2, <3>1, <3>2
  <2>3. QED
    BY <2>1, <2>2
<1>4. RowsOK(row')
  BY <1>3, Kinds DEF RowsOK, OfKind, Ids
<1>5. QED
  BY <1>1, <1>2, <1>4

(* A step that moves no request.                                           *)
LEMMA NoMove_Inv ==
  ASSUME AdminInv, UNCHANGED visit, RowsKept, AdminTypeOK', OperatorsDecide'
  PROVE  AdminInv'
<1>1. ASSUME NEW u \in Visits PROVE VisitOK(visit[u])'
  BY Others_Kept
<1>2. QED
  BY <1>1 DEF AdminInv

(* A row is added: no other changes.                                       *)
LEMMA Added_Kept ==
  ASSUME AdminTypeOK, NEW x \in Ids, ~Exists(x), NEW new, OfKind(x, new), SetRow(x, new),
         x \notin Admins => row[new.owner] # Null, UNCHANGED contended
  PROVE  /\ RowsKept
         /\ \A y \in Ids : Exists(y) => row'[y] = row[y]
<1>1. \A y \in Ids : Exists(y) => row'[y] = row[y]
  BY RowSet
<1>2. QED
  BY <1>1 DEF RowsKept, Exists

LEMMA CreateAdmin_Inv ==
  ASSUME AdminInv, CreateAdmin PROVE AdminInv'
<1>1. PICK a \in Admins, r \in {"admin", "viewer"} :
        LET new == [status |-> "active", role |-> r]
        IN  ~Exists(a) /\ SetRow(a, new) /\ wanted' = [wanted EXCEPT ![a] = new]
  BY DEF CreateAdmin
<1> DEFINE new == [status |-> "active", role |-> r]
<1>2. /\ changes' \in 0..MaxChanges
      /\ UNCHANGED <<expired, issued, active, there, visit, contended, mishaps>>
  BY AdminAssumption DEF CreateAdmin, AdminInv, AdminTypeOK
<1>3. new \in AdminRow /\ a \in Ids /\ OfKind(a, new)
  BY DEF AdminRow, Ids, OfKind
<1> HIDE DEF new
<1>4. ~Exists(a) /\ SetRow(a, new) /\ wanted' = [wanted EXCEPT ![a] = new]
  BY <1>1 DEF new
<1>5. /\ DOMAIN row' = Ids /\ RowsOK(row') /\ row'[a] = new
      /\ \A y \in Ids : y # a => row'[y] = row[y]
  BY <1>3, <1>4, RowSet DEF AdminInv
<1>6. RowsKept
  BY <1>2, <1>3, <1>4, Added_Kept DEF AdminInv
<1>7. AdminTypeOK'
  BY <1>2, <1>3, <1>4, <1>5 DEF AdminInv, AdminTypeOK
<1>8. OperatorsDecide'
  BY <1>2, <1>4, <1>5 DEF AdminInv, AdminTypeOK, OperatorsDecide, Ids
<1>9. QED
  BY <1>2, <1>6, <1>7, <1>8, NoMove_Inv

LEMMA ChangeAdmin_Inv ==
  ASSUME AdminInv, ChangeAdmin PROVE AdminInv'
<1>1. PICK a \in Admins, new \in AdminRow :
        /\ Exists(a) /\ new # row[a]
        /\ SetRow(a, new) /\ Contend(a, new)
        /\ wanted' = [wanted EXCEPT ![a] = new]
  BY DEF ChangeAdmin
<1>2. /\ changes' \in 0..MaxChanges
      /\ UNCHANGED <<expired, issued, active, there, visit, mishaps>>
  BY AdminAssumption DEF ChangeAdmin, AdminInv, AdminTypeOK
<1>3. a \in Ids /\ OfKind(a, new) /\ a \notin AdminKeys /\ a \notin AdminTokens
  BY Kinds DEF Ids, OfKind
<1>4. /\ DOMAIN row' = Ids /\ RowsOK(row') /\ row'[a] = new /\ new # Null
      /\ \A y \in Ids : y # a => row'[y] = row[y]
  BY <1>1, <1>3, RowSet DEF AdminInv
<1>5. /\ contended \subseteq contended' /\ contended' \subseteq contended \cup {a}
      /\ a \notin contended' => \A v \in Visits : ~WillSelect(v, a)
  BY <1>1 DEF Contend
<1>6. RowsKept
  BY <1>3, <1>4, <1>5 DEF RowsKept, Exists
<1>7. AdminTypeOK'
  BY <1>1, <1>2, <1>3, <1>4, <1>5 DEF AdminInv, AdminTypeOK
<1>8. OperatorsDecide'
  BY <1>1, <1>2, <1>4, <1>5 DEF AdminInv, AdminTypeOK, OperatorsDecide, Ids
<1>9. QED
  BY <1>2, <1>6, <1>7, <1>8, NoMove_Inv

LEMMA GenerateApiKey_Inv ==
  ASSUME AdminInv, GenerateApiKey PROVE AdminInv'
<1>1. PICK k \in AdminKeys, a \in Admins :
        ~Exists(k) /\ Exists(a) /\ SetRow(k, [owner |-> a, status |-> "active"])
  BY DEF GenerateApiKey
<1> DEFINE new == [owner |-> a, status |-> "active"]
<1>2. UNCHANGED <<expired, issued, active, there, visit, wanted, contended, changes, mishaps>>
  BY DEF GenerateApiKey
<1>3. k \in Ids /\ OfKind(k, new) /\ row[new.owner] # Null /\ k \notin Admins
  BY <1>1, Kinds DEF Ids, OfKind, AdminKeyRow, Exists
<1> HIDE DEF new
<1>4. SetRow(k, new)
  BY <1>1 DEF new
<1>5. /\ DOMAIN row' = Ids /\ RowsOK(row')
      /\ \A y \in Ids : y # k => row'[y] = row[y]
  BY <1>3, <1>4, RowSet DEF AdminInv
<1>6. RowsKept
  BY <1>1, <1>2, <1>3, <1>4, Added_Kept DEF AdminInv
<1>7. AdminTypeOK'
  BY <1>2, <1>5 DEF AdminInv, AdminTypeOK
<1>8. OperatorsDecide'
  BY <1>2, <1>3, <1>5 DEF AdminInv, OperatorsDecide, Ids
<1>9. QED
  BY <1>2, <1>6, <1>7, <1>8, NoMove_Inv

LEMMA RevokeAllRefreshTokens_Inv ==
  ASSUME AdminInv, RevokeAllRefreshTokens PROVE AdminInv'
<1>1. PICK a \in Admins :
        row' = [x \in Ids |->
                  IF x \in AdminTokens /\ Exists(x) /\ row[x].owner = a
                    THEN Retired(row[x]) ELSE row[x]]
  BY DEF RevokeAllRefreshTokens
<1>2. /\ UNCHANGED <<expired, issued, active, there, visit, wanted, changes, mishaps>>
      /\ contended \subseteq contended' /\ contended' \subseteq contended \cup AdminTokens
  BY DEF RevokeAllRefreshTokens
<1>3. DOMAIN row' = Ids
  BY <1>1
<1>4. \A x \in Ids : x \notin AdminTokens => row'[x] = row[x]
  BY <1>1
<1>5. \A x \in AdminTokens :
        /\ ~Exists(x) => row'[x] = Null
        /\ Exists(x) => /\ row'[x] \in AdminTokenRow /\ row'[x] # Null
                        /\ row'[x].owner = row[x].owner
                        /\ row[x].isRevoked => row'[x].isRevoked
  <2> SUFFICES ASSUME NEW x \in AdminTokens
               PROVE  /\ ~Exists(x) => row'[x] = Null
                      /\ Exists(x) => /\ row'[x] \in AdminTokenRow /\ row'[x] # Null
                                      /\ row'[x].owner = row[x].owner
                                      /\ row[x].isRevoked => row'[x].isRevoked
    OBVIOUS
  <2>1. x \in Ids /\ x \notin Admins /\ x \notin AdminKeys
    BY Kinds DEF Ids
  <2>2. CASE ~Exists(x)
    BY <1>1, <2>1, <2>2 DEF Exists
  <2>3. CASE Exists(x)
    <3>1. row[x] \in AdminTokenRow
      BY <2>1, <2>3, RowOfKind DEF OfKind, AdminInv
    <3>2. row'[x] = row[x] \/ row'[x] = Retired(row[x])
      BY <1>1, <2>1
    <3>3. QED
      BY <2>3, <3>1, <3>2, NullIsNoRow DEF Retired, AdminTokenRow, Row
  <2>4. QED
    BY <2>2, <2>3
<1>6. RowsOK(row')
  BY <1>4, <1>5, Kinds DEF AdminInv, AdminTypeOK, RowsOK, Ids, AdminKeyRow, AdminTokenRow, Exists
<1>7. RowsKept
  BY <1>2, <1>4, <1>5, Kinds DEF RowsKept, Exists
<1>8. AdminTypeOK'
  BY <1>2, <1>3, <1>6 DEF AdminInv, AdminTypeOK, Ids
<1>9. OperatorsDecide'
  <2>1. \A x \in Admins : x \in Ids /\ x \notin AdminTokens
    BY Kinds DEF Ids
  <2>2. QED
    BY <1>2, <1>4, <2>1 DEF AdminInv, OperatorsDecide
<1>10. QED
  BY <1>2, <1>7, <1>8, <1>9, NoMove_Inv

LEMMA Expire_Inv ==
  ASSUME AdminInv, Expire PROVE AdminInv'
<1>1. UNCHANGED <<row, active, there, visit, wanted, contended, mishaps>>
  BY DEF Expire
<1>2. changes' \in 0..MaxChanges
  BY AdminAssumption DEF Expire, AdminInv, AdminTypeOK
<1>3. AdminTypeOK'
  BY <1>1, <1>2 DEF Expire, AdminInv, AdminTypeOK, RowsOK
<1>4. RowsKept /\ OperatorsDecide'
  BY <1>1, Still_Kept DEF AdminInv, OperatorsDecide
<1>5. QED
  BY <1>1, <1>3, <1>4, NoMove_Inv

LEMMA TenantChanges_Inv ==
  ASSUME AdminInv, TenantChanges PROVE AdminInv'
<1>1. UNCHANGED <<row, expired, issued, visit, wanted, contended, mishaps>>
  BY DEF TenantChanges
<1>2. changes' \in 0..MaxChanges /\ active' \subseteq there' /\ there' \subseteq Tenants
  BY AdminAssumption DEF TenantChanges, AdminInv, AdminTypeOK
<1>3. AdminTypeOK'
  BY <1>1, <1>2 DEF AdminInv, AdminTypeOK, RowsOK
<1>4. RowsKept /\ OperatorsDecide'
  BY <1>1, Still_Kept DEF AdminInv, OperatorsDecide
<1>5. QED
  BY <1>1, <1>3, <1>4, NoMove_Inv

LEMMA InsertToken_Inv ==
  ASSUME AdminInv, NEW v \in Visits, InsertToken(v) PROVE AdminInv'
<1> DEFINE rec == visit[v]
           h == Holder(rec)
           r == [owner |-> h, isRevoked |-> FALSE]
<1>1. /\ rec \in Visit /\ VisitOK(rec) /\ rec.pc = "token" /\ AdminTypeOK
      /\ rec.op \in {"login", "refresh"}
  BY DEF AdminInv, AdminTypeOK, InsertToken, VisitOK, ShapeOK
<1>0. PICK n : n = [visit[v] EXCEPT !.pc = "select"]
  OBVIOUS
<1>2. PICK t \in AdminTokens : ~Exists(t) /\ SetRow(t, r)
  BY DEF InsertToken
<1>3. /\ UNCHANGED <<expired, issued, active, there, wanted, contended, changes, mishaps>>
      /\ visit' = [visit EXCEPT ![v] = n]
  BY <1>0 DEF InsertToken, MoveVisit
<1>4. h \in Admins /\ row[h] # Null
  <2>1. CASE rec.op = "login"
    BY <1>1, <2>1, AdminAssumption DEF Holder, VisitOK, SubjectOK, Exists, VisitOp
  <2>2. CASE rec.op = "refresh"
    <3>1. rec.subject \in AdminTokens /\ Exists(rec.subject)
      BY <1>1, <2>2, AdminAssumption DEF VisitOK, SubjectOK, VisitOp
    <3>2. row[rec.subject] \in AdminTokenRow /\ row[row[rec.subject].owner] # Null
      BY <1>1, <3>1 DEF AdminTypeOK, RowsOK, Exists
    <3>3. QED
      BY <2>2, <3>2 DEF Holder, AdminTokenRow
  <2>3. QED
    BY <1>1, <2>1, <2>2
<1>5. /\ n \in Visit /\ n.saves = rec.saves /\ n.pc = "select" /\ n.reply = rec.reply
      /\ n.op = rec.op /\ n.subject = rec.subject
  BY <1>0, <1>1 DEF Visit
<1> HIDE DEF h
<1>6. /\ t \in Ids /\ OfKind(t, r) /\ row[r.owner] # Null
      /\ t \notin Admins
  BY <1>4, Kinds DEF OfKind, AdminTokenRow, Ids
<1> HIDE DEF r
<1>7. /\ RowsKept /\ DOMAIN row' = Ids /\ RowsOK(row')
      /\ \A y \in Ids : Exists(y) => row'[y] = row[y]
      /\ \A y \in Ids : y # t => row'[y] = row[y]
  BY <1>1, <1>2, <1>3, <1>6, Added_Kept, RowSet
<1> HIDE DEF rec
<1>8. VisitOK(n)
  <2>1. ShapeOK(n) /\ SubjectOK(n) /\ LoadedOK(n) /\ RetiredOK(n) /\ IdentityOK(n)
    BY <1>1, <1>5, AdminAssumption
       DEF VisitOK, ShapeOK, SubjectOK, LoadedOK, RetiredOK, IdentityOK, VisitOp
  <2>2. ASSUME NEW i \in DOMAIN n.saves PROVE SaveOK(n, i)
    <3>1. SaveOK(rec, i) /\ Base(rec, i) = row[rec.saves[i].id]
                         /\ Base(n, i) = row[rec.saves[i].id]
      BY <1>1, <1>5 DEF VisitOK, Base
    <3>2. QED
      BY <1>5, <3>1 DEF SaveOK
  <2>3. QED
    BY <2>1, <2>2 DEF VisitOK
<1>9. SelectsKept(n)
  BY <1>7, <1>8 DEF SelectsKept, VisitOK, SaveOK, CopyOf
<1>10. VisitOK(n)'
  BY <1>5, <1>7, <1>8, <1>9, Visit_Kept
<1>11. AdminTypeOK'
  BY <1>1, <1>3, <1>5, <1>7 DEF AdminTypeOK
<1>12. OperatorsDecide'
  BY <1>3, <1>6, <1>7 DEF AdminInv, OperatorsDecide, Ids
<1>13. QED
  BY <1>3, <1>5, <1>7, <1>10, <1>11, <1>12, Move_Inv

(* After its last save a request passes, and a call is answered.           *)
LEMMA UpdateEnds_OK ==
  ASSUME AdminTypeOK, NEW rec \in Visit, VisitOK(rec), rec.pc = "update",
         rec.saves # <<>>, ~(Len(rec.saves) > 1)
  PROVE  /\ AfterSaves(rec) \in Visit /\ AfterSaves(rec).saves = <<>>
         /\ rec.op = "request" => VisitOK(AfterSaves(rec))
<1>1. /\ Len(rec.saves) = 1 /\ Head(rec.saves) = rec.saves[1]
      /\ rec.reply = Null /\ <<>> \in Seq(Save)
  <2>1. Len(rec.saves) = 1 /\ Head(rec.saves) = rec.saves[1]
    <3>1. Len(rec.saves) \in Nat \ {0} /\ Head(rec.saves) = rec.saves[1]
      BY SavesAt
    <3>2. \A n \in Nat \ {0} : ~(n > 1) => n = 1
      OBVIOUS
    <3>3. QED
      BY <3>1, <3>2, Zenon
  <2>2. rec.reply = Null
    BY DEF VisitOK, ShapeOK
  <2>3. QED
    BY <2>1, <2>2, EmptySeq
<1>2. CASE rec.op = "request"
  <2> DEFINE k == rec.with.key
             a == rec.saves[1].id
  <2>1. k \in AdminKeys /\ Exists(k) /\ a = row[k].owner
    BY <1>1, <1>2 DEF VisitOK, IdentityOK
  <2>2. a \in Admins
    BY <2>1 DEF AdminTypeOK, RowsOK, AdminKeyRow, Exists
  <2>3. Owns(rec, a)
    BY <2>1 DEF Owns
  <2> HIDE DEF a, k
  <2>4. \A role : /\ Passed(rec, a, role) \in Visit /\ VisitOK(Passed(rec, a, role))
                  /\ Passed(rec, a, role).saves = <<>>
    BY <1>1, <1>2, <2>2, <2>3, Passed_OK
  <2>5. QED
    BY <1>1, <1>2, <2>4 DEF AfterSaves, a
<1>3. CASE rec.op # "request"
  <2>1. AfterSaves(rec) = Answered(rec, "ok")
    BY <1>3 DEF AfterSaves
  <2>2. Answered(rec, "ok") \in Visit
    BY EmptySeq DEF Answered, Visit
  <2>3. Answered(rec, "ok").saves = <<>>
    BY DEF Answered, Visit
  <2>4. QED
    BY <1>3, <2>1, <2>2, <2>3
<1>4. QED
  BY <1>2, <1>3

(* What the UPDATE of save makes of a row.                                 *)
LEMMA Update_Kept ==
  ASSUME AdminInv, NEW v \in Visits, UpdateForSave(v)
  PROVE  LET rec == visit[v]
             x == rec.saves[1].id
             e == rec.saves[1].entity
         IN  /\ x \in Ids /\ Exists(x) /\ contended \subseteq contended'
             /\ RowsKept /\ AdminTypeOK' /\ OperatorsDecide'
             /\ x \in AdminTokens => row'[x].isRevoked
             /\ x \in AdminKeys \ contended' =>
                  (e.status = "revoked" => row'[x].status = "revoked")
<1> DEFINE rec == visit[v]
           x == rec.saves[1].id
           e == rec.saves[1].entity
           f == rec.loaded
           new == Saved(row[x], e, f)
<1>1. /\ rec \in Visit /\ VisitOK(rec) /\ rec.pc = "update" /\ rec.saves # <<>>
      /\ AdminTypeOK
  BY DEF AdminInv, AdminTypeOK, UpdateForSave, VisitOK, ShapeOK
<1>2. Head(rec.saves) = rec.saves[1] /\ 1 \in DOMAIN rec.saves
  BY <1>1, SavesAt
<1>3. /\ SetRow(x, new) /\ Contend(x, new)
      /\ UNCHANGED <<expired, active, there, wanted, changes, mishaps>>
      /\ issued' \subseteq issued \cup Admins
  BY <1>2 DEF UpdateForSave
<1>4. visit' \in [Visits -> Visit]
  <2>1. CASE Len(rec.saves) > 1
    <3>1. Tail(rec.saves) \in Seq(Save)
      BY <1>1, SavesAt
    <3>2. [rec EXCEPT !.pc = "select", !.loaded = Null, !.saves = Tail(rec.saves)] \in Visit
      BY <1>1, <3>1 DEF Visit
    <3>3. QED
      BY <1>1, <2>1, <3>2 DEF UpdateForSave, MoveVisit, AdminTypeOK
  <2>2. CASE ~(Len(rec.saves) > 1)
    <3>1. AfterSaves(rec) \in Visit
      BY <1>1, <2>2, UpdateEnds_OK
    <3>2. QED
      BY <1>1, <2>2, <3>1 DEF UpdateForSave, MoveVisit, AdminTypeOK
  <2>3. QED
    BY <2>1, <2>2
<1>5. /\ SaveOK(rec, 1) /\ Base(rec, 1) = f
      /\ CopyOf(x, e) /\ CopyOf(x, f) /\ x \in Ids /\ Exists(x)
      /\ x \in AdminKeys \ contended => (f.status = "revoked" => row[x].status = "revoked")
      /\ x \in AdminTokens => (f.isRevoked => row[x].isRevoked)
  BY <1>1, <1>2 DEF VisitOK, SaveOK, LoadedOK, Base, CopyOf
<1>6. OfKind(x, e) /\ OfKind(x, f) /\ OfKind(x, row[x])
  BY <1>1, <1>5, RowOfKind DEF CopyOf
<1> HIDE DEF new, rec, x, e, f
<1>7. /\ OfKind(x, new)
      /\ x \in Admins => (e = f => new = row[x])
      /\ x \in AdminKeys =>
           /\ new.owner = IF e.owner # f.owner THEN e.owner ELSE row[x].owner
           /\ new.status = IF e.status # f.status THEN e.status ELSE row[x].status
      /\ x \in AdminTokens =>
           /\ new.owner = IF e.owner # f.owner THEN e.owner ELSE row[x].owner
           /\ new.isRevoked = IF e.isRevoked # f.isRevoked THEN e.isRevoked ELSE row[x].isRevoked
  BY <1>5, <1>6, SavedFields DEF new
<1>8. /\ x \notin Admins => new.owner = row[x].owner
      /\ x \in AdminTokens => new.isRevoked
      /\ x \in Admins \ contended => new = row[x]
      /\ x \in AdminKeys \ contended =>
           (e.status = "revoked" \/ row[x].status = "revoked" => new.status = "revoked")
  <2>1. CASE x \in Admins
    BY <1>5, <1>7, <2>1, Kinds DEF SaveOK, x, e
  <2>2. CASE x \in AdminKeys
    BY <1>5, <1>7, <2>2, Kinds DEF SaveOK, CopyOf, x, e
  <2>3. CASE x \in AdminTokens
    <3>1. e.isRevoked /\ e.isRevoked \in BOOLEAN /\ f.isRevoked \in BOOLEAN
          /\ row[x].isRevoked \in BOOLEAN
      BY <1>5, <1>6, <2>3, Kinds DEF SaveOK, OfKind, AdminTokenRow, x, e
    <3>2. x \notin Admins /\ x \notin AdminKeys /\ new.owner = row[x].owner
      BY <1>5, <1>7, <2>3, Kinds DEF CopyOf
    <3>3. new.isRevoked
      BY <1>5, <1>7, <2>3, <3>1
    <3>4. QED
      BY <3>2, <3>3
  <2>4. QED
    BY <1>5, <2>1, <2>2, <2>3 DEF Ids
<1>9. x \notin Admins => row[new.owner] # Null
  BY <1>1, <1>5, <1>8, Kinds DEF AdminTypeOK, RowsOK, Exists, Ids
<1>10. /\ DOMAIN row' = Ids /\ RowsOK(row') /\ row'[x] = new /\ new # Null
       /\ \A y \in Ids : y # x => row'[y] = row[y]
  BY <1>1, <1>3, <1>5, <1>7, <1>9, RowSet
<1>11. /\ contended \subseteq contended' /\ contended' \subseteq contended \cup {x}
       /\ new # row[x] /\ x \notin contended' => \A u \in Visits : ~WillSelect(u, x)
  BY <1>3 DEF Contend
<1>12. RowsKept
  <2> SUFFICES ASSUME NEW y \in Ids, Exists(y)
               PROVE  /\ row'[y] # Null
                      /\ y \notin Admins => row'[y].owner = row[y].owner
                      /\ y \in AdminTokens => (row[y].isRevoked => row'[y].isRevoked)
                      /\ y \in AdminKeys \ contended' =>
                           (row[y].status = "revoked" => row'[y].status = "revoked")
                      /\ y \notin AdminTokens /\ row'[y] # row[y] /\ y \notin contended' =>
                           \A u \in Visits : ~WillSelect(u, y)
    BY <1>11 DEF RowsKept
  <2>1. CASE y = x
    BY <1>8, <1>10, <1>11, <2>1
  <2>2. CASE y # x
    BY <1>10, <2>2 DEF Exists
  <2>3. QED
    BY <2>1, <2>2
<1>13. AdminTypeOK'
  BY <1>1, <1>3, <1>4, <1>5, <1>10, <1>11 DEF AdminTypeOK
<1>14. OperatorsDecide'
  <2>1. \A a \in Admins \ contended' : a \in Ids /\ row'[a] = row[a]
    BY <1>8, <1>10, <1>11 DEF Ids
  <2>2. QED
    BY <1>3, <1>11, <2>1 DEF AdminInv, OperatorsDecide
<1>15. QED
  BY <1>5, <1>8, <1>10, <1>11, <1>12, <1>13, <1>14 DEF x, e, rec

LEMMA UpdateForSave_Inv ==
  ASSUME AdminInv, NEW v \in Visits, UpdateForSave(v) PROVE AdminInv'
<1> DEFINE x == visit[v].saves[1].id
           e == visit[v].saves[1].entity
<1>1. PICK rec \in Visit : rec = visit[v]
  BY DEF AdminInv, AdminTypeOK
<1>2. /\ VisitOK(rec) /\ rec.pc = "update" /\ rec.saves # <<>> /\ AdminTypeOK
      /\ rec.reply = Null
  <2>1. VisitOK(rec) /\ rec.pc = "update" /\ AdminTypeOK
    BY <1>1 DEF AdminInv, UpdateForSave
  <2>2. QED
    BY <2>1 DEF VisitOK, ShapeOK
<1>3. /\ RowsKept /\ AdminTypeOK' /\ OperatorsDecide'
      /\ rec.saves[1].id \in AdminTokens => row'[rec.saves[1].id].isRevoked
      /\ rec.saves[1].id \in AdminKeys \ contended' =>
           (rec.saves[1].entity.status = "revoked" => row'[rec.saves[1].id].status = "revoked")
  BY <1>1, Update_Kept
<1>4. SubjectOK(rec) /\ ShapeOK(rec) /\ IdentityOK(rec)
  BY <1>2 DEF VisitOK
<1>5. CASE Len(rec.saves) > 1
  <2>1. PICK n : n = [rec EXCEPT !.pc = "select", !.loaded = Null, !.saves = Tail(rec.saves)]
    OBVIOUS
  <2>2. /\ Tail(rec.saves) \in Seq(Save) /\ Tail(rec.saves) # <<>>
        /\ Len(Tail(rec.saves)) = Len(rec.saves) - 1
        /\ Tail(rec.saves)[Len(Tail(rec.saves))] = rec.saves[Len(rec.saves)]
        /\ \A i \in DOMAIN Tail(rec.saves) :
             i \in Nat /\ i > 0 /\ Tail(rec.saves)[i] = rec.saves[i + 1]
             /\ i + 1 \in DOMAIN rec.saves /\ i + 1 # 1
    <3> DEFINE s == rec.saves
               l == Len(s)
    <3>1. /\ Tail(s) \in Seq(Save) /\ l \in Nat /\ Len(Tail(s)) = l - 1
          /\ DOMAIN Tail(s) = 1..(l - 1)
          /\ \A i \in DOMAIN Tail(s) :
               i \in Nat /\ i > 0 /\ Tail(s)[i] = s[i + 1] /\ i + 1 \in DOMAIN s
      BY <1>2, SavesAt
    <3>2. \A j \in Nat : j > 1 => (j - 1) \in 1..(j - 1) /\ (j - 1) + 1 = j /\ j - 1 # 0
      OBVIOUS
    <3>3. (l - 1) \in DOMAIN Tail(s) /\ (l - 1) + 1 = l /\ Len(Tail(s)) # 0
      BY <1>5, <3>1, <3>2, Zenon
    <3> HIDE DEF l
    <3>4. Tail(s)[Len(Tail(s))] = s[l] /\ Tail(s) # <<>>
      BY <3>1, <3>3, EmptySeq
    <3>5. QED
      BY <3>1, <3>4 DEF l
  <2>3. /\ n \in Visit /\ n.saves = Tail(rec.saves) /\ n.pc = "select" /\ n.reply = rec.reply
        /\ n.op = rec.op /\ n.with = rec.with /\ n.subject = rec.subject
        /\ n.user = rec.user /\ n.admin = rec.admin /\ n.guard = rec.guard
        /\ n.tenant = rec.tenant
    BY <2>1, <2>2 DEF Visit
  <2>4. visit' = [visit EXCEPT ![v] = n]
    BY <1>1, <1>5, <2>1 DEF UpdateForSave, MoveVisit
  <2>5. rec.op = "request"
    <3>1. ~(1 > 1)
      OBVIOUS
    <3>2. rec.op # "request" => Len(rec.saves) = 1
      BY <1>2, <1>4 DEF ShapeOK
    <3>3. QED
      BY <1>5, <3>1, <3>2, Zenon
  <2>6. ASSUME NEW i \in DOMAIN n.saves
        PROVE  /\ SaveOK(n, i)
               /\ n.saves[i].id \in (Admins \cup AdminKeys) \ contended' =>
                    row'[n.saves[i].id] = row[n.saves[i].id]
    <3>1. /\ n.saves[i] = rec.saves[i + 1] /\ i + 1 \in DOMAIN rec.saves /\ i + 1 # 1
      BY <2>2, <2>3
    <3>2. SaveOK(rec, i + 1)
      BY <1>2, <3>1 DEF VisitOK
    <3>3. SaveOK(n, i)
      BY <2>3, <3>1, <3>2 DEF SaveOK, Base
    <3>4. WillSelect(v, n.saves[i].id)
      BY <1>1, <3>1 DEF WillSelect
    <3>5. n.saves[i].id \in Ids /\ Exists(n.saves[i].id)
      BY <3>3 DEF SaveOK, CopyOf
    <3>6. QED
      BY <1>3, <3>3, <3>4, <3>5, Kinds DEF RowsKept
  <2>7. ShapeOK(n) /\ SubjectOK(n) /\ LoadedOK(n) /\ RetiredOK(n)
    BY <1>2, <1>4, <2>2, <2>3, <2>5, AdminAssumption
       DEF ShapeOK, SubjectOK, LoadedOK, RetiredOK, VisitOp
  <2>8. IdentityOK(n)
    <3>1. \A a : Owns(n, a) <=> Owns(rec, a)
      BY <2>3 DEF Owns
    <3>2. QED
      BY <1>2, <1>4, <2>2, <2>3, <2>5, <3>1, AdminAssumption DEF IdentityOK, AfterToken
  <2>9. VisitOK(n) /\ SelectsKept(n)
    BY <2>6, <2>7, <2>8 DEF VisitOK, SelectsKept
  <2>10. VisitOK(n)'
    BY <1>3, <2>3, <2>9, Visit_Kept
  <2>11. QED
    BY <1>3, <2>3, <2>4, <2>10, Move_Inv
<1>6. CASE ~(Len(rec.saves) > 1)
  <2>1. PICK n : n = AfterSaves(rec)
    OBVIOUS
  <2>2. n \in Visit /\ n.saves = <<>> /\ (rec.op = "request" => VisitOK(n))
    BY <1>2, <1>6, <2>1, UpdateEnds_OK
  <2>3. visit' = [visit EXCEPT ![v] = n]
    BY <1>1, <1>6, <2>1 DEF UpdateForSave, MoveVisit
  <2>4. CASE rec.op = "request"
    <3>1. SelectsKept(n)
      BY <2>2 DEF SelectsKept
    <3>2. VisitOK(n)'
      BY <1>3, <2>2, <2>4, <3>1, Visit_Kept
    <3>3. QED
      BY <1>3, <2>2, <2>3, <3>2, Move_Inv
  <2>5. CASE rec.op # "request"
    <3>1. PICK m : m = Answered(rec, "error")
      OBVIOUS
    <3>2. m \in Visit /\ VisitOK(m) /\ m.saves = <<>> /\ m.op = rec.op /\ m.subject = rec.subject
      <4>1. m.saves = <<>> /\ m.op = rec.op /\ m.subject = rec.subject
        BY <3>1 DEF Answered, Visit
      <4>2. QED
        BY <1>2, <3>1, <4>1, Failed_OK
    <3>3. SelectsKept(m)
      BY <3>2 DEF SelectsKept
    <3>4. SubjectOK(m)'
      BY <1>3, <3>2, <3>3, Visit_Kept DEF VisitOK
    <3>5. /\ n.op = rec.op /\ n.pc = "done" /\ n.reply = "ok" /\ n.subject = rec.subject
      BY <2>1, <2>5 DEF AfterSaves, Answered, Visit
    <3>6. /\ rec.saves[1].id = rec.subject /\ rec.op \in VisitOp \cup {Null}
          /\ rec.op = "revokeApiKey" => rec.saves[1].entity.status = "revoked"
      BY <1>2, <1>4, <2>5, VisitFields DEF ShapeOK
    <3>7. RetiredOK(n)'
      BY <1>3, <1>4, <2>5, <3>5, <3>6, AdminAssumption DEF RetiredOK, SubjectOK, VisitOp
    <3>8. ShapeOK(n)'
      BY <1>2, <1>4, <2>2, <2>5, <3>5 DEF ShapeOK
    <3>9. SubjectOK(n)'
      BY <3>2, <3>4, <3>5 DEF SubjectOK
    <3>10. LoadedOK(n)' /\ IdentityOK(n)'
      BY <2>5, <3>5 DEF LoadedOK, IdentityOK
    <3>11. VisitOK(n)'
      BY <2>2, <3>7, <3>8, <3>9, <3>10 DEF VisitOK
    <3>12. QED
      BY <1>3, <2>2, <2>3, <3>11, Move_Inv
  <2>6. QED
    BY <2>4, <2>5
<1>7. QED
  BY <1>5, <1>6

-----------------------------------------------------------------------------
(* The theorems.                                                           *)

LEMMA Init_Inv == AdminInit => AdminInv
<1> SUFFICES ASSUME AdminInit PROVE AdminInv
  OBVIOUS
<1>1. NoVisit \in Visit
  <2>1. NoCredentials \in Credentials /\ <<>> \in Seq(Save)
    BY EmptySeq DEF NoCredentials, Credentials, Route
  <2>2. QED
    BY <2>1 DEF NoVisit, Visit
<1>2. DOMAIN row = Ids /\ RowsOK(row)
  BY SeedAssumption DEF AdminInit, SeedRows
<1>3. wanted \in [Admins -> AdminRow \cup {Null}] /\ \A a \in Admins : row[a] = wanted[a]
  <2>1. \A a \in Admins : a \in Ids /\ row[a] = SeedRow(a) /\ wanted[a] = SeedRow(a)
    BY DEF AdminInit, SeedRows, Ids
  <2>2. QED
    BY <1>2, <2>1 DEF AdminInit, RowsOK
<1>4. AdminTypeOK
  BY <1>1, <1>2, <1>3, AdminAssumption DEF AdminInit, AdminTypeOK
<1>5. VisitOK(NoVisit)
  <2>1. /\ NoVisit.op = Null /\ NoVisit.pc = "idle" /\ NoVisit.saves = <<>>
        /\ NoVisit.reply = Null
    BY DEF NoVisit
  <2>2. QED
    BY <2>1, AdminAssumption
       DEF VisitOK, ShapeOK, SubjectOK, LoadedOK, RetiredOK, IdentityOK, VisitOp
<1>6. QED
  BY <1>3, <1>4, <1>5 DEF AdminInit, AdminInv, OperatorsDecide

LEMMA Next_Inv == AdminInv /\ [AdminNext]_adminVars => AdminInv'
<1> SUFFICES ASSUME AdminInv, [AdminNext]_adminVars PROVE AdminInv'
  OBVIOUS
<1>1. CASE UNCHANGED adminVars
  <2>1. UNCHANGED <<row, expired, issued, active, there, visit, wanted, contended, changes, mishaps>>
    BY <1>1 DEF adminVars
  <2>2. RowsKept
    BY <2>1, Still_Kept
  <2>3. AdminTypeOK' /\ OperatorsDecide'
    BY <2>1 DEF AdminInv, AdminTypeOK, RowsOK, OperatorsDecide
  <2>4. QED
    BY <2>1, <2>2, <2>3, NoMove_Inv
<1>2. CASE \E v \in Visits :
             \/ BeginRequest(v) \/ ReadJwt(v) \/ ReadKey(v) \/ ReadOverride(v)
             \/ BeginLogin(v) \/ BeginRefresh(v) \/ BeginLogout(v)
             \/ BeginRevokeApiKey(v)
             \/ InsertToken(v) \/ SelectForSave(v) \/ UpdateForSave(v)
             \/ StatementFails(v)
  BY <1>2, BeginRequest_Inv, ReadJwt_Inv, ReadKey_Inv, ReadOverride_Inv, BeginLogin_Inv,
     BeginRefresh_Inv, BeginLogout_Inv, BeginRevokeApiKey_Inv, InsertToken_Inv,
     SelectForSave_Inv, UpdateForSave_Inv, StatementFails_Inv
<1>3. CASE \/ CreateAdmin \/ ChangeAdmin \/ GenerateApiKey \/ RevokeAllRefreshTokens
           \/ Expire \/ TenantChanges
  BY <1>3, CreateAdmin_Inv, ChangeAdmin_Inv, GenerateApiKey_Inv,
     RevokeAllRefreshTokens_Inv, Expire_Inv, TenantChanges_Inv
<1>4. QED
  BY <1>1, <1>2, <1>3 DEF AdminNext

LEMMA AdminInvariant == AdminSpec => []AdminInv
BY Init_Inv, Next_Inv, PTL DEF AdminSpec

(* The tables keep their foreign keys and the requests their fields.       *)
THEOREM AdminTypeCorrect == AdminSpec => []AdminTypeOK
<1>1. AdminInv => AdminTypeOK
  BY DEF AdminInv
<1>2. QED
  BY <1>1, AdminInvariant, PTL

(* An administrator an operator has deactivated, or whose role one has     *)
(* changed, stays so through the saves of the requests around it, unless   *)
(* one of them still had to select the row then.                           *)
THEOREM OperatorsObeyed == AdminSpec => []OperatorsDecide
<1>1. AdminInv => OperatorsDecide
  BY DEF AdminInv
<1>2. QED
  BY <1>1, AdminInvariant, PTL

(* What a logout, a refresh or the revocation of a key has retired is not  *)
(* brought back by another call's save.                                    *)
THEOREM RetiredStayRetired == AdminSpec => []RetiredStay
<1>1. AdminInv => RetiredStay
  BY DEF AdminInv, VisitOK, RetiredOK, RetiredStay
<1>2. QED
  BY <1>1, AdminInvariant, PTL

(* The guards of a request with one credential take it for one             *)
(* administrator, and it acts for a tenant of its own, as an administrator *)
(* for the one it names, or for the tenant of the key that came with an    *)
(* administrator's token naming another.                                   *)
THEOREM ActsOnlyAsPresented == AdminSpec => []ActsAsPresented
<1>1. AdminInv => ActsAsPresented
  <2> SUFFICES ASSUME AdminInv, NEW v \in Visits,
                      visit[v].op = "request", visit[v].reply = "ok"
               PROVE  /\ visit[v].with.route # "tenant"
                           /\ (visit[v].with.jwt = Null \/ visit[v].with.key = Null) =>
                           visit[v].user # Null /\ visit[v].admin = visit[v].user
                      /\ \/ visit[v].admin = Null
                              /\ visit[v].tenant \in {visit[v].with.jwt, visit[v].with.key}
                         \/ visit[v].admin # Null
                              /\ visit[v].tenant \in {visit[v].with.override, Null}
                         \/ visit[v].admin = visit[v].with.jwt
                              /\ visit[v].tenant = visit[v].with.key
                              /\ visit[v].with.override \notin {Null, visit[v].tenant}
    BY DEF ActsAsPresented
  <2> DEFINE rec == visit[v]
  <2>1. rec \in Visit /\ VisitOK(rec)
    BY DEF AdminInv, AdminTypeOK
  <2>2. /\ rec.guard = "ApiKeyGuard"
        /\ rec.user # Null => Owns(rec, rec.user)
        /\ rec.admin # Null => Owns(rec, rec.admin)
        /\ rec.with.route # "tenant" => rec.user # Null
        /\ rec.admin = Null => rec.tenant \in {rec.with.jwt, rec.with.key} \cap Tenants
        /\ rec.admin # Null => \/ rec.tenant \in {rec.with.override, Null}
                               \/ AfterToken(rec) /\ rec.tenant = rec.with.key
    <3>1. IdentityOK(rec) /\ rec.user \in Admins \cup {Null}
      BY <2>1, VisitFields DEF VisitOK
    <3>2. /\ rec.guard = IF rec.with.route # "tenant" /\ rec.user = Null
                        THEN "AdminAuthGuard" ELSE "ApiKeyGuard"
          /\ rec.guard = "ApiKeyGuard"
      BY <3>1, Zenon DEF IdentityOK
    <3>3. rec.with.route # "tenant" => rec.user # Null
      BY <3>2
    <3>4. QED
      BY <3>1, <3>2, <3>3, Zenon DEF IdentityOK
  <2>3. rec.with.route # "tenant" /\ (rec.with.jwt = Null \/ rec.with.key = Null) =>
          rec.admin = rec.user
    <3> SUFFICES ASSUME rec.with.route # "tenant",
                        rec.with.jwt = Null \/ rec.with.key = Null
                 PROVE  rec.admin = rec.user
      OBVIOUS
    <3>1. rec.user \in Admins /\ Owns(rec, rec.user) /\ Null \notin AdminKeys
      BY <2>1, <2>2, VisitFields, AdminAssumption DEF Ids
    <3>2. rec.admin # Null
      <4> SUFFICES ASSUME rec.admin = Null PROVE FALSE
        OBVIOUS
      <4>1. rec.tenant \in {rec.with.jwt, rec.with.key} /\ rec.tenant \in Tenants
        BY <2>2
      <4>2. rec.tenant \notin Admins /\ rec.tenant \notin AdminKeys /\ rec.tenant # Null
        BY <4>1, AdminAssumption DEF Ids
      <4>3. rec.tenant = rec.with.jwt \/ rec.tenant = rec.with.key
        BY <4>1
      <4>4. rec.user = rec.with.jwt \/ rec.with.key \in AdminKeys
        BY <3>1 DEF Owns
      <4>5. rec.user # Null /\ rec.tenant # rec.user
        BY <2>2, <3>1, <4>2
      <4>6. QED
        BY <3>1, <4>2, <4>3, <4>4, <4>5
    <3>3. Owns(rec, rec.admin) /\ rec.admin \in Admins
      BY <2>1, <2>2, <3>2, VisitFields
    <3>4. Null \notin Admins
      BY AdminAssumption DEF Ids
    <3>5. QED
      BY <3>1, <3>3, <3>4 DEF Owns
  <2>4. QED
    BY <2>2, <2>3 DEF AfterToken
<1>2. QED
  BY <1>1, AdminInvariant, PTL
=============================================================================
