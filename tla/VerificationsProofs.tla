------------------------- MODULE VerificationsProofs -------------------------
(***************************************************************************)
(* Theorems about Verifications, for any tenants, providers, requests,     *)
(* documents and number of failures, whatever the providers do.            *)
(*                                                                         *)
(* The invariant VerificationsInv says, for each request, what it may rely *)
(* on between two awaits (CallSound), and for each row and account, what   *)
(* relates it to the other tables (RowSound, AccountSound).                *)
(***************************************************************************)
EXTENDS Verifications, ProviderAssignmentsProofs

(* The locals a handler has set by the time it stands at pc.               *)
Shaped(r) ==
  LET q == request[r]
  IN  /\ q.pc # "done" => q.reply = Null
      /\ q.pc # "idle" => q.op \in {"create", "get", "cancel"} /\ q.tenant \in Tenants
      /\ q.pc = "account" => q.op = "create" /\ q.subject \in Requests
      /\ q.pc \in {"save", "link"} => q.op = "create"
      /\ q.op = "create" => q.document \in Documents
      /\ q.op \in {"get", "cancel"} => q.subject \in Requests
      /\ q.pc \in {"call", "store"} => /\ q.provider \in Registered
                                       /\ q.config \in ConfigIds
      /\ q.pc = "store" /\ q.op \in {"create", "get"} => q.answer \in Status

(* Nothing is stored under the name of a request that has not stored it.   *)
Fresh(r) ==
  LET q == request[r]
      reads == q.op \in {"get", "cancel"}
  IN  /\ reads \/ q.pc \in {"idle", "account", "select", "call", "store"}
           => verification[r] = Null /\ account[r] = Null
      /\ reads \/ q.pc \in {"idle", "account", "select", "call"}
           => \A p \in Registered : session[p][r] = Null

(* The row a get or cancel read is still there, still of the tenant, and   *)
(* for a cancel no other final status has been written.                    *)
Reading(r) ==
  LET q == request[r]
  IN  /\ InProgress(r) /\ q.op \in {"get", "cancel"} => Visible(q.subject, q.tenant)
      /\ InProgress(r) /\ q.op = "cancel"
           => verification[q.subject].status \in OpenStatus \cup {"cancelled"}
      /\ q.pc = "store" /\ q.op = "cancel"
           => session[q.provider][q.subject] = "cancelled"
      /\ q.op = "cancel" /\ q.reply = "ok" => Cancelled(q.subject)

(* What a create has checked or obtained still fits its tenant; the        *)
(* configuration may be gone, but no other row took its id.                *)
Creating(r) ==
  LET q == request[r]
  IN  q.op = "create" =>
      /\ q.pc \in {"select", "call", "store"} /\ q.subject # Null
           => AccountFound(q.subject, q.tenant)
      /\ q.pc \in {"call", "store"} =>
           /\ q.config < nextConfig
           /\ config[q.config] # Null => config[q.config].tenant = q.tenant
      /\ q.pc = "store" =>
           /\ \A p \in Registered : session[p][r] # Null => p = q.provider
           /\ q.answer = "cancelled" => session[q.provider][r] = "cancelled"

(* A create that stores an account has stored a completed row before.      *)
Linking(r) ==
  LET q == request[r]
  IN  /\ q.pc \in {"save", "link"} =>
           /\ verification[r] # Null
           /\ verification[r].status = "completed"
           /\ verification[r].tenant = q.tenant
           /\ verification[r].account = Null
      /\ q.pc = "save" => account[r] = Null
      /\ q.pc = "link" => AccountFound(r, q.tenant)

CallSound(r) == Shaped(r) /\ Fresh(r) /\ Reading(r) /\ Creating(r) /\ Linking(r)

RowSound(v) ==
  LET row == verification[v]
  IN  row # Null =>
        /\ row.config \in referenced
        /\ config[row.config].tenant = row.tenant
        /\ row.account # Null => AccountFound(row.account, row.tenant)
        /\ \A p \in Registered : session[p][v] # Null => row.provider = p
        /\ row.status = "cancelled" /\ Behaviour[row.provider].remote
             => session[row.provider][v] = "cancelled"

AccountSound(a) ==
  account[a] # Null =>
    /\ verification[a] # Null
    /\ verification[a].status = "completed"
    /\ verification[a].tenant = account[a].tenant
    /\ verification[a].account \in {Null, a}

VerificationsInv ==
  /\ TypeOK
  /\ AssignmentsInv
  /\ \A r \in Requests : CallSound(r) /\ RowSound(r) /\ AccountSound(r)

-----------------------------------------------------------------------------
(* What a step of the request u owes to all the others: it stores nothing  *)
(* under their names, removes nothing, and changes a status only from an   *)
(* open one to cancelled.                                                  *)

RowsKept(u) ==
  \A v \in Requests :
    /\ v # u /\ verification[v] = Null => verification'[v] = Null
    /\ verification[v] # Null =>
         /\ verification'[v] # Null
         /\ verification'[v].tenant = verification[v].tenant
         /\ v # u => verification'[v].account = verification[v].account
         /\ \/ verification'[v].status = verification[v].status
            \/ /\ verification[v].status \in OpenStatus \cup {"cancelled"}
               /\ verification'[v].status = "cancelled"

AccountsKept(u) ==
  \A a \in Requests : (a # u \/ account[a] # Null) => account'[a] = account[a]

SessionsKept(u) ==
  \A p \in Registered, v \in Requests :
    /\ v # u \/ verification[v] # Null
         => (session[p][v] = Null => session'[p][v] = Null)
    /\ session[p][v] = "cancelled" => session'[p][v] = "cancelled"

ConfigsKept ==
  \A c \in ConfigIds :
    c < nextConfig =>
      /\ c < nextConfig'
      /\ config'[c] # Null =>
           config[c] # Null /\ config'[c].tenant = config[c].tenant

Kept(u) == RowsKept(u) /\ AccountsKept(u) /\ SessionsKept(u) /\ ConfigsKept

\* A step of one request leaves what is known of the other requests' locals.
LEMMA OthersKept ==
  ASSUME VerificationsInv, NEW u, Kept(u), NEW s \in Requests, s # u,
         request'[s] = request[s]
  PROVE  CallSound(s)'
<1> USE NullDataAssumption, NullAssumption DEF VerificationsInv, CallSound, Kept
<1> request[s] \in Request
  BY DEF TypeOK
<1>1. Shaped(s)'
  BY DEF Shaped
<1>2. Fresh(s)'
  BY DEF Fresh, RowsKept, AccountsKept, SessionsKept
<1>3. Reading(s)'
  <2>1. Shaped(s) /\ Reading(s)
    OBVIOUS
  <2>2. ASSUME NEW v \in Requests, Cancelled(v) PROVE Cancelled(v)'
    BY <2>2 DEF Cancelled, RowsKept
  <2>3. ASSUME NEW v \in Requests, NEW t, Visible(v, t) PROVE Visible(v, t)'
    BY <2>3 DEF Visible, RowsKept
  <2>4. InProgress(s)' <=> InProgress(s)
    BY DEF InProgress
  <2>5. QED
    BY <2>1, <2>2, <2>3, <2>4 DEF Shaped, Reading, Visible, RowsKept, SessionsKept,
       InProgress
<1>4. Creating(s)'
  <2>1. ASSUME NEW a \in Requests, NEW t, AccountFound(a, t)
        PROVE  AccountFound(a, t)'
    BY <2>1 DEF AccountFound, AccountsKept
  <2>2. QED
    BY <2>1 DEF Creating, Shaped, SessionsKept, ConfigsKept, Request
<1>5. Linking(s)'
  <2>1. ASSUME AccountFound(s, request[s].tenant)
        PROVE  AccountFound(s, request[s].tenant)'
    BY <2>1 DEF AccountFound, AccountsKept
  <2>2. QED
    BY <2>1 DEF Linking, RowsKept, AccountsKept, OpenStatus
<1>6. QED
  BY <1>1, <1>2, <1>3, <1>4, <1>5

(* A row or account that the step leaves alone stays sound.                *)
LEMMA RowKept ==
  ASSUME VerificationsInv, AssignmentsInv', NEW u, Kept(u),
         referenced \subseteq referenced',
         NEW v \in Requests, verification'[v] = verification[v]
  PROVE  RowSound(v)'
<1> USE NullDataAssumption, NullAssumption
    DEF VerificationsInv, Kept, RowsKept, AccountsKept, SessionsKept
<1> SUFFICES ASSUME verification[v] # Null PROVE RowSound(v)'
  BY DEF RowSound
<1> DEFINE row == verification[v]
<1>1. row \in Row /\ row.config \in referenced /\ config[row.config].tenant = row.tenant
  BY DEF RowSound, TypeOK
<1>2. row.config < nextConfig /\ config'[row.config] # Null
  BY <1>1 DEF AssignmentsInv, ReferencedConfigsExist, FreshIdsUnused, TypeOK,
     AssignmentsTypeOK, Row, ConfigIds, BoundAssumption
<1>3. config'[row.config].tenant = row.tenant
  BY <1>1, <1>2 DEF ConfigsKept, Row
<1>4. row.account # Null => AccountFound(row.account, row.tenant)'
  BY <1>1 DEF RowSound, AccountFound, Row
<1>5. \A p \in Registered : session'[p][v] # Null => row.provider = p
  BY DEF RowSound
<1>6. row.status = "cancelled" /\ Behaviour[row.provider].remote
        => session'[row.provider][v] = "cancelled"
  BY <1>1 DEF RowSound, Row
<1>7. QED
  BY <1>1, <1>3, <1>4, <1>5, <1>6 DEF RowSound

\* An account that the step leaves alone stays sound.
LEMMA AccountKept ==
  ASSUME VerificationsInv, NEW u, Kept(u), NEW a \in Requests, a # u
  PROVE  AccountSound(a)'
BY DEF VerificationsInv, Kept, RowsKept, AccountsKept, AccountSound, OpenStatus

(* A step of the request u, in three parts: what it does to itself, what   *)
(* to its own row and account, and that it keeps the rest.                 *)
LEMMA StepOfOne ==
  ASSUME VerificationsInv, TypeOK', AssignmentsInv', NEW u \in Requests, Kept(u),
         \A s \in Requests : s # u => request'[s] = request[s],
         referenced \subseteq referenced',
         \A v \in Requests : v # u => verification'[v] = verification[v] \/ RowSound(v)',
         CallSound(u)', RowSound(u)', AccountSound(u)'
  PROVE  VerificationsInv'
<1>1. ASSUME NEW s \in Requests, s # u
      PROVE  CallSound(s)' /\ RowSound(s)' /\ AccountSound(s)'
  BY <1>1, OthersKept, RowKept, AccountKept
<1>2. QED
  BY <1>1 DEF VerificationsInv

(* Most steps change no table at all.                                      *)
LEMMA QuietStep ==
  ASSUME VerificationsInv, TypeOK', AssignmentsInv', NEW u \in Requests,
         UNCHANGED <<verification, account, session, assignmentVars>>,
         \A s \in Requests : s # u => request'[s] = request[s],
         CallSound(u)'
  PROVE  VerificationsInv'
<1> USE DEF assignmentVars
<1>1. Kept(u)
  BY DEF Kept, RowsKept, AccountsKept, SessionsKept, ConfigsKept
<1>2. RowSound(u)' /\ AccountSound(u)'
  BY DEF VerificationsInv, RowSound, AccountSound, AccountFound
<1>3. QED
  BY <1>1, <1>2, StepOfOne

-----------------------------------------------------------------------------
(* The steps, one lemma each.                                              *)

\* A step outside the assignment tables keeps their invariant.
LEMMA AssignmentsAlone ==
  ASSUME VerificationsInv, UNCHANGED assignmentVars
  PROVE  AssignmentsInv' /\ AssignmentsTypeOK'
BY AssignmentsNext_Inv DEF VerificationsInv, AssignmentsInv

\* What moving to another await changes.
LEMMA GotoEffect ==
  ASSUME TypeOK, NEW r \in Requests, NEW pc \in PC, Goto(r, pc)
  PROVE  /\ request' \in [Requests -> Request]
         /\ \A s \in Requests : s # r => request'[s] = request[s]
         /\ request'[r] = [request[r] EXCEPT !.pc = pc]
<1> DEFINE q == [request[r] EXCEPT !.pc = pc]
<1>1. request \in [Requests -> Request] /\ request' = [request EXCEPT ![r] = q]
  BY DEF TypeOK, Goto
<1>2. q \in Request
  BY <1>1 DEF Request
<1>3. QED
  BY <1>1, <1>2

\* What answering a request changes.
LEMMA FinishEffect ==
  ASSUME TypeOK, NEW r \in Requests, NEW reply \in Reply, Finish(r, reply)
  PROVE  /\ request' \in [Requests -> Request]
         /\ \A s \in Requests : s # r => request'[s] = request[s]
         /\ request'[r] = [request[r] EXCEPT !.pc = "done", !.reply = reply]
<1> DEFINE q == [request[r] EXCEPT !.pc = "done", !.reply = reply]
<1>1. /\ request \in [Requests -> Request]
      /\ request' = [request EXCEPT ![r] = [[request[r] EXCEPT !.pc = "done"]
                                             EXCEPT !.reply = reply]]
  BY DEF TypeOK, Finish
<1>2. request[r] \in Request
  BY <1>1
<1>3. /\ q \in Request
      /\ q = [[request[r] EXCEPT !.pc = "done"] EXCEPT !.reply = reply]
  <2>1. [request[r] EXCEPT !.pc = "done"] \in Request
    BY <1>2 DEF Request, PC
  <2>2. [[request[r] EXCEPT !.pc = "done"] EXCEPT !.reply = reply] \in Request
    BY <2>1 DEF Request
  <2>3. q = [[request[r] EXCEPT !.pc = "done"] EXCEPT !.reply = reply]
    BY <1>2 DEF Request
  <2>4. QED
    BY <2>2, <2>3
<1>4. request' = [request EXCEPT ![r] = q]
  BY <1>1, <1>3
<1>5. QED
  BY <1>1, <1>3, <1>4

(* A request that ends without having written, cancel refused or failed,   *)
(* or a get or create that ends either way.                                *)
LEMMA QuietFinish ==
  ASSUME VerificationsInv, NEW r \in Requests, NEW reply \in Reply,
         Finish(r, reply),
         request[r].pc # "idle",
         request[r].op = "cancel" => reply # "ok",
         UNCHANGED <<verification, account, session, assignmentVars,
                     tenantActive, overdue>>,
         faults' \in 0..MaxFaults
  PROVE  VerificationsInv'
<1>1. TypeOK
  BY DEF VerificationsInv
<1>2. AssignmentsInv' /\ AssignmentsTypeOK'
  BY AssignmentsAlone
<1>3. /\ request' \in [Requests -> Request]
      /\ \A s \in Requests : s # r => request'[s] = request[s]
      /\ request'[r] = [request[r] EXCEPT !.pc = "done", !.reply = reply]
  BY <1>1, FinishEffect
<1>4. TypeOK'
  BY <1>1, <1>2, <1>3 DEF TypeOK
<1>5. CallSound(r)'
  <2> USE <1>3, NullDataAssumption DEF VerificationsInv, CallSound
  <2> request[r] \in Request
    BY <1>1 DEF TypeOK
  <2>1. Shaped(r)'
    BY DEF Shaped, Request
  <2>2. Fresh(r)'
    BY DEF Fresh, Request
  <2>3. Reading(r)'
    BY DEF Reading, InProgress, Request
  <2>4. Creating(r)' /\ Linking(r)'
    BY DEF Creating, Linking, Request
  <2>5. QED
    BY <2>1, <2>2, <2>3, <2>4
<1>6. QED
  BY <1>2, <1>3, <1>4, <1>5, QuietStep

\* The count of failures stays within its bound.
LEMMA FaultCounted == ASSUME TypeOK, Fault PROVE faults' \in 0..MaxFaults
BY FaultsAssumption DEF TypeOK, Fault

\* A rejected await keeps the invariant.
LEMMA Rejected_Inv ==
  ASSUME VerificationsInv, NEW r \in Requests, Rejected(r),
         InProgress(r),
         UNCHANGED <<verification, account, session, assignmentVars,
                     tenantActive, overdue>>,
         faults' \in 0..MaxFaults
  PROVE  VerificationsInv'
BY QuietFinish DEF Rejected, InProgress, Reply

\* createVerification up to validateTenant keeps the invariant.
LEMMA BeginCreate_Inv ==
  ASSUME VerificationsInv, NEW r \in Requests, BeginCreate(r),
         UNCHANGED assignmentVars
  PROVE  VerificationsInv'
<1>1. TypeOK /\ AssignmentsInv' /\ AssignmentsTypeOK'
  BY AssignmentsAlone DEF VerificationsInv
<1>2. PICK t \in Tenants, a \in Requests \cup {Null}, d \in Documents :
        request' = [request EXCEPT ![r] =
         [NoRequest EXCEPT
           !.op = "create", !.tenant = t, !.subject = a, !.document = d,
           !.pc = CASE ~tenantActive[t] -> "done"
                    [] tenantActive[t] /\ a = Null -> "select"
                    [] OTHER -> "account",
           !.reply = IF tenantActive[t] THEN Null ELSE "error"]]
  BY DEF BeginCreate
<1>3. /\ \A s \in Requests : s # r => request'[s] = request[s]
      /\ request'[r].op = "create"
      /\ request'[r].tenant = t
      /\ request'[r].subject = a
      /\ request'[r].document = d
      /\ \/ request'[r].pc = "done" /\ request'[r].reply = "error"
         \/ request'[r].pc = "select" /\ request'[r].reply = Null /\ a = Null
         \/ request'[r].pc = "account" /\ request'[r].reply = Null /\ a # Null
      /\ request'[r] \in Request
  BY <1>1, <1>2 DEF TypeOK, NoRequest, Request, PC, Reply
<1>4. TypeOK'
  BY <1>1, <1>2, <1>3 DEF TypeOK, BeginCreate
<1>5. CallSound(r)'
  <2> USE <1>1, <1>3, NullDataAssumption DEF VerificationsInv, CallSound
  <2>1. request[r].pc = "idle" /\ UNCHANGED <<verification, account, session>>
    BY DEF BeginCreate
  <2>2. QED
    BY <2>1 DEF Shaped, Fresh, Reading, Creating, Linking, InProgress
<1>6. QED
  BY <1>1, <1>3, <1>4, <1>5, QuietStep DEF BeginCreate

\* validateAccount keeps it.
LEMMA ValidateAccount_Inv ==
  ASSUME VerificationsInv, NEW r \in Requests, ValidateAccount(r),
         UNCHANGED assignmentVars
  PROVE  VerificationsInv'
<1>1. TypeOK /\ AssignmentsInv' /\ AssignmentsTypeOK'
  BY AssignmentsAlone DEF VerificationsInv
<1>2. CASE AccountFound(request[r].subject, request[r].tenant)
  <2>1. /\ request' \in [Requests -> Request]
        /\ \A s \in Requests : s # r => request'[s] = request[s]
        /\ request'[r] = [request[r] EXCEPT !.pc = "select"]
        /\ request[r] \in Request
    BY <1>1, <1>2, GotoEffect DEF ValidateAccount, PC, TypeOK
  <2>2. TypeOK'
    BY <1>1, <2>1 DEF TypeOK, ValidateAccount
  <2>3. CallSound(r)'
    BY <1>2, <2>1, NullDataAssumption
    DEF VerificationsInv, CallSound, ValidateAccount, Shaped, Fresh, Reading,
        Creating, Linking, InProgress, AccountFound, Request
  <2>4. QED
    BY <1>1, <2>1, <2>2, <2>3, QuietStep DEF ValidateAccount
<1>3. CASE ~AccountFound(request[r].subject, request[r].tenant)
  BY <1>1, <1>3, QuietFinish DEF ValidateAccount, Reply, TypeOK
<1>4. QED
  BY <1>2, <1>3

\* checkAndUpdateExpiration never fires: expires_at is not loaded.
LEMMA NothingExpires == \A v : ~IsExpired(v)
BY DEF IsExpired, LoadedColumns

\* A handler that starts with the read of a row knows only that row's status.
LEMMA BeginRead ==
  ASSUME VerificationsInv, NEW r \in Requests, NEW q \in Request,
         request[r].pc = "idle",
         request' = [request EXCEPT ![r] = q],
         UNCHANGED <<verification, account, session, assignmentVars,
                     tenantActive, overdue, faults>>,
         q.op \in {"get", "cancel"}, q.tenant \in Tenants, q.subject \in Requests,
         \/ q.pc = "done" /\ (q.op = "cancel" => q.reply # "ok")
         \/ /\ q.pc = "select" /\ q.reply = Null
            /\ Visible(q.subject, q.tenant)
            /\ verification[q.subject].status \in OpenStatus
  PROVE  VerificationsInv'
<1>1. TypeOK /\ AssignmentsInv' /\ AssignmentsTypeOK'
  BY AssignmentsAlone DEF VerificationsInv
<1>2. /\ \A s \in Requests : s # r => request'[s] = request[s]
      /\ request'[r] = q
  BY <1>1 DEF TypeOK
<1>3. TypeOK'
  BY <1>1, <1>2 DEF TypeOK
<1>4. CallSound(r)'
  <2> USE <1>2, NullDataAssumption DEF VerificationsInv, CallSound, Reply
  <2>1. Shaped(r)' /\ Fresh(r)' /\ Creating(r)' /\ Linking(r)'
    BY DEF Shaped, Fresh, Creating, Linking
  <2>2. Reading(r)'
    BY DEF Reading, InProgress, Visible
  <2>3. QED
    BY <2>1, <2>2
<1>5. QED
  BY <1>1, <1>2, <1>3, <1>4, QuietStep

\* getVerification up to its first decision keeps it.
LEMMA BeginGet_Inv ==
  ASSUME VerificationsInv, NEW r \in Requests, BeginGet(r),
         UNCHANGED assignmentVars
  PROVE  VerificationsInv'
<1>1. TypeOK
  BY DEF VerificationsInv
<1>2. PICK t \in Tenants, v \in Requests :
        \/ /\ ~Visible(v, t)
           /\ request' = [request EXCEPT ![r] =
                [[NoRequest EXCEPT !.op = "get", !.tenant = t, !.subject = v]
                   EXCEPT !.pc = "done", !.reply = "error"]]
           /\ UNCHANGED verification
        \/ /\ Visible(v, t)
           /\ UNCHANGED verification
           /\ request' = [request EXCEPT ![r] =
                IF verification[v].status \in OpenStatus
                  THEN [[NoRequest EXCEPT !.op = "get", !.tenant = t,
                                          !.subject = v]
                          EXCEPT !.seen = verification[v].status,
                                 !.pc = "select"]
                  ELSE [[NoRequest EXCEPT !.op = "get", !.tenant = t,
                                          !.subject = v]
                          EXCEPT !.seen = verification[v].status,
                                 !.pc = "done", !.reply = "ok"]]
  BY NothingExpires DEF BeginGet
<1>3. PICK q : /\ request' = [request EXCEPT ![r] = q]
               /\ q \in Request
               /\ q.op = "get" /\ q.tenant = t /\ q.subject = v
               /\ \/ q.pc = "done"
                  \/ /\ q.pc = "select" /\ q.reply = Null
                     /\ Visible(v, t)
                     /\ verification[v].status \in OpenStatus
  <2> DEFINE started == [NoRequest EXCEPT !.op = "get", !.tenant = t, !.subject = v]
             failed == [started EXCEPT !.pc = "done", !.reply = "error"]
             reads  == [started EXCEPT !.seen = verification[v].status, !.pc = "select"]
             ends   == [started EXCEPT !.seen = verification[v].status,
                                       !.pc = "done", !.reply = "ok"]
  <2>1. CASE ~Visible(v, t)
    <3>1. failed \in Request
      BY DEF NoRequest, Request, PC, Reply
    <3>2. failed.op = "get" /\ failed.tenant = t /\ failed.subject = v /\ failed.pc = "done"
      BY DEF NoRequest
    <3>3. QED
      BY <1>2, <2>1, <3>1, <3>2
  <2>2. CASE Visible(v, t) /\ verification[v].status \in OpenStatus
    <3>1. reads \in Request
      BY <2>2 DEF NoRequest, Request, PC, OpenStatus, Status
    <3>2. /\ reads.op = "get" /\ reads.tenant = t /\ reads.subject = v
          /\ reads.pc = "select" /\ reads.reply = Null
      BY DEF NoRequest
    <3>3. QED
      BY <1>2, <2>2, <3>1, <3>2
  <2>3. CASE Visible(v, t) /\ verification[v].status \notin OpenStatus
    <3>1. verification[v].status \in Status
      BY <1>1, <2>3 DEF TypeOK, Visible, Row
    <3>2. ends \in Request
      BY <3>1 DEF NoRequest, Request, PC, Reply
    <3>3. ends.op = "get" /\ ends.tenant = t /\ ends.subject = v /\ ends.pc = "done"
      BY DEF NoRequest
    <3>4. QED
      BY <1>2, <2>3, <3>2, <3>3
  <2>4. QED
    BY <2>1, <2>2, <2>3
<1>4. QED
  BY <1>2, <1>3, BeginRead, NullDataAssumption DEF BeginGet

\* cancelVerification up to its first decision keeps it.
LEMMA BeginCancel_Inv ==
  ASSUME VerificationsInv, NEW r \in Requests, BeginCancel(r),
         UNCHANGED assignmentVars
  PROVE  VerificationsInv'
<1>1. TypeOK
  BY DEF VerificationsInv
<1>2. PICK t \in Tenants, v \in Requests :
        request' = [request EXCEPT ![r] =
             IF Visible(v, t) /\ verification[v].status \in OpenStatus
               THEN [[NoRequest EXCEPT !.op = "cancel", !.tenant = t,
                                       !.subject = v]
                       EXCEPT !.seen = verification[v].status, !.pc = "select"]
               ELSE [[NoRequest EXCEPT !.op = "cancel", !.tenant = t,
                                       !.subject = v]
                       EXCEPT !.pc = "done", !.reply = "error"]]
  BY DEF BeginCancel
<1>3. PICK q : /\ request' = [request EXCEPT ![r] = q]
               /\ q \in Request
               /\ q.op = "cancel" /\ q.tenant = t /\ q.subject = v
               /\ \/ q.pc = "done" /\ q.reply = "error"
                  \/ /\ q.pc = "select" /\ q.reply = Null
                     /\ Visible(v, t)
                     /\ verification[v].status \in OpenStatus
  <2> DEFINE started == [NoRequest EXCEPT !.op = "cancel", !.tenant = t, !.subject = v]
             failed == [started EXCEPT !.pc = "done", !.reply = "error"]
             reads  == [started EXCEPT !.seen = verification[v].status, !.pc = "select"]
  <2>1. CASE ~(Visible(v, t) /\ verification[v].status \in OpenStatus)
    <3>1. failed \in Request
      BY DEF NoRequest, Request, PC, Reply
    <3>2. /\ failed.op = "cancel" /\ failed.tenant = t /\ failed.subject = v
          /\ failed.pc = "done" /\ failed.reply = "error"
      BY DEF NoRequest
    <3>3. QED
      BY <1>2, <2>1, <3>1, <3>2
  <2>2. CASE Visible(v, t) /\ verification[v].status \in OpenStatus
    <3>1. reads \in Request
      BY <2>2 DEF NoRequest, Request, PC, OpenStatus, Status
    <3>2. /\ reads.op = "cancel" /\ reads.tenant = t /\ reads.subject = v
          /\ reads.pc = "select" /\ reads.reply = Null
      BY DEF NoRequest
    <3>3. QED
      BY <1>2, <2>2, <3>1, <3>2
  <2>3. QED
    BY <2>1, <2>2
<1>4. QED
  BY <1>2, <1>3, BeginRead DEF BeginCancel

\* getProviderForTenant keeps it: the configuration found is the tenant's.
LEMMA SelectProvider_Inv ==
  ASSUME VerificationsInv, NEW r \in Requests, SelectProvider(r),
         UNCHANGED assignmentVars
  PROVE  VerificationsInv'
<1>1. TypeOK /\ AssignmentsInv' /\ AssignmentsTypeOK'
  BY AssignmentsAlone DEF VerificationsInv
<1>2. PICK c \in ConfigsOf(request[r].tenant) :
        /\ config[c].provider \in Registered
        /\ request' = [request EXCEPT ![r].pc = "call", ![r].config = c,
                                      ![r].provider = config[c].provider]
  BY DEF SelectProvider, Selection
<1>3. c \in ConfigIds /\ config[c] # Null /\ config[c].tenant = request[r].tenant
  BY DEF ConfigsOf
<1>4. c < nextConfig
  BY <1>3, BoundAssumption
  DEF VerificationsInv, AssignmentsInv, FreshIdsUnused, AssignmentsTypeOK, ConfigIds
<1> DEFINE q == [[[request[r] EXCEPT !.pc = "call"] EXCEPT !.config = c]
                   EXCEPT !.provider = config[c].provider]
<1>5. /\ request' = [request EXCEPT ![r] = q]
      /\ request[r] \in Request
  BY <1>1, <1>2 DEF TypeOK
<1>6. q \in Request
  BY <1>2, <1>3, <1>5 DEF Request, PC
<1>7. /\ \A s \in Requests : s # r => request'[s] = request[s]
      /\ request'[r] = q
  BY <1>1, <1>5, <1>6 DEF TypeOK
<1>8. TypeOK'
  BY <1>1, <1>5, <1>6 DEF TypeOK, SelectProvider
<1>9. CallSound(r)'
  <2>1. /\ request'[r].pc = "call" /\ request'[r].config = c
        /\ request'[r].provider = config[c].provider
        /\ request'[r].op = request[r].op /\ request'[r].tenant = request[r].tenant
        /\ request'[r].subject = request[r].subject
        /\ request'[r].document = request[r].document
        /\ request'[r].reply = request[r].reply
    <3>1. request[r] \in Request /\ request'[r] = q
      BY <1>5, <1>7
    <3>2. QED
      BY <3>1 DEF Request
  <2>2. request[r].pc = "select" /\ UNCHANGED <<verification, account, session>>
    BY DEF SelectProvider
  <2> USE <2>1, <2>2 DEF VerificationsInv, CallSound
  <2>3. Shaped(r)'
    BY <1>2, <1>3 DEF Shaped
  <2>4. Fresh(r)'
    BY DEF Fresh
  <2>5. Reading(r)'
    BY DEF Reading, InProgress, Visible, Cancelled
  <2>6. Creating(r)'
    BY <1>3, <1>4 DEF Creating, AccountFound, assignmentVars
  <2>7. Linking(r)'
    BY DEF Linking
  <2>8. QED
    BY <2>3, <2>4, <2>5, <2>6, <2>7
<1>10. QED
  BY <1>1, <1>7, <1>8, <1>9, QuietStep DEF SelectProvider

\* Handlers that end without writing a table keep it.
LEMMA QuietEnds_Inv ==
  ASSUME VerificationsInv, NEW r \in Requests,
         NoProvider(r) \/ CallFails(r) \/ QueryFails(r),
         UNCHANGED assignmentVars
  PROVE  VerificationsInv'
<1>1. TypeOK /\ (UNCHANGED faults => faults' \in 0..MaxFaults)
  BY DEF VerificationsInv, TypeOK
<1>2. CASE NoProvider(r)
  BY <1>1, <1>2, Rejected_Inv DEF NoProvider, InProgress
<1>3. CASE CallFails(r)
  BY <1>1, <1>3, Rejected_Inv, FaultCounted DEF CallFails, InProgress
<1>4. CASE QueryFails(r)
  <2>1. CASE request[r].pc \in {"save", "link"}
    <3>1. request[r].op = "create" /\ Finish(r, "ok")
      BY <1>4, <2>1 DEF QueryFails, VerificationsInv, CallSound, Shaped
    <3>2. QED
      BY <1>1, <1>4, <2>1, <3>1, QuietFinish, FaultCounted DEF QueryFails, Reply
  <2>2. CASE request[r].pc \notin {"save", "link"}
    BY <1>1, <1>4, <2>2, Rejected_Inv, FaultCounted DEF QueryFails, InProgress
  <2>3. QED
    BY <2>1, <2>2
<1>5. QED
  BY <1>2, <1>3, <1>4

\* getVerificationStatus of the provider keeps it.
LEMMA CallStatus_Inv ==
  ASSUME VerificationsInv, NEW r \in Requests, CallStatus(r),
         UNCHANGED assignmentVars
  PROVE  VerificationsInv'
<1>1. TypeOK /\ AssignmentsInv' /\ AssignmentsTypeOK' /\ faults' \in 0..MaxFaults
  BY AssignmentsAlone DEF VerificationsInv, TypeOK, CallStatus
<1> DEFINE p == request[r].provider
           v == request[r].subject
<1>2. /\ request[r].pc = "call" /\ request[r].op = "get" /\ InProgress(r)
      /\ p \in Registered /\ v \in Requests /\ session[p][v] \in Status \cup {Null}
  BY <1>1 DEF CallStatus, VerificationsInv, CallSound, Shaped, InProgress, TypeOK
<1>3. CASE session[p][v] = Null
  <2>1. Rejected(r)
    BY <1>3 DEF CallStatus, Rejected, Finish
  <2>2. QED
    BY <1>1, <1>2, <2>1, Rejected_Inv DEF CallStatus
<1>4. CASE session[p][v] # Null /\ session[p][v] = request[r].seen
  BY <1>1, <1>2, <1>4, QuietFinish DEF CallStatus, Reply
<1>5. CASE session[p][v] # Null /\ session[p][v] # request[r].seen
  <2> DEFINE s == session[p][v]
             q == [[request[r] EXCEPT !.pc = "store"] EXCEPT !.answer = s]
  <2>1. /\ request' = [request EXCEPT ![r] = q]
        /\ request[r] \in Request
    BY <1>1, <1>5 DEF CallStatus, TypeOK
  <2>2. q \in Request
    BY <1>2, <2>1 DEF Request, PC
  <2>3. /\ \A o \in Requests : o # r => request'[o] = request[o]
        /\ request'[r] = q
    BY <1>1, <2>1 DEF TypeOK
  <2>4. TypeOK'
    BY <1>1, <2>1, <2>2 DEF TypeOK, CallStatus
  <2>5. CallSound(r)'
    <3>1. /\ request'[r].pc = "store" /\ request'[r].answer = s
          /\ request'[r].op = "get"
          /\ request'[r].tenant = request[r].tenant
          /\ request'[r].subject = request[r].subject
          /\ request'[r].config = request[r].config
          /\ request'[r].provider = request[r].provider
          /\ request'[r].reply = request[r].reply
      <4>1. request[r] \in Request /\ request'[r] = q
        BY <2>1, <2>3
      <4>2. QED
        BY <1>2, <4>1 DEF Request
    <3> USE <1>2, <3>1 DEF VerificationsInv, CallSound, CallStatus
    <3>2. Shaped(r)' /\ Fresh(r)' /\ Creating(r)' /\ Linking(r)'
      BY <1>5 DEF Shaped, Fresh, Creating, Linking
    <3>3. Reading(r)'
      BY DEF Reading, InProgress, Visible
    <3>4. QED
      BY <3>2, <3>3
  <2>6. QED
    BY <1>1, <2>3, <2>4, <2>5, QuietStep DEF CallStatus
<1>6. QED
  BY <1>3, <1>4, <1>5

\* The UPDATE of updateVerificationStatus names columns the table has not.
LEMMA StatusUpdateRejected ==
  \A v, s : UpdateVerificationStatus(v, s) = verification
<1>1. "result_data" \in StatusUpdateColumns /\ "result_data" \notin VerificationColumns
  BY DEF StatusUpdateColumns, VerificationColumns
<1>2. QED
  BY <1>1 DEF UpdateVerificationStatus

\* The write of getVerification keeps it, because it is rejected.
LEMMA StoreStatus_Inv ==
  ASSUME VerificationsInv, NEW r \in Requests, StoreStatus(r),
         UNCHANGED assignmentVars
  PROVE  VerificationsInv'
BY StatusUpdateRejected, QuietFinish
DEF StoreStatus, Reply, VerificationsInv, TypeOK

(* The sessions after the provider p created one for r.                    *)
LEMMA SessionCreated ==
  ASSUME VerificationsInv, NEW r \in Requests, NEW p \in Registered,
         NEW s \in Status,
         request[r].op = "create", request[r].pc = "call",
         session' = [session EXCEPT ![p][r] = s],
         UNCHANGED <<verification, account, assignmentVars>>
  PROVE  /\ session' \in [Registered -> [Requests -> Status \cup {Null}]]
         /\ \A x \in Registered : session'[x][r] # Null => x = p
         /\ session'[p][r] = s
         /\ Kept(r)
         /\ verification'[r] = Null /\ account'[r] = Null
<1>1. /\ session \in [Registered -> [Requests -> Status \cup {Null}]]
      /\ verification[r] = Null /\ account[r] = Null
      /\ \A x \in Registered : session[x][r] = Null
  BY DEF VerificationsInv, TypeOK, CallSound, Fresh
<1>2. /\ session' \in [Registered -> [Requests -> Status \cup {Null}]]
      /\ \A x \in Registered, v \in Requests :
           v # r \/ x # p => session'[x][v] = session[x][v]
  BY <1>1
<1>3. Kept(r)
  BY <1>1, <1>2, NullDataAssumption
  DEF Kept, RowsKept, AccountsKept, SessionsKept, ConfigsKept, assignmentVars, Status
<1>4. QED
  BY <1>1, <1>2, <1>3

\* A provider reports statuses when it creates a verification.
LEMMA InitialStatuses ==
  \A p \in Registered : Behaviour[p].initial \subseteq Status
BY BehaviourAssumption DEF ProviderBehaviour

\* createVerification of the provider keeps it: the session is new.
LEMMA CallCreate_Inv ==
  ASSUME VerificationsInv, NEW r \in Requests, CallCreate(r),
         UNCHANGED assignmentVars
  PROVE  VerificationsInv'
<1>1. TypeOK /\ AssignmentsInv' /\ AssignmentsTypeOK'
  BY AssignmentsAlone DEF VerificationsInv
<1> DEFINE p == request[r].provider
<1>2. /\ request[r].pc = "call" /\ request[r].op = "create"
      /\ p \in Registered
  BY DEF CallCreate, VerificationsInv, CallSound, Shaped
<1>3. PICK s \in Status :
        /\ session' = [session EXCEPT ![p][r] = s]
        /\ request' = [request EXCEPT ![r].pc = "store", ![r].answer = s]
  BY <1>2, InitialStatuses DEF CallCreate
<1>4. /\ session' \in [Registered -> [Requests -> Status \cup {Null}]]
      /\ \A x \in Registered : session'[x][r] # Null => x = p
      /\ session'[p][r] = s
      /\ Kept(r)
      /\ verification'[r] = Null /\ account'[r] = Null
  BY <1>2, <1>3, SessionCreated DEF CallCreate
<1> DEFINE q == [[request[r] EXCEPT !.pc = "store"] EXCEPT !.answer = s]
<1>5. /\ request' = [request EXCEPT ![r] = q]
      /\ request[r] \in Request
  BY <1>1, <1>3 DEF TypeOK
<1>6. q \in Request
  BY <1>5 DEF Request, PC
<1>7. /\ \A o \in Requests : o # r => request'[o] = request[o]
      /\ request'[r] = q
  BY <1>1, <1>5 DEF TypeOK
<1>8. TypeOK'
  BY <1>1, <1>4, <1>5, <1>6 DEF TypeOK, CallCreate
<1>9. CallSound(r)'
  <2>1. /\ request'[r].pc = "store" /\ request'[r].answer = s
        /\ request'[r].op = "create"
        /\ request'[r].tenant = request[r].tenant
        /\ request'[r].subject = request[r].subject
        /\ request'[r].document = request[r].document
        /\ request'[r].config = request[r].config
        /\ request'[r].provider = request[r].provider
        /\ request'[r].reply = request[r].reply
    <3>1. request[r] \in Request /\ request'[r] = q
      BY <1>5, <1>7
    <3>2. QED
      BY <1>2, <3>1 DEF Request
  <2> USE <1>2, <1>4, <2>1 DEF VerificationsInv, CallSound
  <2>2. Shaped(r)' /\ Fresh(r)' /\ Linking(r)'
    BY DEF Shaped, Fresh, Linking
  <2>3. Reading(r)'
    BY DEF Reading
  <2>4. Creating(r)'
    <3>1. UNCHANGED <<account, config, nextConfig>>
      BY DEF CallCreate, assignmentVars
    <3>2. Creating(r)
      OBVIOUS
    <3>3. QED
      BY <3>1, <3>2 DEF Creating, AccountFound
  <2>5. QED
    BY <2>2, <2>3, <2>4
<1>10. RowSound(r)' /\ AccountSound(r)'
  BY <1>4 DEF RowSound, AccountSound
<1>11. QED
  BY <1>1, <1>4, <1>7, <1>8, <1>9, <1>10, StepOfOne DEF CallCreate, assignmentVars

(* The sessions after the provider p cancelled one for the request r.      *)
LEMMA SessionCancelled ==
  ASSUME VerificationsInv, NEW r \in Requests, NEW p \in Registered,
         NEW v \in Requests, Agrees(p, v), request[r].op = "cancel",
         session' = [session EXCEPT ![p][v] = "cancelled"],
         UNCHANGED <<verification, account, assignmentVars>>
  PROVE  /\ session' \in [Registered -> [Requests -> Status \cup {Null}]]
         /\ session'[p][v] = "cancelled"
         /\ \A x \in Registered : session'[x][r] = Null
         /\ Kept(r)
         /\ verification'[r] = Null /\ account'[r] = Null
<1>1. /\ session \in [Registered -> [Requests -> Status \cup {Null}]]
      /\ verification[r] = Null /\ account[r] = Null
      /\ \A x \in Registered : session[x][r] = Null
  BY DEF VerificationsInv, TypeOK, CallSound, Fresh
<1>2. session[p][v] # Null
  BY BehaviourAssumption, NullDataAssumption
  DEF Agrees, ProviderBehaviour, OpenStatus, Status
<1>3. /\ session' \in [Registered -> [Requests -> Status \cup {Null}]]
      /\ session'[p][v] = "cancelled"
      /\ \A x \in Registered, w \in Requests :
           w # v \/ x # p => session'[x][w] = session[x][w]
  BY <1>1 DEF Status
<1>4. Kept(r)
  BY <1>1, <1>2, <1>3
  DEF Kept, RowsKept, AccountsKept, SessionsKept, ConfigsKept, assignmentVars
<1>5. QED
  BY <1>1, <1>2, <1>3, <1>4

\* cancelVerification of the provider keeps it.
LEMMA CallCancel_Inv ==
  ASSUME VerificationsInv, NEW r \in Requests, CallCancel(r),
         UNCHANGED assignmentVars
  PROVE  VerificationsInv'
<1>1. TypeOK /\ AssignmentsInv' /\ AssignmentsTypeOK' /\ faults' \in 0..MaxFaults
  BY AssignmentsAlone DEF VerificationsInv, TypeOK, CallCancel
<1> DEFINE p == request[r].provider
           v == request[r].subject
<1>2. /\ request[r].pc = "call" /\ request[r].op = "cancel" /\ InProgress(r)
      /\ p \in Registered /\ v \in Requests
  BY DEF CallCancel, VerificationsInv, CallSound, Shaped, InProgress
<1>3. CASE ~Agrees(p, v)
  BY <1>1, <1>2, <1>3, QuietFinish DEF CallCancel, Reply
<1>4. CASE Agrees(p, v)
  <2>1. /\ session' = [session EXCEPT ![p][v] = "cancelled"]
        /\ Goto(r, "store")
    BY <1>4 DEF CallCancel
  <2>2. /\ session' \in [Registered -> [Requests -> Status \cup {Null}]]
        /\ session'[p][v] = "cancelled"
        /\ \A x \in Registered : session'[x][r] = Null
        /\ Kept(r)
        /\ verification'[r] = Null /\ account'[r] = Null
    BY <1>2, <1>4, <2>1, SessionCancelled DEF CallCancel
  <2>3. /\ request' \in [Requests -> Request]
        /\ \A s \in Requests : s # r => request'[s] = request[s]
        /\ request'[r] = [request[r] EXCEPT !.pc = "store"]
        /\ request[r] \in Request
    BY <1>1, <2>1, GotoEffect DEF PC, TypeOK
  <2>4. TypeOK'
    BY <1>1, <2>2, <2>3 DEF TypeOK, CallCancel
  <2>5. CallSound(r)'
    <3>1. /\ request'[r].pc = "store"
          /\ request'[r].op = "cancel"
          /\ request'[r].tenant = request[r].tenant
          /\ request'[r].subject = request[r].subject
          /\ request'[r].config = request[r].config
          /\ request'[r].provider = request[r].provider
          /\ request'[r].reply = request[r].reply
      BY <1>2, <2>3 DEF Request
    <3> USE <1>2, <2>2, <3>1, NullDataAssumption
        DEF VerificationsInv, CallSound, CallCancel, Reply
    <3>2. Shaped(r)'
      BY DEF Shaped
    <3>3. Fresh(r)' /\ Creating(r)' /\ Linking(r)'
      BY DEF Fresh, Creating, Linking
    <3>4. Reading(r)'
      <4>1. Visible(v, request[r].tenant)'
        BY DEF Reading, Visible
      <4>2. verification'[v].status \in OpenStatus \cup {"cancelled"}
        BY DEF Reading
      <4>3. request'[r].reply = Null
        BY DEF Shaped
      <4>4. QED
        BY <4>1, <4>2, <4>3 DEF Reading
    <3>5. QED
      BY <3>2, <3>3, <3>4
  <2>6. RowSound(r)' /\ AccountSound(r)'
    BY <2>2 DEF RowSound, AccountSound
  <2>7. QED
    BY <1>1, <2>2, <2>3, <2>4, <2>5, <2>6, StepOfOne DEF CallCancel, assignmentVars
<1>5. QED
  BY <1>3, <1>4

\* A provider that acts and whose answer is lost keeps it.
LEMMA AnswerLost_Inv ==
  ASSUME VerificationsInv, NEW r \in Requests, AnswerLost(r),
         UNCHANGED assignmentVars
  PROVE  VerificationsInv'
<1>1. TypeOK /\ AssignmentsInv' /\ AssignmentsTypeOK' /\ faults' \in 0..MaxFaults
  BY AssignmentsAlone, FaultCounted DEF VerificationsInv, AnswerLost
<1> DEFINE p == request[r].provider
           v == request[r].subject
<1>2. /\ request[r].pc = "call" /\ request[r].op \in {"create", "cancel"}
      /\ p \in Registered
      /\ request[r].op = "cancel" => v \in Requests
  BY DEF AnswerLost, VerificationsInv, CallSound, Shaped
<1>3. /\ session' \in [Registered -> [Requests -> Status \cup {Null}]]
      /\ request[r].op = "cancel" => \A x \in Registered : session'[x][r] = Null
      /\ Kept(r)
      /\ verification'[r] = Null /\ account'[r] = Null
  <2>1. CASE request[r].op = "create"
    <3>1. PICK s \in Status : session' = [session EXCEPT ![p][r] = s]
      BY <1>2, <2>1, InitialStatuses DEF AnswerLost
    <3>2. request[r].pc = "call" /\ UNCHANGED <<verification, account>>
      BY DEF AnswerLost
    <3>3. QED
      BY <1>2, <2>1, <3>1, <3>2, SessionCreated
  <2>2. CASE request[r].op = "cancel"
    BY <1>2, <2>2, SessionCancelled DEF AnswerLost
  <2>3. QED
    BY <1>2, <2>1, <2>2
<1>4. /\ request' \in [Requests -> Request]
      /\ \A s \in Requests : s # r => request'[s] = request[s]
      /\ request'[r] = [request[r] EXCEPT !.pc = "done", !.reply = "error"]
      /\ request[r] \in Request
  BY <1>1, <1>2, FinishEffect DEF AnswerLost, Rejected, Reply, TypeOK
<1>5. TypeOK'
  BY <1>1, <1>3, <1>4 DEF TypeOK, AnswerLost
<1>6. CallSound(r)'
  <2>1. /\ request'[r].pc = "done" /\ request'[r].reply = "error"
        /\ request'[r].op = request[r].op
        /\ request'[r].tenant = request[r].tenant
        /\ request'[r].subject = request[r].subject
        /\ request'[r].document = request[r].document
    BY <1>4 DEF Request
  <2> USE <1>2, <1>3, <2>1 DEF VerificationsInv, CallSound
  <2>2. Shaped(r)'
    BY DEF Shaped
  <2>3. Fresh(r)'
    BY NullDataAssumption DEF Fresh
  <2>4. Creating(r)' /\ Linking(r)'
    BY DEF Creating, Linking
  <2>5. Reading(r)'
    BY DEF Reading, InProgress
  <2>6. QED
    BY <2>2, <2>3, <2>4, <2>5
<1>7. RowSound(r)' /\ AccountSound(r)'
  BY <1>3 DEF RowSound, AccountSound
<1>8. QED
  BY <1>1, <1>3, <1>4, <1>5, <1>6, <1>7, StepOfOne DEF AnswerLost, assignmentVars

\* storeVerification keeps it, whatever happened to the configuration.
LEMMA StoreCreate_Inv ==
  ASSUME VerificationsInv, NEW r \in Requests, StoreCreate(r)
  PROVE  VerificationsInv'
<1> DEFINE q == request[r]
<1>1. TypeOK /\ q \in Request /\ faults' \in 0..MaxFaults
  BY DEF VerificationsInv, TypeOK, StoreCreate
<1>2. /\ q.pc = "store" /\ q.op = "create"
      /\ q.tenant \in Tenants /\ q.provider \in Registered
      /\ q.config \in ConfigIds /\ q.answer \in Status
      /\ q.reply = Null /\ q.document \in Documents
  BY DEF VerificationsInv, CallSound, Shaped, StoreCreate
<1>3. CASE config[q.config] = Null
  BY <1>1, <1>2, <1>3, QuietFinish DEF StoreCreate, Reply
<1>4. CASE config[q.config] # Null
  <2>1. /\ verification' = [verification EXCEPT ![r] = NewRow(q)]
        /\ StoreReference(q.config)
        /\ (AccountDue(q) /\ Goto(r, "save")) \/ Finish(r, "ok")
        /\ UNCHANGED <<tenantActive, account, session, overdue, faults>>
    BY <1>4 DEF StoreCreate
  <2>2. AssignmentsInv' /\ AssignmentsTypeOK'
    BY <1>2, <2>1, AssignmentsNext_Inv
    DEF VerificationsInv, AssignmentsNext, AssignmentsInv
  <2>3. /\ UNCHANGED <<config, nextConfig>>
        /\ referenced' = referenced \cup {q.config}
    BY <2>1 DEF StoreReference, adminVars
  <2>4. /\ verification[r] = Null /\ account[r] = Null
        /\ verification \in [Requests -> Row \cup {Null}]
    BY <1>1, <1>2 DEF VerificationsInv, CallSound, Fresh, TypeOK
  <2>5. NewRow(q) \in Row
    BY <1>1, <1>2 DEF NewRow, Row, Request
  <2>6. /\ verification' \in [Requests -> Row \cup {Null}]
        /\ verification'[r] = NewRow(q)
        /\ \A v \in Requests : v # r => verification'[v] = verification[v]
    BY <2>1, <2>4, <2>5
  <2>7. Kept(r)
    BY <2>1, <2>3, <2>4, <2>6
    DEF Kept, RowsKept, AccountsKept, SessionsKept, ConfigsKept
  <2>8. RowSound(r)'
    <3>1. /\ verification'[r].tenant = q.tenant /\ verification'[r].config = q.config
          /\ verification'[r].account = q.subject
          /\ verification'[r].provider = q.provider
          /\ verification'[r].status = q.answer
      BY <2>6 DEF NewRow
    <3>2. Creating(r)
      BY DEF VerificationsInv, CallSound
    <3>3. config'[q.config].tenant = q.tenant /\ q.config \in referenced'
      BY <1>2, <1>4, <2>3, <3>2 DEF Creating
    <3>4. q.subject # Null => /\ account'[q.subject] # Null
                              /\ account'[q.subject].tenant = q.tenant
      <4>1. UNCHANGED account
        BY <2>1
      <4>2. QED
        BY <1>2, <3>2, <4>1 DEF Creating, AccountFound
    <3>5. /\ \A p \in Registered : session'[p][r] # Null => q.provider = p
          /\ q.answer = "cancelled" => session'[q.provider][r] = "cancelled"
      BY <1>2, <2>1, <3>2 DEF Creating
    <3>6. QED
      BY <3>1, <3>3, <3>4, <3>5 DEF RowSound, AccountFound
  <2>9. AccountSound(r)'
    BY <2>1, <2>4 DEF AccountSound
  <2>10. /\ request' \in [Requests -> Request]
         /\ \A s \in Requests : s # r => request'[s] = request[s]
         /\ \/ AccountDue(q) /\ request'[r] = [q EXCEPT !.pc = "save"]
            \/ request'[r] = [q EXCEPT !.pc = "done", !.reply = "ok"]
    BY <1>1, <2>1, GotoEffect, FinishEffect DEF PC, Reply
  <2>11. TypeOK'
    BY <1>1, <2>1, <2>2, <2>6, <2>10 DEF TypeOK
  <2>12. CallSound(r)'
    <3>1. /\ request'[r].op = "create"
          /\ request'[r].tenant = q.tenant
          /\ request'[r].document = q.document
          /\ \/ request'[r].pc = "save" /\ request'[r].reply = Null /\ AccountDue(q)
             \/ request'[r].pc = "done"
      <4>1. q \in Request
        BY <1>1
      <4>2. CASE AccountDue(q) /\ request'[r] = [q EXCEPT !.pc = "save"]
        BY <1>2, <4>1, <4>2 DEF Request
      <4>3. CASE request'[r] = [q EXCEPT !.pc = "done", !.reply = "ok"]
        BY <1>2, <4>1, <4>3 DEF Request
      <4>4. QED
        BY <2>10, <4>2, <4>3
    <3>2. Shaped(r)'
      BY <1>2, <3>1 DEF Shaped
    <3>3. Fresh(r)' /\ Reading(r)' /\ Creating(r)'
      BY <3>1 DEF Fresh, Reading, Creating
    <3>4. Linking(r)'
      BY <2>1, <2>4, <2>6, <3>1, <2>5, NullDataAssumption
      DEF Linking, NewRow, AccountDue
    <3>5. QED
      BY <3>2, <3>3, <3>4 DEF CallSound
  <2>13. QED
    BY <1>1, <2>2, <2>3, <2>6, <2>7, <2>8, <2>9, <2>10, <2>11, <2>12, StepOfOne
<1>5. QED
  BY <1>3, <1>4

\* Saving the account of a completed verification keeps it.
LEMMA SaveAccount_Inv ==
  ASSUME VerificationsInv, NEW r \in Requests, SaveAccount(r),
         UNCHANGED assignmentVars
  PROVE  VerificationsInv'
<1> DEFINE q == request[r]
           new == [tenant |-> q.tenant, reference |-> q.document]
<1>1. TypeOK /\ AssignmentsInv' /\ AssignmentsTypeOK' /\ q \in Request
  BY AssignmentsAlone DEF VerificationsInv, TypeOK
<1>2. /\ q.pc = "save" /\ q.op = "create"
      /\ q.tenant \in Tenants /\ q.document \in Documents /\ q.reply = Null
      /\ verification[r] # Null /\ verification[r].status = "completed"
      /\ verification[r].tenant = q.tenant /\ verification[r].account = Null
      /\ account[r] = Null
  BY DEF VerificationsInv, CallSound, Shaped, Linking, SaveAccount
<1>3. new \in Account /\ new # Null
  BY <1>2, NullDataAssumption DEF Account
<1>4. /\ account' \in [Requests -> Account \cup {Null}]
      /\ account'[r] = new
      /\ \A a \in Requests : a # r => account'[a] = account[a]
  BY <1>1, <1>3 DEF SaveAccount, TypeOK
<1>5. Kept(r)
  BY <1>2, <1>4
  DEF Kept, RowsKept, AccountsKept, SessionsKept, ConfigsKept, SaveAccount,
      assignmentVars
<1>6. RowSound(r)' /\ AccountSound(r)'
  BY <1>1, <1>2, <1>3, <1>4, <1>5, RowKept DEF AccountSound, SaveAccount, assignmentVars
<1>7. /\ request' \in [Requests -> Request]
      /\ \A s \in Requests : s # r => request'[s] = request[s]
      /\ request'[r] = [q EXCEPT !.pc = "link"]
  BY <1>1, GotoEffect DEF PC, SaveAccount
<1>8. TypeOK'
  BY <1>1, <1>4, <1>7 DEF TypeOK, SaveAccount
<1>9. CallSound(r)'
  <2>1. /\ request'[r].op = "create" /\ request'[r].pc = "link"
        /\ request'[r].tenant = q.tenant /\ request'[r].document = q.document
        /\ request'[r].reply = Null
    BY <1>1, <1>2, <1>7 DEF Request
  <2>2. Shaped(r)' /\ Fresh(r)' /\ Reading(r)' /\ Creating(r)'
    BY <1>2, <2>1 DEF Shaped, Fresh, Reading, Creating
  <2>3. Linking(r)'
    BY <1>2, <1>3, <1>4, <2>1 DEF Linking, AccountFound, SaveAccount
  <2>4. QED
    BY <2>2, <2>3 DEF CallSound
<1>10. QED
  BY <1>1, <1>5, <1>6, <1>7, <1>8, <1>9, StepOfOne DEF SaveAccount, assignmentVars

\* Linking the row to the account keeps it.
LEMMA LinkAccount_Inv ==
  ASSUME VerificationsInv, NEW r \in Requests, LinkAccount(r),
         UNCHANGED assignmentVars
  PROVE  VerificationsInv'
<1> DEFINE q == request[r]
           new == [verification[r] EXCEPT !.account = r]
<1>1. TypeOK /\ AssignmentsInv' /\ AssignmentsTypeOK' /\ q \in Request
  BY AssignmentsAlone DEF VerificationsInv, TypeOK
<1>2. /\ q.pc = "link" /\ q.op = "create" /\ q.tenant \in Tenants
      /\ q.document \in Documents
      /\ verification[r] \in Row /\ verification[r].status = "completed"
      /\ verification[r].tenant = q.tenant
      /\ AccountFound(r, q.tenant)
  BY <1>1 DEF VerificationsInv, CallSound, Shaped, Linking, LinkAccount, TypeOK
<1>3. /\ new \in Row /\ new # Null /\ new.account = r
      /\ new.tenant = verification[r].tenant /\ new.status = verification[r].status
      /\ new.config = verification[r].config
      /\ new.provider = verification[r].provider
  BY <1>2, NullDataAssumption DEF Row
<1>4. /\ verification' \in [Requests -> Row \cup {Null}]
      /\ verification'[r] = new
      /\ \A v \in Requests : v # r => verification'[v] = verification[v]
  BY <1>1, <1>3 DEF LinkAccount, TypeOK
<1>5. Kept(r)
  BY <1>2, <1>3, <1>4, NullDataAssumption
  DEF Kept, RowsKept, AccountsKept, SessionsKept, ConfigsKept, LinkAccount,
      assignmentVars
<1>6. RowSound(r)'
  <2>1. RowSound(r) /\ verification[r] # Null
    BY <1>2, NullDataAssumption DEF VerificationsInv
  <2>2. UNCHANGED <<account, session, config, referenced>>
    BY DEF LinkAccount, assignmentVars
  <2>3. QED
    BY <1>2, <1>3, <1>4, <2>1, <2>2 DEF RowSound, AccountFound
<1>7. AccountSound(r)'
  BY <1>2, <1>3, <1>4 DEF AccountSound, AccountFound, LinkAccount
<1>8. /\ request' \in [Requests -> Request]
      /\ \A s \in Requests : s # r => request'[s] = request[s]
      /\ request'[r] = [q EXCEPT !.pc = "done", !.reply = "ok"]
  BY <1>1, FinishEffect DEF Reply, LinkAccount
<1>9. TypeOK'
  BY <1>1, <1>4, <1>8 DEF TypeOK, LinkAccount
<1>10. CallSound(r)'
  <2>1. /\ request'[r].op = "create" /\ request'[r].pc = "done"
        /\ request'[r].tenant = q.tenant /\ request'[r].document = q.document
    BY <1>1, <1>2, <1>8 DEF Request
  <2>2. QED
    BY <1>2, <2>1 DEF CallSound, Shaped, Fresh, Reading, Creating, Linking
<1>11. QED
  BY <1>1, <1>4, <1>5, <1>6, <1>7, <1>8, <1>9, <1>10, StepOfOne
  DEF LinkAccount, assignmentVars

\* The UPDATE to cancelled keeps it: the provider holds a cancelled session.
LEMMA StoreCancel_Inv ==
  ASSUME VerificationsInv, NEW r \in Requests, StoreCancel(r),
         UNCHANGED assignmentVars
  PROVE  VerificationsInv'
<1> PICK v : v = request[r].subject
  OBVIOUS
<1> DEFINE q == request[r]
           new == [verification[v] EXCEPT !.status = "cancelled"]
<1>1. TypeOK /\ AssignmentsInv' /\ AssignmentsTypeOK' /\ q \in Request
  BY AssignmentsAlone DEF VerificationsInv, TypeOK
<1>2. /\ q.pc = "store" /\ q.op = "cancel" /\ q.tenant \in Tenants
      /\ v \in Requests /\ q.provider \in Registered
      /\ verification[r] = Null /\ account[r] = Null
  BY DEF VerificationsInv, CallSound, Shaped, Fresh, StoreCancel
<1>3. /\ verification[v] \in Row
      /\ verification[v].status \in OpenStatus \cup {"cancelled"}
      /\ session[q.provider][v] = "cancelled"
  BY <1>1, <1>2 DEF VerificationsInv, CallSound, Reading, InProgress, Visible, TypeOK
<1>4. v # r
  BY <1>2, <1>3, NullDataAssumption
<1>5. /\ new \in Row /\ new # Null /\ new.status = "cancelled"
      /\ new.tenant = verification[v].tenant
      /\ new.config = verification[v].config
      /\ new.provider = verification[v].provider
      /\ new.account = verification[v].account
  BY <1>3, NullDataAssumption DEF Row, Status
<1>6. /\ verification' \in [Requests -> Row \cup {Null}]
      /\ verification'[v] = new
      /\ \A w \in Requests : w # v => verification'[w] = verification[w]
  BY <1>1, <1>2, <1>5 DEF StoreCancel, CancelRow, TypeOK
<1>7. UNCHANGED <<account, session, config, nextConfig, referenced>>
  BY DEF StoreCancel, assignmentVars
<1>8. Kept(r)
  <2>1. verification[v] # Null
    BY <1>3, NullDataAssumption
  <2>2. RowsKept(r)
    <3>1. SUFFICES ASSUME NEW w \in Requests
                   PROVE  RowsKept(r)!(w)
      BY DEF RowsKept
    <3>2. CASE w = v
      BY <1>3, <1>5, <1>6, <2>1, <3>2
    <3>3. CASE w # v
      BY <1>6, <3>3
    <3>4. QED
      BY <3>2, <3>3
  <2>3. AccountsKept(r) /\ SessionsKept(r) /\ ConfigsKept
    BY <1>7 DEF AccountsKept, SessionsKept, ConfigsKept
  <2>4. QED
    BY <2>2, <2>3 DEF Kept
<1>9. RowSound(v)'
  <2>1. RowSound(v) /\ verification[v] # Null
    BY <1>2, <1>3, NullDataAssumption DEF VerificationsInv
  <2>2. verification[v].provider = q.provider
    BY <1>2, <1>3, <2>1, NullDataAssumption DEF RowSound, Status
  <2>3. /\ new.config \in referenced /\ config[new.config].tenant = new.tenant
        /\ new.account # Null => AccountFound(new.account, new.tenant)
        /\ \A p \in Registered : session[p][v] # Null => new.provider = p
        /\ session[new.provider][v] = "cancelled"
    BY <1>3, <1>5, <2>1, <2>2 DEF RowSound
  <2>4. verification'[v] = new
    BY <1>6
  <2>5. QED
    BY <1>7, <2>3, <2>4 DEF RowSound, AccountFound
<1>10. RowSound(r)' /\ AccountSound(r)'
  BY <1>2, <1>4, <1>6, <1>7 DEF RowSound, AccountSound
<1>11. /\ request' \in [Requests -> Request]
       /\ \A s \in Requests : s # r => request'[s] = request[s]
       /\ request'[r] = [q EXCEPT !.pc = "done", !.reply = "ok"]
  BY <1>1, FinishEffect DEF Reply, StoreCancel
<1>12. TypeOK'
  BY <1>1, <1>6, <1>11 DEF TypeOK, StoreCancel
<1>13. CallSound(r)'
  <2>1. /\ request'[r].op = "cancel" /\ request'[r].pc = "done"
        /\ request'[r].tenant = q.tenant /\ request'[r].subject = v
    BY <1>1, <1>2, <1>11 DEF Request
  <2>2. Shaped(r)' /\ Creating(r)' /\ Linking(r)'
    BY <1>2, <2>1 DEF Shaped, Creating, Linking
  <2>3. Fresh(r)'
    BY <1>2, <1>4, <1>6, <1>7, <2>1 DEF VerificationsInv, CallSound, Fresh
  <2>4. Reading(r)'
    BY <1>5, <1>6, <2>1 DEF Reading, InProgress, Cancelled
  <2>5. QED
    BY <2>2, <2>3, <2>4 DEF CallSound
<1>14. QED
  BY <1>1, <1>6, <1>7, <1>8, <1>9, <1>10, <1>11, <1>12, <1>13, StepOfOne

(* Steps of nobody: the environment and the admin calls.                   *)
LEMMA StepOfNone ==
  ASSUME VerificationsInv, TypeOK', AssignmentsInv', Kept(Null),
         UNCHANGED <<request, verification, referenced>>
  PROVE  VerificationsInv'
<1>1. ASSUME NEW s \in Requests
      PROVE  CallSound(s)' /\ RowSound(s)' /\ AccountSound(s)'
  BY <1>1, OthersKept, RowKept, AccountKept, NullDataAssumption
<1>2. QED
  BY <1>1 DEF VerificationsInv

\* The providers, the clock and updateTenant keep it.
LEMMA Environment_Inv ==
  ASSUME VerificationsInv, Environment, UNCHANGED assignmentVars
  PROVE  VerificationsInv'
<1>1. TypeOK /\ AssignmentsInv' /\ AssignmentsTypeOK'
  BY AssignmentsAlone DEF VerificationsInv
<1>2. ASSUME NEW t \in Tenants, UpdateTenant(t)
      PROVE  VerificationsInv'
  <2>1. TypeOK' /\ Kept(Null)
    BY <1>1, <1>2 DEF UpdateTenant, TypeOK, Kept, RowsKept, AccountsKept,
       SessionsKept, ConfigsKept, assignmentVars
  <2>2. QED
    BY <1>1, <1>2, <2>1, StepOfNone DEF UpdateTenant, assignmentVars
<1>3. ASSUME NEW p \in Registered, NEW v \in Requests, SessionProgress(p, v)
      PROVE  VerificationsInv'
  <2>1. PICK s \in Status : session' = [session EXCEPT ![p][v] = s]
    BY <1>3 DEF SessionProgress
  <2>2. /\ session' \in [Registered -> [Requests -> Status \cup {Null}]]
        /\ session'[p][v] = s
        /\ \A x \in Registered, w \in Requests :
             w # v \/ x # p => session'[x][w] = session[x][w]
    BY <1>1, <2>1 DEF TypeOK
  <2>3. session[p][v] \in OpenStatus
    BY <1>3 DEF SessionProgress
  <2>4. SessionsKept(Null)
    BY <2>2, <2>3, NullDataAssumption DEF SessionsKept, OpenStatus, Status
  <2>5. TypeOK' /\ Kept(Null)
    BY <1>1, <1>3, <2>2, <2>4 DEF SessionProgress, TypeOK, Kept, RowsKept,
       AccountsKept, ConfigsKept, assignmentVars
  <2>6. QED
    BY <1>1, <1>3, <2>5, StepOfNone DEF SessionProgress, assignmentVars
<1>4. ASSUME NEW v \in Requests, ExpiryPasses(v)
      PROVE  VerificationsInv'
  <2>1. TypeOK' /\ Kept(Null)
    BY <1>1, <1>4 DEF ExpiryPasses, TypeOK, Kept, RowsKept, AccountsKept,
       SessionsKept, ConfigsKept, assignmentVars
  <2>2. QED
    BY <1>1, <1>4, <2>1, StepOfNone DEF ExpiryPasses, assignmentVars
<1>5. QED
  BY <1>2, <1>3, <1>4 DEF Environment

\* The admin handlers keep it: they leave referenced rows in place.
LEMMA AdminStep_VerificationsInv ==
  ASSUME VerificationsInv, AdminStep, UNCHANGED <<referenced, requestVars>>
  PROVE  VerificationsInv'
<1>1. TypeOK /\ AssignmentsInv
  BY DEF VerificationsInv
<1>2. AssignmentsInv' /\ AssignmentsTypeOK'
  BY <1>1, AssignmentsNext_Inv DEF AssignmentsNext, AssignmentsInv
<1>3. ConfigsKept
  <2> SUFFICES ASSUME NEW c \in ConfigIds, c < nextConfig
               PROVE  /\ c < nextConfig'
                      /\ config'[c] # Null =>
                           config[c] # Null /\ config'[c].tenant = config[c].tenant
    BY DEF ConfigsKept
  <2>1. /\ nextConfig' >= nextConfig
        /\ config[c] = Null => config'[c] = Null
    BY <1>1, AdminStep_Ids DEF AdminStep, AdminStepOf
  <2>2. config'[c] # config[c] /\ config[c] # Null /\ config'[c] # Null
          => config'[c].tenant = config[c].tenant
    BY <1>1, AdminStep_Tenant DEF AdminStep, AdminStepOf
  <2>3. QED
    BY <1>1, <1>2, <2>1, <2>2, BoundAssumption DEF AssignmentsTypeOK, ConfigIds,
       AssignmentsInv
<1>4. TypeOK' /\ Kept(Null)
  BY <1>1, <1>2, <1>3 DEF TypeOK, requestVars, Kept, RowsKept, AccountsKept,
     SessionsKept
<1>5. QED
  BY <1>2, <1>4, StepOfNone DEF requestVars

\* A restart of the process keeps it.
LEMMA Restart_Inv ==
  ASSUME VerificationsInv, Restart
  PROVE  VerificationsInv'
<1>1. TypeOK /\ AssignmentsInv
  BY DEF VerificationsInv
<1>2. AssignmentsInv' /\ AssignmentsTypeOK'
  BY <1>1, AssignmentsNext_Inv DEF Restart, AssignmentsNext, AssignmentsInv
<1>3. UNCHANGED <<config, nextConfig, referenced, tenantActive, verification,
                  account, overdue>>
  BY DEF Restart, AdminRestart
<1>4. /\ session' \in [Registered -> [Requests -> Status \cup {Null}]]
      /\ \A p \in Registered, v \in Requests :
           /\ session[p][v] = Null => session'[p][v] = Null
           /\ Behaviour[p].remote => session'[p][v] = session[p][v]
  BY <1>1 DEF Restart, TypeOK
<1>5. ASSUME NEW r \in Requests
      PROVE  /\ request'[r] \in Request
             /\ CallSound(r)'
  <2>1. request[r] \in Request /\ CallSound(r)
    BY <1>1 DEF VerificationsInv, TypeOK
  <2>2. CASE InProgress(r)
    <3>1. request'[r] = [[request[r] EXCEPT !.pc = "done"] EXCEPT !.reply = "lost"]
      BY <2>2 DEF Restart
    <3>2. /\ request'[r] \in Request
          /\ request'[r].pc = "done" /\ request'[r].reply = "lost"
          /\ request'[r].op = request[r].op
          /\ request'[r].tenant = request[r].tenant
          /\ request'[r].subject = request[r].subject
          /\ request'[r].document = request[r].document
      <4>1. request[r] \in Request
        BY <2>1
      <4>2. [request[r] EXCEPT !.pc = "done"] \in Request
        BY <4>1 DEF Request, PC
      <4>3. /\ request'[r] \in Request
            /\ request'[r].pc = "done" /\ request'[r].reply = "lost"
        BY <3>1, <4>2 DEF Request, Reply
      <4>4. /\ request'[r].op = request[r].op
            /\ request'[r].tenant = request[r].tenant
            /\ request'[r].subject = request[r].subject
            /\ request'[r].document = request[r].document
        BY <3>1, <4>1 DEF Request
      <4>5. QED
        BY <4>3, <4>4
    <3>3. Shaped(r)'
      BY <2>1, <2>2, <3>2 DEF CallSound, Shaped, InProgress
    <3>4. Fresh(r)'
      BY <1>3, <1>4, <2>1, <3>2 DEF CallSound, Fresh
    <3>5. Reading(r)' /\ Creating(r)' /\ Linking(r)'
      BY <3>2 DEF Reading, Creating, Linking, InProgress
    <3>6. QED
      BY <3>2, <3>3, <3>4, <3>5 DEF CallSound
  <2>3. CASE ~InProgress(r)
    <3>1. request'[r] = request[r] /\ request[r].pc \in {"idle", "done"}
      BY <2>3 DEF Restart, InProgress
    <3>2. Shaped(r)' /\ Creating(r)' /\ Linking(r)'
      BY <2>1, <3>1 DEF CallSound, Shaped, Creating, Linking
    <3>3. Fresh(r)'
      BY <1>3, <1>4, <2>1, <3>1 DEF CallSound, Fresh
    <3>4. Reading(r)'
      BY <1>3, <2>1, <3>1 DEF CallSound, Reading, InProgress, Cancelled
    <3>5. QED
      BY <2>1, <3>1, <3>2, <3>3, <3>4 DEF CallSound
  <2>4. QED
    BY <2>2, <2>3
<1>6. TypeOK'
  <2>1. request' \in [Requests -> Request]
    BY <1>5 DEF Restart
  <2>2. faults' \in 0..MaxFaults
    BY <1>1, FaultCounted DEF Restart
  <2>3. QED
    BY <1>1, <1>2, <1>3, <1>4, <2>1, <2>2 DEF TypeOK
<1>7. ASSUME NEW v \in Requests
      PROVE  RowSound(v)' /\ AccountSound(v)'
  <2>1. /\ RowSound(v) /\ AccountSound(v)
        /\ verification[v] # Null => verification[v].provider \in Registered
    BY <1>1 DEF VerificationsInv, TypeOK, Row
  <2>2. QED
    BY <1>3, <1>4, <2>1 DEF RowSound, AccountSound, AccountFound
<1>8. QED
  BY <1>2, <1>5, <1>6, <1>7 DEF VerificationsInv

-----------------------------------------------------------------------------
(* The theorems.                                                           *)

\* The empty tables satisfy it.
LEMMA Init_Inv == Init => VerificationsInv
<1> SUFFICES ASSUME Init PROVE VerificationsInv
  OBVIOUS
<1>1. AssignmentsInv
  BY AssignmentsInit_Inv DEF Init
<1>2. NoRequest \in Request
  BY DEF NoRequest, Request, PC
<1>3. TypeOK
  BY <1>1, <1>2, FaultsAssumption DEF Init, TypeOK, AssignmentsInv
<1>4. ASSUME NEW r \in Requests
      PROVE  CallSound(r) /\ RowSound(r) /\ AccountSound(r)
  <2>1. /\ request[r].pc = "idle" /\ request[r].op = Null
        /\ request[r].reply = Null
        /\ verification[r] = Null /\ account[r] = Null
        /\ \A p \in Registered : session[p][r] = Null
    BY DEF Init, NoRequest
  <2>2. QED
    BY <2>1, NullDataAssumption DEF CallSound, Shaped, Fresh, Reading, Creating,
       Linking, RowSound, AccountSound, InProgress
<1>5. QED
  BY <1>1, <1>3, <1>4 DEF VerificationsInv

\* Every step of the service keeps the invariant.
LEMMA Next_Inv == VerificationsInv /\ [Next]_vars => VerificationsInv'
<1> SUFFICES ASSUME VerificationsInv, [Next]_vars PROVE VerificationsInv'
  OBVIOUS
<1>1. ASSUME NEW r \in Requests, RequestStep(r), UNCHANGED assignmentVars
      PROVE  VerificationsInv'
  BY <1>1, BeginCreate_Inv, ValidateAccount_Inv, BeginGet_Inv, BeginCancel_Inv,
     SelectProvider_Inv, QuietEnds_Inv, CallCreate_Inv, CallStatus_Inv,
     CallCancel_Inv, AnswerLost_Inv, SaveAccount_Inv, LinkAccount_Inv,
     StoreStatus_Inv, StoreCancel_Inv
  DEF RequestStep
<1>2. ASSUME NEW r \in Requests, StoreCreate(r)
      PROVE  VerificationsInv'
  BY <1>2, StoreCreate_Inv
<1>3. CASE Environment /\ UNCHANGED assignmentVars
  BY <1>3, Environment_Inv
<1>4. CASE AdminStep /\ UNCHANGED <<referenced, requestVars>>
  BY <1>4, AdminStep_VerificationsInv
<1>5. CASE Restart
  BY <1>5, Restart_Inv
<1>6. CASE UNCHANGED vars
  <2>1. TypeOK' /\ AssignmentsInv'
    BY <1>6, AssignmentsAlone DEF vars, requestVars, VerificationsInv, TypeOK
  <2>2. Kept(Null)
    BY <1>6 DEF vars, requestVars, assignmentVars, Kept, RowsKept, AccountsKept,
       SessionsKept, ConfigsKept
  <2>3. QED
    BY <1>6, <2>1, <2>2, StepOfNone DEF vars, requestVars, assignmentVars
<1>7. QED
  BY <1>1, <1>2, <1>3, <1>4, <1>5, <1>6 DEF Next

\* What every request knows of its row, and every row of its configuration,
\* provider and account, holds however requests, administrators, providers and
\* failures interleave.
THEOREM VerificationsInvariant == Spec => []VerificationsInv
BY Init_Inv, Next_Inv, PTL DEF Spec

(* Every table and every local stays within its type: no handler writes    *)
(* to a row that is not there, or uses a value an earlier statement did    *)
(* not set.                                                                *)
THEOREM TypeCorrect == Spec => []TypeOK
BY VerificationsInvariant, PTL DEF VerificationsInv

(* Stored verifications name a configuration and an account that exist and *)
(* are of their own tenant, however requests, admin calls and failures     *)
(* interleave.                                                             *)
THEOREM RowsHold == Spec => []RowIntegrity
<1>1. VerificationsInv => RowIntegrity
  BY DEF VerificationsInv, RowSound, RowIntegrity, AssignmentsInv,
     ReferencedConfigsExist, AccountFound
<1>2. QED
  BY <1>1, VerificationsInvariant, PTL

(* provider_id names the provider that holds the session.                  *)
THEOREM ProviderRecorded == Spec => []ProviderOfRecord
<1>1. VerificationsInv => ProviderOfRecord
  BY DEF VerificationsInv, RowSound, ProviderOfRecord
<1>2. QED
  BY <1>1, VerificationsInvariant, PTL

(* A verification is marked cancelled only after its own provider stopped. *)
THEOREM ConsentPrecedes == Spec => []CancelledByConsent
<1>1. VerificationsInv => CancelledByConsent
  BY DEF VerificationsInv, RowSound, CancelledByConsent, Cancelled
<1>2. QED
  BY <1>1, VerificationsInvariant, PTL

(* A cancellation that was confirmed is never undone.                      *)
THEOREM CancellationsHold == Spec => []CancelIsKept
<1>1. VerificationsInv => CancelIsKept
  BY DEF VerificationsInv, CallSound, Reading, CancelIsKept
<1>2. QED
  BY <1>1, VerificationsInvariant, PTL

(* Accounts come from completed verifications of the same tenant.          *)
THEOREM AccountsHold == Spec => []AccountProvenance
<1>1. VerificationsInv => AccountProvenance
  BY DEF VerificationsInv, AccountSound, AccountProvenance
<1>2. QED
  BY <1>1, VerificationsInvariant, PTL

-----------------------------------------------------------------------------

(* Only three statements write to the table verifications and take effect. *)
LEMMA Writers ==
  ASSUME VerificationsInv, [Next]_vars, verification' # verification
  PROVE  \E r \in Requests :
           \/ StoreCreate(r)
           \/ (LinkAccount(r) \/ StoreCancel(r)) /\ UNCHANGED assignmentVars
<1>1. ASSUME NEW r \in Requests, RequestStep(r)
      PROVE  LinkAccount(r) \/ StoreCancel(r)
  <2>1. ~BeginGet(r)
    BY NothingExpires DEF BeginGet
  <2>2. ~StoreStatus(r)
    BY StatusUpdateRejected DEF StoreStatus
  <2>3. QED
    BY <1>1, <2>1, <2>2
    DEF RequestStep, BeginCreate, ValidateAccount, BeginCancel, SelectProvider,
        NoProvider, CallCreate, CallStatus, CallCancel, CallFails, AnswerLost,
        SaveAccount, QueryFails
<1>2. ~Environment
  BY DEF Environment, UpdateTenant, SessionProgress, ExpiryPasses
<1>3. ~Restart
  BY DEF Restart
<1>4. ~UNCHANGED requestVars /\ ~UNCHANGED vars
  BY DEF vars, requestVars
<1>5. QED
  BY <1>1, <1>2, <1>3, <1>4 DEF Next

(* One row changes, and this is what it was and what it becomes.           *)
LEMMA RowChange ==
  ASSUME VerificationsInv, [Next]_vars, verification' # verification
  PROVE  \E r, v \in Requests :
           /\ \A w \in Requests : w # v => verification'[w] = verification[w]
           /\ request'[r] # request[r]
           /\ \/ /\ verification[v] = Null
                 /\ verification'[v] \in Row
              \/ /\ verification[v] \in Row /\ verification'[v] \in Row
                 /\ request'[r].tenant = verification[v].tenant
                 /\ \/ verification'[v].status = verification[v].status
                    \/ /\ verification[v].status \in OpenStatus \cup {"cancelled"}
                       /\ verification'[v].status = "cancelled"
<1>1. PICK r \in Requests :
        \/ StoreCreate(r)
        \/ (LinkAccount(r) \/ StoreCancel(r)) /\ UNCHANGED assignmentVars
  BY Writers
<1>2. VerificationsInv'
  BY Next_Inv
<1>3. /\ verification \in [Requests -> Row \cup {Null}]
      /\ verification' \in [Requests -> Row \cup {Null}]
      /\ request \in [Requests -> Request]
      /\ CallSound(r)
  BY <1>2 DEF VerificationsInv, TypeOK
<1>4. CASE StoreCreate(r)
  <2>1. /\ verification' = [verification EXCEPT ![r] = NewRow(request[r])]
        /\ Goto(r, "save") \/ Finish(r, "ok")
        /\ request[r].pc = "store"
    BY <1>4 DEF StoreCreate
  <2>2. verification[r] = Null /\ verification'[r] \in Row
    <3>1. verification[r] = Null
      BY <1>3, <2>1 DEF CallSound, Fresh
    <3>2. verification'[r] = NewRow(request[r]) /\ verification'[r] # Null
      BY <1>3, <2>1, NullDataAssumption, <3>1
    <3>3. QED
      BY <1>3, <3>1, <3>2
  <2>3. request'[r].pc # request[r].pc
    BY <1>3, <2>1 DEF Goto, Finish, Request
  <2>4. QED
    BY <1>3, <2>1, <2>2, <2>3
<1>5. CASE LinkAccount(r)
  <2>1. /\ verification' = [verification EXCEPT ![r].account = r]
        /\ Finish(r, "ok") /\ request[r].pc = "link"
    BY <1>5 DEF LinkAccount
  <2>2. /\ verification[r] \in Row
        /\ verification[r].tenant = request[r].tenant
    BY <1>3, <2>1 DEF CallSound, Linking
  <2>3. /\ verification'[r] = [verification[r] EXCEPT !.account = r]
        /\ verification'[r] \in Row
        /\ verification'[r].status = verification[r].status
    BY <1>3, <2>1, <2>2 DEF Row
  <2>4. /\ request'[r].pc # request[r].pc
        /\ request'[r].tenant = request[r].tenant
    BY <1>3, <2>1 DEF Finish, Request
  <2>5. QED
    BY <1>3, <2>1, <2>2, <2>3, <2>4
<1>6. CASE StoreCancel(r)
  <2> PICK v : v = request[r].subject
    OBVIOUS
  <2>1. /\ verification' = [verification EXCEPT ![v].status = "cancelled"]
        /\ Finish(r, "ok") /\ request[r].pc = "store" /\ request[r].op = "cancel"
    BY <1>6 DEF StoreCancel, CancelRow
  <2>2. /\ v \in Requests /\ verification[v] \in Row
        /\ verification[v].tenant = request[r].tenant
        /\ verification[v].status \in OpenStatus \cup {"cancelled"}
    BY <1>3, <2>1 DEF CallSound, Shaped, Reading, InProgress, Visible
  <2>3. /\ verification'[v] = [verification[v] EXCEPT !.status = "cancelled"]
        /\ verification'[v] \in Row
        /\ verification'[v].status = "cancelled"
    BY <1>3, <2>1, <2>2 DEF Row, Status
  <2>4. /\ request'[r].pc # request[r].pc
        /\ request'[r].tenant = request[r].tenant
    BY <1>3, <2>1 DEF Finish, Request
  <2>5. QED
    BY <1>3, <2>1, <2>2, <2>3, <2>4
<1>7. QED
  BY <1>1, <1>4, <1>5, <1>6

(* A row changes only for a request of its own tenant.                     *)
THEOREM TenantsIsolated == Spec => TenantIsolation
<1> DEFINE Isolated ==
      \A v \in Requests :
        verification[v] # Null /\ verification'[v] # verification[v] =>
          \E r \in Requests :
            /\ request'[r] # request[r]
            /\ request'[r].tenant = verification[v].tenant
<1>1. VerificationsInv /\ [Next]_vars => [Isolated]_verification
  BY RowChange
<1>2. QED
  BY <1>1, VerificationsInvariant, PTL DEF Spec, TenantIsolation

(* The service implements the documented life cycle: a verification        *)
(* appears once, and then moves only along the arrows of the diagram.      *)
THEOREM LifecycleImplemented == Spec => ImplementsLifecycle
<1>1. Init => Lifecycle!LifecycleInit
  BY DEF Init, Lifecycle!LifecycleInit, StatusOf
<1>2. VerificationsInv /\ [Next]_vars => [Lifecycle!LifecycleNext]_StatusOf
  <2> SUFFICES ASSUME VerificationsInv, [Next]_vars, StatusOf' # StatusOf
               PROVE  Lifecycle!LifecycleNext
    OBVIOUS
  <2>1. verification' # verification
    BY DEF StatusOf
  <2>2. PICK v \in Requests :
          /\ \A w \in Requests : w # v => verification'[w] = verification[w]
          /\ \/ /\ verification[v] = Null
                /\ verification'[v] \in Row
             \/ /\ verification[v] \in Row /\ verification'[v] \in Row
                /\ \/ verification'[v].status = verification[v].status
                   \/ /\ verification[v].status \in OpenStatus \cup {"cancelled"}
                      /\ verification'[v].status = "cancelled"
    BY <2>1, RowChange
  <2>3. StatusOf' = [StatusOf EXCEPT ![v] = StatusOf'[v]]
    BY <2>2 DEF StatusOf
  <2>4. CASE verification[v] = Null
    <3>1. StatusOf[v] = Null /\ StatusOf'[v] \in Status
      BY <2>2, <2>4, NullDataAssumption DEF StatusOf, Row
    <3>2. Lifecycle!Appear(v)
      BY <2>3, <3>1 DEF Lifecycle!Appear, Lifecycle!Status, Status
    <3>3. QED
      BY <3>2 DEF Lifecycle!LifecycleNext
  <2>5. CASE verification[v] # Null
    <3>1. StatusOf[v] = verification[v].status /\ StatusOf'[v] = verification'[v].status
      BY <2>2, <2>5, NullDataAssumption DEF StatusOf
    <3>2. StatusOf'[v] # StatusOf[v]
      BY <2>3 DEF StatusOf
    <3>3. StatusOf[v] \in OpenStatus /\ StatusOf'[v] = "cancelled"
      BY <2>2, <2>5, <3>1, <3>2
    <3>4. Lifecycle!Arrow(StatusOf[v], "cancelled")
      BY <3>3 DEF Lifecycle!Arrow, Lifecycle!FinalStatus, Lifecycle!Status,
         Lifecycle!OpenStatus, OpenStatus
    <3>5. Lifecycle!Move(v)
      BY <2>3, <3>3, <3>4 DEF Lifecycle!Move, Lifecycle!OpenStatus,
         Lifecycle!Status, OpenStatus
    <3>6. QED
      BY <3>5 DEF Lifecycle!LifecycleNext
  <2>6. QED
    BY <2>4, <2>5
<1>3. QED
  BY <1>1, <1>2, VerificationsInvariant, PTL
  DEF Spec, ImplementsLifecycle, Lifecycle!LifecycleSpec

-----------------------------------------------------------------------------

(* To the table tenant_provider_configs the whole service, with requests   *)
(* that store references and restarts that end every call, is one of the   *)
(* environments ProviderAssignments allows.                                *)
THEOREM AssignmentsImplemented == Spec => AssignmentsSpec
<1>1. Init => AssignmentsInit
  BY DEF Init
<1>2. VerificationsInv /\ [Next]_vars => [AssignmentsNext]_assignmentVars
  <2> SUFFICES ASSUME VerificationsInv, [Next]_vars,
                      ~UNCHANGED assignmentVars
               PROVE  AssignmentsNext
    OBVIOUS
  <2>1. ASSUME NEW r \in Requests, StoreCreate(r)
        PROVE  \E c \in ConfigIds : StoreReference(c)
    BY <2>1 DEF StoreCreate, VerificationsInv, CallSound, Shaped
  <2>2. Restart => AdminRestart /\ UNCHANGED referenced
    BY DEF Restart
  <2>3. UNCHANGED vars => UNCHANGED assignmentVars
    BY DEF vars
  <2>4. QED
    BY <2>1, <2>2, <2>3 DEF Next, AssignmentsNext
<1>3. QED
  BY <1>1, <1>2, VerificationsInvariant, PTL DEF Spec, AssignmentsSpec

(* What is proved of the table therefore holds while verifications run:    *)
(* the promotions of administrators take effect and keep the order, one    *)
(* provider is primary, and the last one stays.                            *)
THEOREM AssignmentsInService ==
  Spec => /\ []OnePrimary
          /\ CallsStayInTenant
          /\ PromotionKeepsOrder
          /\ PromotionTakesEffect
          /\ LastProviderKept
BY AssignmentsImplemented, OnePrimaryHolds, TenantScope,
   OrderHolds, PromotionHolds, LastProviderHolds, PTL

=============================================================================
