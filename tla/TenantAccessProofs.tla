------------------------- MODULE TenantAccessProofs -------------------------
(***************************************************************************)
(* Theorems about TenantAccess, for any tenants, keys and number of calls. *)
(***************************************************************************)
EXTENDS TenantAccess, TLAPS

(* What a call knows when it reaches a statement.                          *)
Sound(c, q) ==
  /\ q.pc \notin {"idle", "done"} => q.tenant \in TenantIds
  /\ q.pc = "insert" /\ q.op = "createTenant"
       => q.tenant = c /\ q.key = Null /\ q.entity \in TenantStatus
  /\ q.pc = "delete" => q.key = Null /\ q.entity = "inactive"
  /\ q.pc \in {"select", "write"} /\ q.key = Null => q.entity \in TenantStatus
  /\ q.pc \in {"select", "write"} /\ q.key # Null => q.entity \in KeyStatus

CallsSound == \A c \in Calls : Sound(c, call[c])

AccessInv ==
  /\ AccessTypeOK
  /\ CallsSound
  /\ RowsHaveTenant

\* The initial tables belong to tenants that are there, and no call runs.
LEMMA AccessInit_Inv == AccessInit => AccessInv
<1> SUFFICES ASSUME AccessInit PROVE AccessInv
  OBVIOUS
<1> USE AccessAssumption DEF AccessInit
<1>1. PICK owner \in [SeedKeys -> Tenants] :
        key = [k \in KeyIds |-> IF k \in SeedKeys
                                  THEN [tenant |-> owner[k], status |-> "active"]
                                  ELSE Null]
  OBVIOUS
<1>2. key \in [KeyIds -> Key \cup {Null}]
  BY <1>1 DEF Key, KeyStatus, TenantIds
<1>3. AccessTypeOK
  BY <1>2 DEF AccessTypeOK, TenantStatus, Call, NoCall, PC
<1>4. CallsSound
  BY DEF CallsSound, Sound, NoCall
<1>5. RowsHaveTenant
  <2>1. ASSUME NEW k \in KeyIds, key[k] # Null
        PROVE  key[k].tenant \in Tenants
    BY <1>1, <2>1
  <2>2. \A t \in Tenants : tenant[t] # Null
    BY DEF TenantIds, Status, TenantStatus
  <2>3. QED
    BY <2>1, <2>2 DEF RowsHaveTenant
<1>6. QED
  BY <1>3, <1>4, <1>5 DEF AccessInv

\* A call is replaced by a sound one.
LEMMA CallReplaced ==
  ASSUME AccessInv, NEW c \in Calls, NEW q \in Call, Sound(c, q),
         call' = [call EXCEPT ![c] = q]
  PROVE  call' \in [Calls -> Call] /\ CallsSound'
<1>1. /\ call' \in [Calls -> Call]
      /\ call'[c] = q
      /\ \A d \in Calls : d # c => call'[d] = call[d]
  BY DEF AccessInv, AccessTypeOK
<1>2. CallsSound'
  BY <1>1 DEF AccessInv, CallsSound, Sound
<1>3. QED
  BY <1>1, <1>2

\* A call starts.
LEMMA BeginSound ==
  ASSUME AccessInv, NEW c \in Calls, NEW q \in Call, Sound(c, q), Begin(c, q)
  PROVE  AccessInv'
<1>1. call' \in [Calls -> Call] /\ CallsSound'
  BY CallReplaced DEF Begin
<1>2. contended' \subseteq TenantIds
  <2>1. \A t \in contended' : t \in contended
                              \/ \E b \in Calls : call[b].tenant = t /\ Overlaps(q.op, b)
    BY DEF Begin
  <2>2. ASSUME NEW b \in Calls, Overlaps(q.op, b) PROVE call[b].tenant \in TenantIds
    BY <2>2 DEF AccessInv, CallsSound, Sound, Overlaps, Running
  <2>3. QED
    BY <2>1, <2>2 DEF AccessInv, AccessTypeOK
<1>3. AccessTypeOK'
  BY <1>1, <1>2, AccessAssumption
  DEF AccessInv, AccessTypeOK, Begin, Started
<1>4. RowsHaveTenant'
  BY DEF AccessInv, RowsHaveTenant, Begin
<1>5. QED
  BY <1>1, <1>3, <1>4 DEF AccessInv

\* A call that returns is well formed.
LEMMA EndedSound ==
  ASSUME NEW c \in Calls, NEW q \in Call, NEW reply \in {"ok", "error", "lost"}
  PROVE  Ended(q, reply) \in Call /\ Sound(c, Ended(q, reply))
<1>1. Ended(q, reply) \in Call
  BY DEF Ended, Call, PC
<1>2. Ended(q, reply).pc = "done"
  BY DEF Ended, Call
<1>3. QED
  BY <1>1, <1>2 DEF Sound

\* A call moves on to another statement with what it knows.
LEMMA GotoSound ==
  ASSUME AccessInv, NEW c \in Calls,
         \/ call[c].pc = "insert" /\ call[c].op = "createTenant"
         \/ call[c].pc = "delete",
         Goto(c, "select")
  PROVE  call' \in [Calls -> Call] /\ CallsSound'
<1> DEFINE q == [call[c] EXCEPT !.pc = "select"]
<1>1. call[c] \in Call /\ Sound(c, call[c])
  BY DEF AccessInv, AccessTypeOK, CallsSound
<1>2. /\ q \in Call /\ q.pc = "select"
      /\ q.tenant = call[c].tenant /\ q.key = call[c].key
      /\ q.entity = call[c].entity
  BY <1>1 DEF Call, PC
<1>3. Sound(c, q)
  BY <1>1, <1>2 DEF Sound, TenantStatus
<1>4. QED
  BY <1>2, <1>3, CallReplaced DEF Goto, Move

\* A call returns.
LEMMA FinishSound ==
  ASSUME AccessInv, NEW c \in Calls, NEW reply \in {"ok", "error", "lost"},
         Finish(c, reply)
  PROVE  call' \in [Calls -> Call] /\ CallsSound'
<1>1. call[c] \in Call
  BY DEF AccessInv, AccessTypeOK
<1>2. QED
  BY <1>1, EndedSound, CallReplaced DEF Finish, Move

\* The step of a call that leaves tenants and keys alone.
LEMMA RowsKept ==
  ASSUME AccessInv, UNCHANGED <<tenant, key>>
  PROVE  RowsHaveTenant'
BY DEF AccessInv, RowsHaveTenant

\* The first steps of the calls.
LEMMA BeginStep_Inv ==
  ASSUME AccessInv, NEW c \in Calls,
         \/ BeginCreateTenant(c) \/ BeginUpdateTenant(c) \/ BeginDeleteTenant(c)
         \/ BeginCreateKey(c) \/ BeginCopyKey(c) \/ BeginUpdateKey(c) \/ BeginRevokeKey(c)
  PROVE  AccessInv'
<1> USE AccessAssumption
    DEF Call, NoCall, Sound, Op, PC, TenantIds, Status, TenantStatus, KeyStatus
<1>1. CASE BeginCreateTenant(c)
  <2>1. PICK s \in TenantStatus :
          Begin(c, [NoCall EXCEPT !.op = "createTenant", !.pc = "insert",
                                  !.tenant = c, !.asked = s, !.entity = s])
    BY <1>1 DEF BeginCreateTenant
  <2>2. QED
    BY <2>1, BeginSound
<1>2. CASE BeginUpdateTenant(c)
  <2>1. PICK t \in TenantIds, s \in TenantStatus \cup {Null} :
          /\ tenant[t] # Null
          /\ Begin(c, [NoCall EXCEPT !.op = "updateTenant", !.pc = "select",
                                     !.tenant = t, !.asked = s,
                                     !.entity = Entity(s, tenant[t])])
    BY <1>2 DEF BeginUpdateTenant
  <2>2. Entity(s, tenant[t]) \in TenantStatus
    BY <2>1 DEF Entity, AccessInv, AccessTypeOK
  <2>3. QED
    BY <2>1, <2>2, BeginSound
<1>3. CASE BeginDeleteTenant(c)
  <2>1. PICK t \in TenantIds :
          Begin(c, [NoCall EXCEPT !.op = "deleteTenant", !.pc = "delete",
                                  !.tenant = t, !.entity = "inactive"])
    BY <1>3 DEF BeginDeleteTenant
  <2>2. QED
    BY <2>1, BeginSound
<1>4. CASE BeginCreateKey(c)
  <2>1. PICK t \in TenantIds :
          Begin(c, [NoCall EXCEPT !.op = "createKey", !.pc = "insert",
                                  !.tenant = t, !.entity = "active"])
    BY <1>4 DEF BeginCreateKey
  <2>2. QED
    BY <2>1, BeginSound
<1>5. CASE BeginUpdateKey(c)
  <2>1. PICK k \in KeyIds, s \in KeyStatus \cup {Null} :
          /\ key[k] # Null
          /\ Begin(c, [NoCall EXCEPT !.op = "updateKey", !.pc = "select",
                                     !.tenant = key[k].tenant, !.key = k,
                                     !.asked = s,
                                     !.entity = Entity(s, key[k].status)])
    BY <1>5 DEF BeginUpdateKey
  <2>2. key[k].tenant \in TenantIds /\ Entity(s, key[k].status) \in KeyStatus
    BY <2>1 DEF Entity, AccessInv, AccessTypeOK, Key
  <2>3. QED
    BY <2>1, <2>2, BeginSound
<1>6. CASE BeginRevokeKey(c)
  <2>1. PICK k \in KeyIds :
          /\ key[k] # Null
          /\ Begin(c, [NoCall EXCEPT !.op = "revokeKey", !.pc = "revoke",
                                     !.tenant = key[k].tenant, !.key = k])
    BY <1>6 DEF BeginRevokeKey
  <2>2. key[k].tenant \in TenantIds
    BY <2>1 DEF AccessInv, AccessTypeOK, Key
  <2>3. QED
    BY <2>1, <2>2, BeginSound
<1>7. CASE BeginCopyKey(c)
  <2>1. PICK k \in KeyIds :
          /\ key[k] # Null
          /\ Begin(c, [NoCall EXCEPT !.op = "createKey", !.pc = "insert",
                                     !.tenant = key[k].tenant, !.entity = "active"])
    BY <1>7 DEF BeginCopyKey
  <2>2. key[k].tenant \in TenantIds
    BY <2>1 DEF AccessInv, AccessTypeOK, Key
  <2>3. QED
    BY <2>1, <2>2, BeginSound
<1>8. QED
  BY <1>1, <1>2, <1>3, <1>4, <1>5, <1>6, <1>7

\* Tenants keep being there, and so does what belongs to them.
LEMMA TenantsKept ==
  ASSUME AccessInv,
         \A t \in TenantIds : tenant[t] # Null => tenant'[t] # Null,
         \A k \in KeyIds : key'[k] # Null =>
           \/ key[k] # Null /\ key'[k].tenant = key[k].tenant
           \/ key'[k].tenant \in TenantIds /\ tenant[key'[k].tenant] # Null
  PROVE  RowsHaveTenant'
<1>1. \A k \in KeyIds : key[k] # Null => key[k].tenant \in TenantIds
  BY DEF AccessInv, AccessTypeOK, Key
<1>2. QED
  BY <1>1 DEF AccessInv, RowsHaveTenant

\* The inserts.
LEMMA InsertStep_Inv ==
  ASSUME AccessInv, NEW c \in Calls, InsertTenant(c) \/ InsertKey(c)
  PROVE  AccessInv'
<1> USE AccessAssumption
<1>1. CASE InsertTenant(c)
  <2>1. call[c].entity \in TenantStatus /\ c \in TenantIds
    BY <1>1 DEF InsertTenant, AccessInv, CallsSound, Sound, TenantIds
  <2>2. call' \in [Calls -> Call] /\ CallsSound'
    BY <1>1, GotoSound, FinishSound DEF InsertTenant
  <2>3. tenant' \in [TenantIds -> TenantStatus \cup {Null}]
        /\ \A t \in TenantIds : tenant[t] # Null => tenant'[t] # Null
    BY <1>1, <2>1 DEF InsertTenant, AccessInv, AccessTypeOK, Status, TenantStatus
  <2>4. RowsHaveTenant'
    BY <1>1, <2>3, TenantsKept DEF InsertTenant
  <2>5. AccessTypeOK'
    BY <1>1, <2>2, <2>3
    DEF InsertTenant, AccessInv, AccessTypeOK, Goto, Finish, Move
  <2>6. QED
    BY <2>2, <2>4, <2>5 DEF AccessInv
<1>2. CASE InsertKey(c)
  <2> DEFINE t == call[c].tenant
             row == [tenant |-> t, status |-> "active"]
  <2>1. t \in TenantIds /\ c \in KeyIds
    BY <1>2 DEF InsertKey, AccessInv, CallsSound, Sound, KeyIds
  <2>2. call' \in [Calls -> Call] /\ CallsSound'
    BY <1>2, FinishSound DEF InsertKey
  <2>3. \/ UNCHANGED key
        \/ tenant[t] # Null /\ key' = [key EXCEPT ![c] = row]
    BY <1>2 DEF InsertKey, TenantExists
  <2>4. row \in Key
    BY <2>1 DEF Key, KeyStatus
  <2>5. /\ key' \in [KeyIds -> Key \cup {Null}]
        /\ \A k \in KeyIds : key'[k] # Null =>
             \/ key[k] # Null /\ key'[k].tenant = key[k].tenant
             \/ key'[k].tenant \in TenantIds /\ tenant[key'[k].tenant] # Null
    BY <2>1, <2>3, <2>4 DEF AccessInv, AccessTypeOK
  <2>6. UNCHANGED tenant
    BY <1>2 DEF InsertKey
  <2>7. RowsHaveTenant'
    BY <2>5, <2>6, TenantsKept
  <2>8. AccessTypeOK'
    BY <1>2, <2>2, <2>5, <2>6 DEF InsertKey, AccessInv, AccessTypeOK, Finish, Move
  <2>9. QED
    BY <2>2, <2>7, <2>8 DEF AccessInv
<1>3. QED
  BY <1>1, <1>2

\* The DELETE and what follows its failure.
LEMMA DeleteStep_Inv ==
  ASSUME AccessInv, NEW c \in Calls, HardDelete(c) \/ FallBack(c)
  PROVE  AccessInv'
<1> USE AccessAssumption
<1> DEFINE t == call[c].tenant
<1>1. CASE HardDelete(c)
  <2>1. call' \in [Calls -> Call] /\ CallsSound'
    BY <1>1, FinishSound DEF HardDelete
  <2>2. t \in TenantIds
    BY <1>1 DEF HardDelete, AccessInv, CallsSound, Sound
  <2>3. /\ tenant' = [tenant EXCEPT ![t] = Null]
        /\ key' = [k \in KeyIds |->
             IF key[k] # Null /\ key[k].tenant = t THEN Null ELSE key[k]]
    BY <1>1 DEF HardDelete
  <2>4. /\ tenant' \in [TenantIds -> TenantStatus \cup {Null}]
        /\ \A u \in TenantIds : u # t => tenant'[u] = tenant[u]
        /\ key' \in [KeyIds -> Key \cup {Null}]
    BY <2>3 DEF AccessInv, AccessTypeOK
  <2>5. AccessTypeOK'
    BY <1>1, <2>1, <2>4 DEF HardDelete, AccessInv, AccessTypeOK, Finish, Move
  <2>6. \A k \in KeyIds : key'[k] # Null =>
          key'[k] = key[k] /\ key[k].tenant # t
    BY <2>3
  <2>7. \A k \in KeyIds : key[k] # Null => key[k].tenant \in TenantIds
    BY DEF AccessInv, AccessTypeOK, Key
  <2>8. RowsHaveTenant'
    BY <2>2, <2>3, <2>4, <2>6, <2>7 DEF AccessInv, AccessTypeOK, RowsHaveTenant
  <2>9. QED
    BY <2>1, <2>5, <2>8 DEF AccessInv
<1>2. CASE FallBack(c)
  <2>1. call' \in [Calls -> Call] /\ CallsSound'
    BY <1>2, GotoSound DEF FallBack
  <2>2. UNCHANGED <<tenant, key, contended, started>>
    BY <1>2 DEF FallBack, Goto, Move
  <2>3. faults' \in 0..MaxFaults
    BY <1>2 DEF FallBack, Fault, AccessInv, AccessTypeOK
  <2>4. AccessTypeOK'
    BY <2>1, <2>2, <2>3 DEF AccessInv, AccessTypeOK
  <2>5. QED
    BY <2>1, <2>2, <2>4, RowsKept DEF AccessInv
<1>3. QED
  BY <1>1, <1>2

\* A call in save knows its tenant and the status it saves.
LEMMA SaveKnows ==
  ASSUME AccessInv, NEW c \in Calls, call[c].pc \in {"select", "write"}
  PROVE  /\ call[c] \in Call /\ call[c].tenant \in TenantIds
         /\ call[c].key = Null => call[c].entity \in TenantStatus
         /\ call[c].key # Null => call[c].key \in KeyIds /\ call[c].entity \in KeyStatus
<1>1. call[c] \in Call /\ Sound(c, call[c])
  BY DEF AccessInv, AccessTypeOK, CallsSound
<1>2. QED
  BY <1>1 DEF Sound, Call

\* The SELECT of save.
LEMMA SelectStep_Inv ==
  ASSUME AccessInv, NEW c \in Calls, SelectRow(c)
  PROVE  AccessInv'
<1> DEFINE k == call[c].key
           found == CASE k = Null -> tenant[call[c].tenant]
                      [] k # Null /\ key[k] # Null -> key[k].status
                      [] OTHER -> Null
           q == [call[c] EXCEPT !.pc = "write", !.loaded = found]
<1>1. /\ call[c] \in Call /\ call[c].tenant \in TenantIds
      /\ k = Null => call[c].entity \in TenantStatus
      /\ k # Null => k \in KeyIds /\ call[c].entity \in KeyStatus
  BY SaveKnows DEF SelectRow
<1>2. found \in Status \cup {Null}
  <2>1. CASE k = Null
    BY <1>1, <2>1 DEF AccessInv, AccessTypeOK, Status
  <2>2. CASE k # Null /\ key[k] # Null
    BY <1>1, <2>2 DEF AccessInv, AccessTypeOK, Status, Key
  <2>3. CASE k # Null /\ key[k] = Null
    BY <2>3
  <2>4. QED
    BY <2>1, <2>2, <2>3
<1> HIDE DEF found
<1>3. /\ q \in Call /\ q.pc = "write" /\ q.tenant = call[c].tenant
      /\ q.key = k /\ q.entity = call[c].entity
  BY <1>1, <1>2 DEF Call, PC
<1>4. Sound(c, q)
  BY <1>1, <1>3 DEF Sound
<1>5. call' = [call EXCEPT ![c] = q] /\ UNCHANGED <<contended, started>>
  BY DEF SelectRow, Move, found
<1>6. call' \in [Calls -> Call] /\ CallsSound'
  BY <1>3, <1>4, <1>5, CallReplaced
<1>7. UNCHANGED <<tenant, key, faults>>
  BY DEF SelectRow
<1>8. AccessTypeOK'
  BY <1>5, <1>6, <1>7 DEF AccessInv, AccessTypeOK
<1>9. QED
  BY <1>6, <1>7, <1>8, RowsKept DEF AccessInv

\* A deletion goes on to the keys of its tenant.
LEMMA ToRevokeSound ==
  ASSUME AccessInv, NEW c \in Calls, call[c].pc = "write", Goto(c, "revoke")
  PROVE  call' \in [Calls -> Call] /\ CallsSound'
<1> DEFINE q == [call[c] EXCEPT !.pc = "revoke"]
<1>1. call[c] \in Call /\ Sound(c, call[c])
  BY DEF AccessInv, AccessTypeOK, CallsSound
<1>2. q \in Call /\ q.pc = "revoke" /\ q.tenant = call[c].tenant
  BY <1>1 DEF Call, PC
<1>3. Sound(c, q)
  BY <1>1, <1>2 DEF Sound
<1>4. QED
  BY <1>2, <1>3, CallReplaced DEF Goto, Move

\* The write of save, for a tenant: a tenant that is there stays.
LEMMA WriteTenant_Inv ==
  ASSUME AccessInv, NEW c \in Calls, WriteTenant(c)
  PROVE  AccessInv'
<1> USE AccessAssumption
<1> DEFINE t == call[c].tenant
<1>1. t \in TenantIds /\ call[c].entity \in TenantStatus
  BY SaveKnows DEF WriteTenant
<1>2. call' \in [Calls -> Call] /\ CallsSound'
  BY FinishSound, ToRevokeSound DEF WriteTenant
<1>3. UNCHANGED <<key, contended, started, faults>>
  BY DEF WriteTenant, Goto, Finish, Move
<1>4. \/ UNCHANGED tenant
      \/ /\ call[c].loaded = Null
         /\ tenant' = [tenant EXCEPT ![t] = call[c].entity]
      \/ /\ call[c].loaded # Null /\ tenant[t] = Null
         /\ tenant' = [tenant EXCEPT ![t] = Null]
      \/ /\ tenant[t] # Null
         /\ tenant' = [tenant EXCEPT ![t] = Saved(c, tenant[t])]
  BY DEF WriteTenant
<1>5. /\ tenant' \in [TenantIds -> TenantStatus \cup {Null}]
      /\ \A u \in TenantIds : tenant[u] # Null => tenant'[u] # Null
  <2>1. TenantStatus \subseteq Status
    BY DEF Status
  <2>2. tenant[t] # Null => Saved(c, tenant[t]) \in TenantStatus
    BY <1>1 DEF Saved, AccessInv, AccessTypeOK
  <2>3. QED
    BY <1>1, <1>4, <2>1, <2>2 DEF AccessInv, AccessTypeOK
<1>6. AccessTypeOK'
  BY <1>2, <1>3, <1>5 DEF AccessInv, AccessTypeOK
<1>7. RowsHaveTenant'
  BY <1>3, <1>5, TenantsKept
<1>8. QED
  BY <1>2, <1>6, <1>7 DEF AccessInv

\* The write of save, for a key: one that is inserted has its tenant.
LEMMA WriteKey_Inv ==
  ASSUME AccessInv, NEW c \in Calls, WriteKey(c)
  PROVE  AccessInv'
<1> USE AccessAssumption
<1> DEFINE k == call[c].key
           row == [tenant |-> call[c].tenant, status |-> call[c].entity]
<1>1. k \in KeyIds /\ call[c].tenant \in TenantIds /\ call[c].entity \in KeyStatus
  BY SaveKnows DEF WriteKey
<1>2. call' \in [Calls -> Call] /\ CallsSound'
  BY FinishSound DEF WriteKey
<1>3. UNCHANGED <<tenant, contended, started, faults>>
  BY DEF WriteKey, Finish, Move
<1>4. \/ UNCHANGED key
      \/ tenant[call[c].tenant] # Null /\ key' = [key EXCEPT ![k] = row]
      \/ key[k] = Null /\ key' = [key EXCEPT ![k] = Null]
      \/ /\ key[k] # Null
         /\ key' = [key EXCEPT ![k] = [key[k] EXCEPT !.status = Saved(c, @)]]
  BY DEF WriteKey, TenantExists
<1>5. row \in Key /\ row.tenant = call[c].tenant
  BY <1>1 DEF Key
<1>6. ASSUME key[k] # Null
      PROVE  /\ [key[k] EXCEPT !.status = Saved(c, @)] \in Key
             /\ [key[k] EXCEPT !.status = Saved(c, @)].tenant = key[k].tenant
  BY <1>1, <1>6 DEF Saved, Key, AccessInv, AccessTypeOK
<1>7. /\ key' \in [KeyIds -> Key \cup {Null}]
      /\ \A j \in KeyIds : key'[j] # Null =>
           \/ key[j] # Null /\ key'[j].tenant = key[j].tenant
           \/ key'[j].tenant \in TenantIds /\ tenant[key'[j].tenant] # Null
  <2> HIDE DEF row
  <2>1. key \in [KeyIds -> Key \cup {Null}]
    BY DEF AccessInv, AccessTypeOK
  <2>2. QED
    BY <1>1, <1>4, <1>5, <1>6, <2>1
<1>8. AccessTypeOK'
  BY <1>2, <1>3, <1>7 DEF AccessInv, AccessTypeOK
<1>9. RowsHaveTenant'
  BY <1>3, <1>7, TenantsKept
<1>10. QED
  BY <1>2, <1>8, <1>9 DEF AccessInv

\* The UPDATE that revokes keys.
LEMMA Revoke_Inv ==
  ASSUME AccessInv, NEW c \in Calls, Revoke(c)
  PROVE  AccessInv'
<1>1. call' \in [Calls -> Call] /\ CallsSound'
  BY FinishSound DEF Revoke
<1>2. UNCHANGED <<tenant, contended, started, faults>>
  BY DEF Revoke, Finish, Move
<1>3. ASSUME NEW k \in KeyIds, key[k] # Null
      PROVE  Revoked(k) \in Key /\ Revoked(k).tenant = key[k].tenant
  BY <1>3 DEF Revoked, Key, KeyStatus, AccessInv, AccessTypeOK
<1>4. \A k \in KeyIds : \/ key'[k] = key[k]
                        \/ key[k] # Null /\ key'[k] = Revoked(k)
  BY DEF Revoke, RevokedBy
<1>5. /\ key' \in [KeyIds -> Key \cup {Null}]
      /\ \A k \in KeyIds : key'[k] # Null =>
           key[k] # Null /\ key'[k].tenant = key[k].tenant
  <2>1. key' = [k \in KeyIds |-> key'[k]]
    BY DEF Revoke
  <2>2. QED
    BY <1>3, <1>4, <2>1 DEF AccessInv, AccessTypeOK
<1>6. AccessTypeOK'
  BY <1>1, <1>2, <1>5 DEF AccessInv, AccessTypeOK
<1>7. RowsHaveTenant'
  BY <1>2, <1>5, TenantsKept
<1>8. QED
  BY <1>1, <1>6, <1>7 DEF AccessInv

\* A statement fails: the call returns, and the tables are as they were.
LEMMA StatementFails_Inv ==
  ASSUME AccessInv, NEW c \in Calls, StatementFails(c)
  PROVE  AccessInv'
<1>1. call' \in [Calls -> Call] /\ CallsSound'
  BY FinishSound DEF StatementFails
<1>2. UNCHANGED <<tenant, key, contended, started>>
  BY DEF StatementFails, Finish, Move
<1>3. faults' \in 0..MaxFaults
  BY AccessAssumption DEF StatementFails, Fault, AccessInv, AccessTypeOK
<1>4. AccessTypeOK'
  BY <1>1, <1>2, <1>3 DEF AccessInv, AccessTypeOK
<1>5. QED
  BY <1>1, <1>2, <1>4, RowsKept DEF AccessInv

LEMMA CallStep_Inv ==
  ASSUME AccessInv, NEW c \in Calls, CallStep(c)
  PROVE  AccessInv'
BY BeginStep_Inv, InsertStep_Inv, DeleteStep_Inv, SelectStep_Inv,
   WriteTenant_Inv, WriteKey_Inv, Revoke_Inv, StatementFails_Inv
DEF CallStep

\* The process restarts.
LEMMA AccessRestart_Inv ==
  ASSUME AccessInv, AccessRestart
  PROVE  AccessInv'
<1>1. UNCHANGED <<tenant, key, contended, started>>
  BY DEF AccessRestart
<1>2. faults' \in 0..MaxFaults
  BY AccessAssumption DEF AccessRestart, Fault, AccessInv, AccessTypeOK
<1>3. ASSUME NEW c \in Calls PROVE call'[c] \in Call /\ Sound(c, call'[c])
  <2>1. call[c] \in Call /\ Sound(c, call[c])
    BY DEF AccessInv, AccessTypeOK, CallsSound
  <2>2. call'[c] \in {call[c], Ended(call[c], "lost")}
    BY DEF AccessRestart
  <2>3. QED
    BY <2>1, <2>2, EndedSound
<1>4. call' \in [Calls -> Call] /\ CallsSound'
  <2>1. call' = [c \in Calls |-> call'[c]]
    BY DEF AccessRestart
  <2>2. call' \in [Calls -> Call]
    BY <1>3, <2>1
  <2>3. QED
    BY <1>3, <2>2 DEF CallsSound, Sound
<1>5. AccessTypeOK'
  BY <1>1, <1>2, <1>4 DEF AccessInv, AccessTypeOK
<1>6. QED
  BY <1>1, <1>4, <1>5, RowsKept DEF AccessInv

\* Nothing happens.
LEMMA AccessStutter_Inv ==
  ASSUME AccessInv, UNCHANGED accessVars
  PROVE  AccessInv'
BY DEF AccessInv, AccessTypeOK, CallsSound, Sound, RowsHaveTenant, accessVars

LEMMA AccessInvariant == AccessSpec => []AccessInv
<1>1. AccessInit => AccessInv
  BY AccessInit_Inv
<1>2. AccessInv /\ [AccessNext]_accessVars => AccessInv'
  BY CallStep_Inv, AccessRestart_Inv, AccessStutter_Inv
  DEF AccessNext
<1>3. QED
  BY <1>1, <1>2, PTL DEF AccessSpec

\* Type correctness of the tables and of the calls.
THEOREM AccessTypeCorrect == AccessSpec => []AccessTypeOK
BY AccessInvariant, PTL DEF AccessInv

\* Keys belong to tenants that are in the table, however deletions overlap the
\* calls that create them and save them again.
THEOREM TenantRowsHold == AccessSpec => []RowsHaveTenant
BY AccessInvariant, PTL DEF AccessInv

-----------------------------------------------------------------------------
(* What a call outside contended relies on.                                *)

\* Which row a call is about, and what it may save.
Target(c, q) ==
  /\ q.pc = "idle" => q.op = Null /\ q.tenant = Null /\ q.key = Null
  /\ q.pc # "done" => q.reply = Null
  /\ q.pc # "idle" => q.tenant \in TenantIds
  /\ q.op = "createTenant" => q.tenant = c
  /\ q.op \in {"createTenant", "updateTenant", "deleteTenant"} => q.key = Null
  /\ q.op = "updateKey" => q.key # Null
  /\ q.pc \in {"select", "write"} => Saver(q.op) \/ q.op = "deleteTenant"
  /\ q.pc = "revoke" => q.op \in {"deleteTenant", "revokeKey"}
  /\ q.op = "deleteTenant" => q.entity \in {"inactive", Null}
  /\ q.asked # Null /\ q.entity # Null => q.entity = q.asked

Targets == \A c \in Calls : Target(c, call[c])

(* Before a call inserts its row no row has that id, and no other call is  *)
(* about it.                                                               *)
Unborn(c) ==
  /\ tenant[c] = Null /\ key[c] = Null
  /\ \A d \in Calls \ {c} : call[d].tenant # c
  /\ \A d \in Calls : call[d].key # c

Births == \A c \in Calls : call[c].pc \in {"idle", "insert"} => Unborn(c)

(* The calls about a key agree on its tenant, also when the key is gone.   *)
KeyOwners ==
  \A c \in Calls : call[c].key # Null =>
    /\ key[call[c].key] # Null => key[call[c].key].tenant = call[c].tenant
    /\ \A d \in Calls : call[d].key = call[c].key => call[d].tenant = call[c].tenant

(* Outside contended a save in progress is the only call that writes rows  *)
(* of its tenant.                                                          *)
Guarded ==
  \A c, d \in Calls :
    /\ c # d /\ Running(c) /\ Running(d)
    /\ call[c].tenant = call[d].tenant
    /\ Saver(call[c].op) /\ "createKey" \notin {call[c].op, call[d].op}
    => call[c].tenant \in contended

\* The status in the row that a save is about.
There(c) ==
  IF call[c].key = Null THEN tenant[call[c].tenant]
  ELSE IF key[call[c].key] = Null THEN Null
  ELSE key[call[c].key].status

\* A save of an entity whose status nobody asked to change.
Unasked(c) ==
  \/ call[c].op = "createTenant"
  \/ call[c].op \in {"updateTenant", "updateKey"} /\ call[c].asked = Null

(* ... so what it saves is what it read, and the row still says so.        *)
SavesWhatIsThere ==
  \A c \in Calls :
    /\ call[c].pc \in {"select", "write"} /\ Unasked(c)
    /\ call[c].tenant \notin contended
    => /\ There(c) = call[c].entity
       /\ call[c].pc = "write" => call[c].loaded = call[c].entity

NobodyAsked(t) ==
  \A u \in Calls :
    call[u].op = "updateTenant" /\ call[u].tenant = t => call[u].asked # "active"

\* A deletion that has switched its tenant off, or found it so.
Off(d) ==
  /\ call[d].op = "deleteTenant"
  /\ \/ call[d].pc = "revoke"
     \/ call[d].reply = "ok"
     \/ call[d].pc = "write" /\ call[d].loaded = "inactive"

(* A tenant whose deletion got that far stays off.                         *)
DeletedOff ==
  \A d \in Calls :
    /\ Off(d)
    /\ call[d].tenant \notin contended
    /\ NobodyAsked(call[d].tenant)
    => tenant[call[d].tenant] # "active"

LockInv ==
  /\ Targets /\ Births /\ KeyOwners /\ Guarded
  /\ SavesWhatIsThere /\ DeletedOff

\* Before the first call there is nothing to rely on.
LEMMA AccessInit_Lock == AccessInit => LockInv
<1> SUFFICES ASSUME AccessInit PROVE LockInv
  OBVIOUS
<1> USE AccessAssumption
<1>1. \A c \in Calls : call[c] = NoCall
  BY DEF AccessInit
<1>2. Targets
  BY <1>1 DEF Targets, Target, NoCall, Saver, Op
<1>3. \A c \in Calls : tenant[c] = Null /\ key[c] = Null
  BY DEF AccessInit, TenantIds, KeyIds
<1>4. Births
  BY <1>1, <1>3 DEF Births, Unborn, NoCall, TenantIds, KeyIds
<1>5. KeyOwners /\ Guarded /\ SavesWhatIsThere /\ DeletedOff
  BY <1>1 DEF KeyOwners, Guarded, SavesWhatIsThere, DeletedOff, Off, Running, NoCall
<1>6. QED
  BY <1>2, <1>4, <1>5 DEF LockInv

\* The first read of a call: the row it is about is there.
BeginOf(c) ==
  \/ BeginCreateTenant(c) \/ BeginUpdateTenant(c) \/ BeginDeleteTenant(c)
  \/ BeginCreateKey(c) \/ BeginCopyKey(c) \/ BeginUpdateKey(c) \/ BeginRevokeKey(c)

BegunWith(c, q) ==
  /\ q.pc \notin {"idle", "write", "done"} /\ q.reply = Null
  /\ Target(c, q)
  /\ q.op = "createTenant" \/ tenant[q.tenant] # Null
  /\ q.key # Null => key[q.key] # Null /\ key[q.key].tenant = q.tenant
  /\ q.op = "updateTenant" => q.entity = Entity(q.asked, tenant[q.tenant])
  /\ q.op = "updateKey" => q.entity = Entity(q.asked, key[q.key].status)
  /\ q.pc = "revoke" => q.op = "revokeKey"
  /\ q.op = "createTenant" => q.pc = "insert"

LEMMA BeginFacts ==
  ASSUME AccessInv, NEW c \in Calls, BeginOf(c)
  PROVE  /\ call[c].pc = "idle" /\ UNCHANGED <<tenant, key>>
         /\ BegunWith(c, call'[c])
         /\ \A d \in Calls \ {c} : call'[d] = call[d]
         /\ contended \subseteq contended'
         /\ \A b \in Calls :
              call[b].tenant = call'[c].tenant /\ Overlaps(call'[c].op, b)
                => call'[c].tenant \in contended'
<1> USE AccessAssumption
<1>1. ASSUME NEW q, Begin(c, q), BegunWith(c, q)
      PROVE  /\ call[c].pc = "idle" /\ UNCHANGED <<tenant, key>>
             /\ BegunWith(c, call'[c])
             /\ \A d \in Calls \ {c} : call'[d] = call[d]
             /\ contended \subseteq contended'
             /\ \A b \in Calls :
                  call[b].tenant = call'[c].tenant /\ Overlaps(call'[c].op, b)
                    => call'[c].tenant \in contended'
  <2>1. call'[c] = q /\ \A d \in Calls \ {c} : call'[d] = call[d]
    BY <1>1 DEF Begin, AccessInv, AccessTypeOK
  <2>2. QED
    BY <1>1, <2>1 DEF Begin
<1>2. ASSUME NEW k \in KeyIds, key[k] # Null
      PROVE  key[k].tenant \in TenantIds /\ tenant[key[k].tenant] # Null
  BY <1>2 DEF AccessInv, AccessTypeOK, RowsHaveTenant, Key
<1>3. CASE BeginCreateTenant(c)
  <2>1. PICK s \in TenantStatus :
          /\ Begin(c, [NoCall EXCEPT !.op = "createTenant", !.pc = "insert", !.tenant = c,
                         !.asked = s, !.entity = s])
    BY <1>3 DEF BeginCreateTenant
  <2> DEFINE q == [NoCall EXCEPT !.op = "createTenant", !.pc = "insert", !.tenant = c,
                         !.asked = s, !.entity = s]
  <2>2. /\ q.op = "createTenant" /\ q.pc = "insert" /\ q.tenant = c
        /\ q.key = Null /\ q.asked = s
        /\ q.entity = s /\ q.reply = Null
    BY DEF NoCall
  <2> HIDE DEF q
  <2>3. BegunWith(c, q)
    BY <1>2, <2>1, <2>2 DEF BegunWith, Target, Saver, Entity, Op, KeyIds, TenantIds
  <2>4. QED
    BY <1>1, <2>1, <2>3 DEF q
<1>4. CASE BeginUpdateTenant(c)
  <2>1. PICK t \in TenantIds, s \in TenantStatus \cup {Null} :
          /\ tenant[t] # Null
          /\ Begin(c, [NoCall EXCEPT !.op = "updateTenant", !.pc = "select", !.tenant = t,
                         !.asked = s, !.entity = Entity(s, tenant[t])])
    BY <1>4 DEF BeginUpdateTenant
  <2> DEFINE q == [NoCall EXCEPT !.op = "updateTenant", !.pc = "select", !.tenant = t,
                         !.asked = s, !.entity = Entity(s, tenant[t])]
  <2>2. /\ q.op = "updateTenant" /\ q.pc = "select" /\ q.tenant = t
        /\ q.key = Null /\ q.asked = s
        /\ q.entity = Entity(s, tenant[t]) /\ q.reply = Null
    BY DEF NoCall
  <2> HIDE DEF q
  <2>3. BegunWith(c, q)
    BY <1>2, <2>1, <2>2 DEF BegunWith, Target, Saver, Entity, Op, KeyIds, TenantIds
  <2>4. QED
    BY <1>1, <2>1, <2>3 DEF q
<1>5. CASE BeginDeleteTenant(c)
  <2>1. PICK t \in TenantIds :
          /\ tenant[t] # Null
          /\ Begin(c, [NoCall EXCEPT !.op = "deleteTenant", !.pc = "delete", !.tenant = t,
                         !.entity = "inactive"])
    BY <1>5 DEF BeginDeleteTenant
  <2> DEFINE q == [NoCall EXCEPT !.op = "deleteTenant", !.pc = "delete", !.tenant = t,
                         !.entity = "inactive"]
  <2>2. /\ q.op = "deleteTenant" /\ q.pc = "delete" /\ q.tenant = t
        /\ q.key = Null /\ q.asked = Null
        /\ q.entity = "inactive" /\ q.reply = Null
    BY DEF NoCall
  <2> HIDE DEF q
  <2>3. BegunWith(c, q)
    BY <1>2, <2>1, <2>2 DEF BegunWith, Target, Saver, Entity, Op, KeyIds, TenantIds
  <2>4. QED
    BY <1>1, <2>1, <2>3 DEF q
<1>6. CASE BeginCreateKey(c)
  <2>1. PICK t \in TenantIds :
          /\ tenant[t] # Null
          /\ Begin(c, [NoCall EXCEPT !.op = "createKey", !.pc = "insert", !.tenant = t,
                         !.entity = "active"])
    BY <1>6 DEF BeginCreateKey, Status, TenantStatus
  <2> DEFINE q == [NoCall EXCEPT !.op = "createKey", !.pc = "insert", !.tenant = t,
                         !.entity = "active"]
  <2>2. /\ q.op = "createKey" /\ q.pc = "insert" /\ q.tenant = t
        /\ q.key = Null /\ q.asked = Null
        /\ q.entity = "active" /\ q.reply = Null
    BY DEF NoCall
  <2> HIDE DEF q
  <2>3. BegunWith(c, q)
    BY <1>2, <2>1, <2>2 DEF BegunWith, Target, Saver, Entity, Op, KeyIds, TenantIds
  <2>4. QED
    BY <1>1, <2>1, <2>3 DEF q
<1>7. CASE BeginCopyKey(c)
  <2>1. PICK k \in KeyIds :
          /\ key[k] # Null
          /\ Begin(c, [NoCall EXCEPT !.op = "createKey", !.pc = "insert", !.tenant = key[k].tenant,
                         !.entity = "active"])
    BY <1>7 DEF BeginCopyKey
  <2> DEFINE q == [NoCall EXCEPT !.op = "createKey", !.pc = "insert", !.tenant = key[k].tenant,
                         !.entity = "active"]
  <2>2. /\ q.op = "createKey" /\ q.pc = "insert" /\ q.tenant = key[k].tenant
        /\ q.key = Null /\ q.asked = Null
        /\ q.entity = "active" /\ q.reply = Null
    BY DEF NoCall
  <2> HIDE DEF q
  <2>3. BegunWith(c, q)
    BY <1>2, <2>1, <2>2 DEF BegunWith, Target, Saver, Entity, Op, KeyIds, TenantIds
  <2>4. QED
    BY <1>1, <2>1, <2>3 DEF q
<1>8. CASE BeginUpdateKey(c)
  <2>1. PICK k \in KeyIds, s \in KeyStatus \cup {Null} :
          /\ key[k] # Null
          /\ Begin(c, [NoCall EXCEPT !.op = "updateKey", !.pc = "select", !.tenant = key[k].tenant,
                         !.key = k, !.asked = s, !.entity = Entity(s, key[k].status)])
    BY <1>8 DEF BeginUpdateKey
  <2> DEFINE q == [NoCall EXCEPT !.op = "updateKey", !.pc = "select", !.tenant = key[k].tenant,
                         !.key = k, !.asked = s, !.entity = Entity(s, key[k].status)]
  <2>2. /\ q.op = "updateKey" /\ q.pc = "select" /\ q.tenant = key[k].tenant
        /\ q.key = k /\ q.asked = s
        /\ q.entity = Entity(s, key[k].status) /\ q.reply = Null
    BY DEF NoCall
  <2> HIDE DEF q
  <2>3. BegunWith(c, q)
    BY <1>2, <2>1, <2>2 DEF BegunWith, Target, Saver, Entity, Op, KeyIds, TenantIds
  <2>4. QED
    BY <1>1, <2>1, <2>3 DEF q
<1>9. CASE BeginRevokeKey(c)
  <2>1. PICK k \in KeyIds :
          /\ key[k] # Null
          /\ Begin(c, [NoCall EXCEPT !.op = "revokeKey", !.pc = "revoke", !.tenant = key[k].tenant,
                         !.key = k])
    BY <1>9 DEF BeginRevokeKey
  <2> DEFINE q == [NoCall EXCEPT !.op = "revokeKey", !.pc = "revoke", !.tenant = key[k].tenant,
                         !.key = k]
  <2>2. /\ q.op = "revokeKey" /\ q.pc = "revoke" /\ q.tenant = key[k].tenant
        /\ q.key = k /\ q.asked = Null
        /\ q.entity = Null /\ q.reply = Null
    BY DEF NoCall
  <2> HIDE DEF q
  <2>3. BegunWith(c, q)
    BY <1>2, <2>1, <2>2 DEF BegunWith, Target, Saver, Entity, Op, KeyIds, TenantIds
  <2>4. QED
    BY <1>1, <2>1, <2>3 DEF q
<1>10. QED
  BY <1>3, <1>4, <1>5, <1>6, <1>7, <1>8, <1>9 DEF BeginOf

\* A later step of a call: only where it stands changes.
StepOf(c) ==
  \/ InsertTenant(c) \/ InsertKey(c) \/ HardDelete(c) \/ FallBack(c)
  \/ SelectRow(c) \/ WriteTenant(c) \/ WriteKey(c) \/ Revoke(c)
  \/ StatementFails(c)

LEMMA StepFacts ==
  ASSUME AccessInv, NEW c \in Calls, StepOf(c)
  PROVE  LET q == call'[c]
         IN  /\ Running(c) /\ contended' = contended
             /\ \A d \in Calls \ {c} : call'[d] = call[d]
             /\ q.op = call[c].op /\ q.tenant = call[c].tenant
             /\ q.key = call[c].key /\ q.asked = call[c].asked
             /\ q.pc \in {"select", "write", "revoke", "done"}
             /\ q.entity \in {call[c].entity, Null}
             /\ q.pc # "done" => q.reply = call[c].reply /\ q.entity = call[c].entity
<1>1. call[c] \in Call /\ call \in [Calls -> Call]
  BY DEF AccessInv, AccessTypeOK
<1>2. ASSUME NEW reply, Finish(c, reply)
      PROVE  /\ contended' = contended
             /\ \A d \in Calls \ {c} : call'[d] = call[d]
             /\ call'[c] = Ended(call[c], reply)
  BY <1>1, <1>2 DEF Finish, Move
<1>3. ASSUME NEW reply
      PROVE  LET q == Ended(call[c], reply)
             IN  /\ q.op = call[c].op /\ q.tenant = call[c].tenant
                 /\ q.key = call[c].key /\ q.asked = call[c].asked
                 /\ q.pc = "done" /\ q.entity = Null
  BY <1>1 DEF Ended, Call
<1>4. ASSUME NEW pc \in {"select", "revoke"}, Goto(c, pc)
      PROVE  LET q == call'[c]
             IN  /\ contended' = contended
                 /\ \A d \in Calls \ {c} : call'[d] = call[d]
                 /\ q.op = call[c].op /\ q.tenant = call[c].tenant
                 /\ q.key = call[c].key /\ q.asked = call[c].asked
                 /\ q.pc = pc /\ q.entity = call[c].entity /\ q.reply = call[c].reply
  BY <1>1, <1>4 DEF Goto, Move, Call
<1>5. CASE SelectRow(c)
  <2>1. PICK found : Move(c, [call[c] EXCEPT !.pc = "write", !.loaded = found])
    BY <1>5 DEF SelectRow
  <2>2. QED
    BY <1>1, <1>5, <2>1 DEF Move, Call, SelectRow, Running
<1>6. ASSUME NEW reply, Finish(c, reply), Running(c)
      PROVE  LET q == call'[c]
             IN  /\ Running(c) /\ contended' = contended
                 /\ \A d \in Calls \ {c} : call'[d] = call[d]
                 /\ q.op = call[c].op /\ q.tenant = call[c].tenant
                 /\ q.key = call[c].key /\ q.asked = call[c].asked
                 /\ q.pc \in {"select", "write", "revoke", "done"}
                 /\ q.entity \in {call[c].entity, Null}
                 /\ q.pc = "done"
  BY <1>2, <1>3, <1>6
<1>7. CASE StepOf(c) /\ ~SelectRow(c)
  <2>1. Running(c)
    BY <1>7 DEF StepOf, InsertTenant, InsertKey, HardDelete, FallBack, WriteTenant,
       WriteKey, Revoke, StatementFails, Running
  <2>2. \/ \E pc \in {"select", "revoke"} : Goto(c, pc)
        \/ \E reply : Finish(c, reply)
    BY <1>7 DEF StepOf, InsertTenant, InsertKey, HardDelete, FallBack, WriteTenant,
       WriteKey, Revoke, StatementFails
  <2>3. CASE \E pc \in {"select", "revoke"} : Goto(c, pc)
    BY <1>4, <2>1, <2>3
  <2>4. CASE \E reply : Finish(c, reply)
    BY <1>6, <2>1, <2>4
  <2>5. QED
    BY <2>2, <2>3, <2>4
<1>8. QED
  BY <1>5, <1>7 DEF StepOf

LEMMA StepKinds ==
  ASSUME NEW c, CallStep(c)
  PROVE  BeginOf(c) \/ StepOf(c)
BY DEF CallStep, BeginOf, StepOf

\* Which calls write a row of tenants: those about that tenant.
LEMMA TenantWrites ==
  ASSUME AccessInv, LockInv, NEW c \in Calls, StepOf(c),
         NEW t \in TenantIds, tenant'[t] # tenant[t]
  PROVE  /\ call[c].tenant = t /\ call[c].op # "createKey"
         /\ \/ InsertTenant(c) /\ t = c
            \/ HardDelete(c) /\ tenant'[t] = Null
            \/ WriteTenant(c)
<1>1. InsertTenant(c) \/ HardDelete(c) \/ WriteTenant(c)
  BY DEF StepOf, InsertKey, FallBack, SelectRow, WriteKey, Revoke, StatementFails
<1>2. Target(c, call[c]) /\ tenant \in [TenantIds -> TenantStatus \cup {Null}]
  BY DEF LockInv, Targets, AccessInv, AccessTypeOK
<1>3. CASE InsertTenant(c)
  BY <1>2, <1>3 DEF InsertTenant, Target
<1>4. CASE HardDelete(c)
  BY <1>2, <1>4 DEF HardDelete
<1>5. CASE WriteTenant(c)
  BY <1>2, <1>5 DEF WriteTenant, Target, Saver
<1>6. QED
  BY <1>1, <1>3, <1>4, <1>5

\* Which calls write a row of tenant_api_keys.
LEMMA KeyWrites ==
  ASSUME AccessInv, LockInv, NEW c \in Calls, StepOf(c),
         NEW k \in KeyIds, key'[k] # key[k]
  PROVE  \/ InsertKey(c) /\ k = c /\ call[c].pc = "insert"
         \/ /\ HardDelete(c) /\ call[c].op = "deleteTenant"
            /\ key'[k] = Null /\ key[k] # Null /\ key[k].tenant = call[c].tenant
         \/ /\ WriteKey(c) /\ k = call[c].key /\ call[c].op = "updateKey"
            /\ key'[k] # Null => key'[k].tenant = (IF key[k] = Null THEN call[c].tenant
                                                    ELSE key[k].tenant)
         \/ /\ Revoke(c) /\ call[c].op # "createKey"
            /\ key[k] # Null /\ key'[k] = Revoked(k)
            /\ k = call[c].key \/ key[k].tenant = call[c].tenant
<1>1. InsertKey(c) \/ HardDelete(c) \/ WriteKey(c) \/ Revoke(c)
  BY DEF StepOf, InsertTenant, FallBack, SelectRow, WriteTenant, StatementFails
<1>2. Target(c, call[c]) /\ key \in [KeyIds -> Key \cup {Null}]
  BY DEF LockInv, Targets, AccessInv, AccessTypeOK
<1>3. CASE InsertKey(c)
  BY <1>2, <1>3 DEF InsertKey
<1>4. CASE HardDelete(c)
  BY <1>2, <1>4 DEF HardDelete
<1>5. CASE WriteKey(c)
  <2>1. k = call[c].key
    BY <1>2, <1>5 DEF WriteKey
  <2>2. call[c].op = "updateKey"
    BY <1>2, <1>5, AccessAssumption DEF WriteKey, Target, Saver
  <2>3. key'[k] = IF call[c].loaded = Null
                    THEN [tenant |-> call[c].tenant, status |-> call[c].entity]
                    ELSE IF key[k] = Null THEN Null
                    ELSE [key[k] EXCEPT !.status = Saved(c, key[k].status)]
    BY <1>2, <1>5, <2>1 DEF WriteKey
  <2>4. call[c].loaded = Null => key[k] = Null
    BY <1>5, <2>1 DEF WriteKey
  <2>5. key[k] # Null =>
          [key[k] EXCEPT !.status = Saved(c, key[k].status)].tenant = key[k].tenant
    BY <1>2 DEF Key
  <2>6. QED
    BY <1>5, <2>1, <2>2, <2>3, <2>4, <2>5
<1>6. CASE Revoke(c)
  <2>1. k \in RevokedBy(c) /\ key'[k] = Revoked(k)
    BY <1>6 DEF Revoke
  <2>2. QED
    BY <1>2, <1>6, <2>1 DEF Revoke, RevokedBy, Target
<1>7. QED
  BY <1>1, <1>3, <1>4, <1>5, <1>6

\* A save outside contended is not overtaken: the row it is about stays.
LEMMA Undisturbed ==
  ASSUME AccessInv, LockInv, NEW c \in Calls, StepOf(c),
         NEW e \in Calls \ {c}, Running(e), Saver(call[e].op),
         call[e].tenant \notin contended
  PROVE  There(e)' = There(e)
<1>1. Running(c) /\ call'[e] = call[e]
  BY StepFacts
<1>2. ~(call[c].tenant = call[e].tenant /\ call[c].op # "createKey")
  BY <1>1 DEF LockInv, Guarded, Saver
<1>3. /\ call[e] \in Call /\ call[e].tenant \in TenantIds
      /\ call[e].key \in KeyIds \cup {Null}
  BY DEF AccessInv, AccessTypeOK, CallsSound, Sound, Running, Call
<1>4. CASE call[e].key = Null
  <2>1. tenant'[call[e].tenant] = tenant[call[e].tenant]
    BY <1>2, <1>3, TenantWrites
  <2>2. QED
    BY <1>1, <1>4, <2>1 DEF There
<1>5. CASE call[e].key # Null
  <2>1. PICK k \in KeyIds : k = call[e].key
    BY <1>3, <1>5
  <2>2. /\ key[k] # Null => key[k].tenant = call[e].tenant
        /\ k = call[c].key => call[c].tenant = call[e].tenant
    BY <1>5, <2>1 DEF LockInv, KeyOwners
  <2>3. key'[k] = key[k]
    <3>1. SUFFICES ASSUME key'[k] # key[k] PROVE FALSE
      OBVIOUS
    <3>2. ~(k = c /\ call[c].pc = "insert")
      BY <2>1 DEF LockInv, Births, Unborn
    <3>3. QED
      BY <1>2, <2>2, <3>1, <3>2, KeyWrites
  <2>4. QED
    BY <1>1, <1>5, <2>1, <2>3 DEF There
<1>6. QED
  BY <1>4, <1>5

\* A call knows its row, and saves what it was asked to.
LEMMA CallStep_Targets ==
  ASSUME AccessInv, LockInv, NEW c \in Calls, BeginOf(c) \/ StepOf(c)
  PROVE  Targets'
<1>1. \A d \in Calls : Target(d, call[d])
  BY DEF LockInv, Targets
<1>2. CASE BeginOf(c)
  <2>1. /\ Target(c, call'[c])
        /\ \A d \in Calls \ {c} : call'[d] = call[d]
    BY <1>2, BeginFacts DEF BegunWith
  <2>2. QED
    BY <1>1, <2>1 DEF Targets, Target
<1>3. CASE StepOf(c)
  <2>1. /\ \A d \in Calls \ {c} : call'[d] = call[d]
        /\ call'[c].op = call[c].op /\ call'[c].tenant = call[c].tenant
        /\ call'[c].key = call[c].key /\ call'[c].asked = call[c].asked
        /\ call'[c].pc \in {"select", "write", "revoke", "done"}
        /\ call'[c].entity \in {call[c].entity, Null}
        /\ call'[c].pc # "done" => call'[c].reply = call[c].reply
        /\ call[c].pc \notin {"idle", "done"}
    BY <1>3, StepFacts DEF Running
  <2>2. /\ call'[c].pc \in {"select", "write"} => Saver(call[c].op) \/ call[c].op = "deleteTenant"
        /\ call'[c].pc = "revoke" => call[c].op \in {"deleteTenant", "revokeKey"}
    <3>1. call[c] \in Call /\ call \in [Calls -> Call]
      BY DEF AccessInv, AccessTypeOK
    <3>2. ASSUME NEW reply, Finish(c, reply) PROVE call'[c].pc = "done"
      BY <3>1, <3>2 DEF Finish, Move, Ended, Call
    <3>3. ASSUME NEW pc, Goto(c, pc) PROVE call'[c].pc = pc
      BY <3>1, <3>3 DEF Goto, Move, Call
    <3>4. CASE SelectRow(c)
      <4>1. call'[c].pc = "write"
        BY <3>1, <3>4 DEF SelectRow, Move, Call
      <4>2. QED
        BY <1>1, <3>4, <4>1 DEF SelectRow, Target
    <3>5. CASE InsertTenant(c) \/ FallBack(c) \/ WriteTenant(c)
      BY <3>2, <3>3, <3>5 DEF InsertTenant, FallBack, WriteTenant, Saver
    <3>6. CASE InsertKey(c) \/ HardDelete(c) \/ WriteKey(c) \/ Revoke(c) \/ StatementFails(c)
      BY <3>2, <3>6 DEF InsertKey, HardDelete, WriteKey, Revoke, StatementFails
    <3>7. QED
      BY <1>3, <3>4, <3>5, <3>6 DEF StepOf
  <2>3. Target(c, call'[c])
    BY <1>1, <2>1, <2>2 DEF Target
  <2>4. QED
    BY <1>1, <2>1, <2>3 DEF Targets, Target
<1>4. QED
  BY <1>2, <1>3

LEMMA CallStep_Births ==
  ASSUME AccessInv, LockInv, NEW c \in Calls, BeginOf(c) \/ StepOf(c)
  PROVE  Births'
<1> SUFFICES ASSUME NEW d \in Calls, call'[d].pc \in {"idle", "insert"}
             PROVE  Unborn(d)'
  BY DEF Births
<1>1. d \in TenantIds /\ d \in KeyIds
  BY DEF TenantIds, KeyIds
<1>2. CASE BeginOf(c)
  <2>1. /\ call[c].pc = "idle" /\ UNCHANGED <<tenant, key>>
        /\ \A e \in Calls \ {c} : call'[e] = call[e]
        /\ call'[c].op = "createTenant" \/ tenant[call'[c].tenant] # Null
        /\ call'[c].op = "createTenant" => call'[c].tenant = c
        /\ call'[c].key # Null => key[call'[c].key] # Null
    BY <1>2, BeginFacts DEF BegunWith, Target
  <2>2. Unborn(d)
    BY <2>1 DEF LockInv, Births
  <2>3. c # d => call'[c].tenant # d
    BY <2>1, <2>2 DEF Unborn
  <2>4. call'[c].key # d
    BY <2>1, <2>2, <1>1, AccessAssumption DEF Unborn
  <2>5. QED
    BY <2>1, <2>2, <2>3, <2>4 DEF Unborn
<1>3. CASE StepOf(c)
  <2>1. /\ \A e \in Calls \ {c} : call'[e] = call[e]
        /\ call'[c].tenant = call[c].tenant /\ call'[c].key = call[c].key
        /\ call'[c].pc \notin {"idle", "insert"}
    BY <1>3, StepFacts
  <2>2. c # d /\ Unborn(d)
    BY <2>1 DEF LockInv, Births
  <2>3. tenant'[d] = tenant[d]
    BY <1>1, <1>3, <2>2, TenantWrites DEF Unborn
  <2>4. key'[d] = key[d]
    BY <1>1, <1>3, <2>2, KeyWrites DEF Unborn
  <2>5. QED
    BY <2>1, <2>2, <2>3, <2>4 DEF Unborn
<1>4. QED
  BY <1>2, <1>3

LEMMA CallStep_Owners ==
  ASSUME AccessInv, LockInv, NEW c \in Calls, BeginOf(c) \/ StepOf(c)
  PROVE  KeyOwners'
<1> SUFFICES ASSUME NEW d \in Calls, NEW k, k = call'[d].key, k # Null
             PROVE  /\ key'[k] # Null => key'[k].tenant = call'[d].tenant
                    /\ \A e \in Calls : call'[e].key = k => call'[e].tenant = call'[d].tenant
  BY DEF KeyOwners
<1>1. \A e \in Calls : call[e].key = k =>
        /\ key[k] # Null => key[k].tenant = call[e].tenant
        /\ \A f \in Calls : call[f].key = k => call[f].tenant = call[e].tenant
  BY DEF LockInv, KeyOwners
<1>2. CASE BeginOf(c)
  <2>1. /\ UNCHANGED <<tenant, key>>
        /\ \A e \in Calls \ {c} : call'[e] = call[e]
        /\ call'[c].key # Null =>
             key[call'[c].key] # Null /\ key[call'[c].key].tenant = call'[c].tenant
    BY <1>2, BeginFacts DEF BegunWith
  <2>2. \A e \in Calls : call'[e].key = k /\ key[k] # Null => key[k].tenant = call'[e].tenant
    BY <1>1, <2>1
  <2>3. QED
    BY <1>1, <2>1, <2>2
<1>3. CASE StepOf(c)
  <2>1. \A e \in Calls : call'[e].tenant = call[e].tenant /\ call'[e].key = call[e].key
    BY <1>3, StepFacts
  <2>2. k \in KeyIds
    BY <2>1 DEF AccessInv, AccessTypeOK, Call
  <2>3. key'[k] # Null => key'[k].tenant = call[d].tenant
    <3>1. CASE key'[k] = key[k]
      BY <1>1, <2>1, <3>1
    <3>2. CASE key'[k] # key[k]
      <4>1. ~(k = c /\ call[c].pc = "insert")
        BY <2>1 DEF LockInv, Births, Unborn
      <4>2. key[k] # Null => Revoked(k).tenant = key[k].tenant
        BY <2>2 DEF Revoked, AccessInv, AccessTypeOK, Key
      <4>3. QED
        BY <1>1, <1>3, <2>1, <2>2, <3>2, <4>1, <4>2, KeyWrites
    <3>3. QED
      BY <3>1, <3>2
  <2>4. QED
    BY <1>1, <2>1, <2>3
<1>4. QED
  BY <1>2, <1>3

LEMMA CallStep_Guarded ==
  ASSUME AccessInv, LockInv, NEW c \in Calls, BeginOf(c) \/ StepOf(c)
  PROVE  Guarded'
<1>1. CASE BeginOf(c)
  <2>1. /\ \A e \in Calls \ {c} : call'[e] = call[e]
        /\ contended \subseteq contended'
        /\ \A b \in Calls : call[b].tenant = call'[c].tenant /\ Overlaps(call'[c].op, b)
             => call'[c].tenant \in contended'
    BY <1>1, BeginFacts
  <2>2. QED
    BY <2>1 DEF LockInv, Guarded, Overlaps, Running
<1>2. CASE StepOf(c)
  <2>1. /\ \A e \in Calls \ {c} : call'[e] = call[e]
        /\ contended' = contended /\ Running(c)
        /\ call'[c].tenant = call[c].tenant /\ call'[c].op = call[c].op
    BY <1>2, StepFacts
  <2>2. QED
    BY <2>1 DEF LockInv, Guarded, Running
<1>3. QED
  BY <1>1, <1>2

\* What nobody asked to change is saved as it stands in its row.
LEMMA CallStep_Saves ==
  ASSUME AccessInv, LockInv, NEW c \in Calls, BeginOf(c) \/ StepOf(c)
  PROVE  SavesWhatIsThere'
<1> SUFFICES ASSUME NEW e \in Calls, call'[e].pc \in {"select", "write"},
                    Unasked(e)', call'[e].tenant \notin contended'
             PROVE  /\ There(e)' = call'[e].entity
                    /\ call'[e].pc = "write" => call'[e].loaded = call'[e].entity
  BY DEF SavesWhatIsThere
<1>1. /\ Target(e, call[e]) /\ call[e] \in Call /\ call \in [Calls -> Call]
      /\ tenant \in [TenantIds -> TenantStatus \cup {Null}]
  BY DEF LockInv, Targets, AccessInv, AccessTypeOK
<1>2. CASE BeginOf(c) /\ e # c
  <2>1. call'[e] = call[e] /\ UNCHANGED <<tenant, key>> /\ contended \subseteq contended'
    BY <1>2, BeginFacts
  <2>2. There(e)' = There(e) /\ Unasked(e)
    BY <2>1 DEF There, Unasked
  <2>3. QED
    BY <2>1, <2>2 DEF LockInv, SavesWhatIsThere
<1>3. CASE BeginOf(c) /\ e = c
  <2>1. BegunWith(c, call'[c]) /\ UNCHANGED <<tenant, key>>
    BY <1>3, BeginFacts
  <2>2. call'[c].op \in {"updateTenant", "updateKey"} /\ call'[c].asked = Null
    BY <1>3, <2>1 DEF BegunWith, Unasked
  <2>3. call'[c].pc # "write"
    BY <2>1 DEF BegunWith
  <2>4. CASE call'[c].op = "updateTenant"
    BY <1>3, <2>1, <2>2, <2>3, <2>4 DEF BegunWith, Target, Entity, There
  <2>5. CASE call'[c].op = "updateKey"
    BY <1>3, <2>1, <2>2, <2>3, <2>5 DEF BegunWith, Target, Entity, There
  <2>6. QED
    BY <2>2, <2>4, <2>5
<1>4. CASE StepOf(c) /\ e # c
  <2>1. call'[e] = call[e] /\ contended' = contended
    BY <1>4, StepFacts
  <2>2. Unasked(e) /\ Running(e) /\ Saver(call[e].op)
    BY <2>1 DEF Unasked, Running, Saver
  <2>3. There(e)' = There(e)
    BY <1>4, <2>1, <2>2, Undisturbed
  <2>4. QED
    BY <2>1, <2>2, <2>3 DEF LockInv, SavesWhatIsThere
<1>5. CASE StepOf(c) /\ e = c
  <2>1. /\ contended' = contended /\ Running(c)
        /\ call'[c].op = call[c].op /\ call'[c].tenant = call[c].tenant
        /\ call'[c].key = call[c].key /\ call'[c].asked = call[c].asked
        /\ call'[c].entity = call[c].entity
    BY <1>5, StepFacts
  <2>2. Unasked(c) /\ call[c].op # "deleteTenant"
    BY <1>5, <2>1 DEF Unasked
  <2>3. ASSUME NEW reply, Finish(c, reply) PROVE call'[c].pc = "done"
    BY <1>1, <2>3 DEF Finish, Move, Ended, Call
  <2>4. ASSUME NEW pc, Goto(c, pc) PROVE call'[c].pc = pc
    BY <1>1, <2>4 DEF Goto, Move, Call
  <2>5. SelectRow(c) \/ InsertTenant(c)
    BY <1>5, <2>2, <2>3, <2>4
    DEF StepOf, InsertKey, HardDelete, FallBack, WriteTenant, WriteKey, Revoke, StatementFails
  <2>6. CASE SelectRow(c)
    <3>1. call'[c].pc = "write" /\ call'[c].loaded = There(c) /\ There(c)' = There(c)
      BY <1>1, <1>5, <2>1, <2>6 DEF SelectRow, Move, Call, There
    <3>2. There(c) = call[c].entity
      BY <1>5, <2>1, <2>2, <2>6 DEF LockInv, SavesWhatIsThere, SelectRow
    <3>3. QED
      BY <1>5, <2>1, <3>1, <3>2
  <2>7. CASE InsertTenant(c)
    <3>1. call'[c].pc = "select"
      BY <1>5, <2>3, <2>4, <2>7 DEF InsertTenant
    <3>2. call[c].key = Null /\ call[c].tenant = c /\ c \in TenantIds
      BY <1>1, <1>5, <2>7 DEF InsertTenant, Target, TenantIds
    <3>3. tenant'[c] = call[c].entity
      BY <1>1, <2>7, <3>2 DEF InsertTenant
    <3>4. QED
      BY <1>5, <2>1, <3>1, <3>2, <3>3 DEF There
  <2>8. QED
    BY <2>5, <2>6, <2>7
<1>6. QED
  BY <1>2, <1>3, <1>4, <1>5

\* A save does not switch a tenant on that nobody asked for.
LEMMA WriteOff ==
  ASSUME AccessInv, LockInv, NEW x \in Calls, WriteTenant(x),
         NEW t, t = call[x].tenant, t \notin contended, NobodyAsked(t),
         \/ tenant[t] # "active"
         \/ call[x].op = "deleteTenant" /\ call'[x].pc = "revoke"
  PROVE  tenant'[t] # "active"
<1> USE AccessAssumption DEF Status, TenantStatus
<1>1. /\ call[x].pc = "write" /\ call[x].key = Null /\ t \in TenantIds
      /\ call[x].entity \in TenantStatus
      /\ Target(x, call[x]) /\ call[x] \in Call /\ call \in [Calls -> Call]
      /\ tenant \in [TenantIds -> TenantStatus \cup {Null}]
  BY DEF WriteTenant, LockInv, Targets, AccessInv, AccessTypeOK, CallsSound, Sound
<1>2. call[x].op \in {"createTenant", "updateTenant", "deleteTenant"}
  BY <1>1 DEF Target, Saver
<1>3. CASE tenant' = tenant
  <2>1. tenant[t] # "active"
    <3>1. SUFFICES ASSUME call[x].op = "deleteTenant", call'[x].pc = "revoke",
                          tenant[t] = "active"
                   PROVE  FALSE
      OBVIOUS
    <3>2. call[x].loaded # Null
      <4>1. ASSUME NEW reply, Finish(x, reply) PROVE call'[x].pc = "done"
        BY <1>1, <4>1 DEF Finish, Move, Ended, Call
      <4>2. QED
        BY <3>1, <4>1 DEF WriteTenant
    <3>3. tenant[t] = Saved(x, tenant[t])
      BY <1>1, <1>3, <3>1, <3>2 DEF WriteTenant
    <3>4. call[x].entity = "inactive"
      BY <1>1, <3>1 DEF Target
    <3>5. call[x].loaded = "inactive"
      BY <3>1, <3>3, <3>4 DEF Saved
    <3>6. QED
      BY <1>1, <3>1, <3>5 DEF LockInv, DeletedOff, Off
  <2>2. QED
    BY <1>3, <2>1
<1>4. CASE tenant' # tenant
  <2>1. tenant'[t] = IF call[x].loaded = Null THEN call[x].entity
                     ELSE IF tenant[t] = Null THEN Null
                     ELSE Saved(x, tenant[t])
    BY <1>1, <1>4 DEF WriteTenant
  <2>2. CASE call[x].entity = "inactive"
    <3>1. call[x].loaded = "inactive" => tenant[t] # "active"
      BY <1>1 DEF LockInv, DeletedOff, Off
    <3>2. QED
      BY <2>1, <2>2, <3>1 DEF Saved
  <2>3. CASE call[x].entity = "active"
    <3>1. call[x].op # "deleteTenant"
      BY <1>1, <2>3 DEF Target
    <3>2. call[x].op = "updateTenant" => call[x].asked = Null
      BY <1>1, <2>3 DEF Target, NobodyAsked
    <3>3. There(x) = "active" /\ call[x].loaded = "active"
      BY <1>1, <1>2, <2>3, <3>1, <3>2 DEF LockInv, SavesWhatIsThere, Unasked
    <3>4. tenant[t] = "active"
      BY <1>1, <3>3 DEF There
    <3>5. QED
      BY <3>1, <3>4
  <2>4. QED
    BY <1>1, <2>2, <2>3
<1>5. QED
  BY <1>3, <1>4

\* A tenant that was deleted stays off.
LEMMA CallStep_DeletedOff ==
  ASSUME AccessInv, LockInv, NEW c \in Calls, BeginOf(c) \/ StepOf(c)
  PROVE  DeletedOff'
<1> USE AccessAssumption
<1> SUFFICES ASSUME NEW d \in Calls, Off(d)',
                    NEW t, t = call'[d].tenant, t \notin contended', NobodyAsked(t)'
             PROVE  tenant'[t] # "active"
  BY DEF DeletedOff
<1>1. /\ \A e \in Calls : Target(e, call[e])
      /\ call \in [Calls -> Call]
      /\ tenant \in [TenantIds -> TenantStatus \cup {Null}]
  BY DEF LockInv, Targets, AccessInv, AccessTypeOK
<1>2. CASE BeginOf(c)
  <2>1. /\ call[c].pc = "idle" /\ UNCHANGED <<tenant, key>>
        /\ BegunWith(c, call'[c])
        /\ \A e \in Calls \ {c} : call'[e] = call[e]
        /\ contended \subseteq contended'
    BY <1>2, BeginFacts
  <2>2. d # c
    BY <2>1 DEF BegunWith, Off
  <2>3. Off(d) /\ t = call[d].tenant /\ t \notin contended
    BY <2>1, <2>2 DEF Off
  <2>4. NobodyAsked(t)
    BY <1>1, <2>1 DEF NobodyAsked, Target, Op
  <2>5. QED
    BY <2>1, <2>3, <2>4 DEF LockInv, DeletedOff
<1>3. CASE StepOf(c)
  <2>1. /\ Running(c) /\ contended' = contended
        /\ \A e \in Calls \ {c} : call'[e] = call[e]
        /\ call'[c].op = call[c].op /\ call'[c].tenant = call[c].tenant
        /\ call'[c].key = call[c].key /\ call'[c].asked = call[c].asked
        /\ call'[c].pc # "done" => call'[c].reply = call[c].reply
    BY <1>3, StepFacts
  <2>2. t = call[d].tenant /\ t \notin contended /\ NobodyAsked(t)
    BY <2>1 DEF NobodyAsked
  <2>3. t \in TenantIds
    <3>1. call[d].pc # "idle"
      BY <1>1, <2>1 DEF Target, Off, Running
    <3>2. QED
      BY <1>1, <2>2, <3>1 DEF Target
  <2>4. CASE Off(d)
    <3>1. tenant[t] # "active"
      BY <2>2, <2>4 DEF LockInv, DeletedOff
    <3>2. SUFFICES ASSUME tenant'[t] # tenant[t] PROVE tenant'[t] # "active"
      BY <3>1
    <3>3. /\ call[c].tenant = t
          /\ \/ InsertTenant(c) /\ t = c
             \/ HardDelete(c) /\ tenant'[t] = Null
             \/ WriteTenant(c)
      BY <1>3, <2>3, <3>2, TenantWrites
    <3>4. ~(InsertTenant(c) /\ t = c)
      BY <2>2, <2>4 DEF InsertTenant, Off, LockInv, Births, Unborn
    <3>5. QED
      BY <2>2, <3>1, <3>3, <3>4, WriteOff DEF Status, TenantStatus
  <2>5. CASE ~Off(d)
    <3>1. d = c
      BY <2>1, <2>5 DEF Off
    <3>2. /\ call[c].op = "deleteTenant" /\ call[c].key = Null /\ t = call[c].tenant
          /\ call[c].pc # "revoke"
      BY <1>1, <2>1, <2>2, <2>5, <3>1 DEF Off, Target
    <3>3. ASSUME NEW reply, Finish(c, reply)
          PROVE  call'[c].pc = "done" /\ call'[c].reply = reply
      BY <1>1, <3>3 DEF Finish, Move, Ended, Call
    <3>4. ASSUME NEW pc, Goto(c, pc)
          PROVE  call'[c].pc = pc
      BY <1>1, <3>4 DEF Goto, Move, Call
    <3>5. call[c].reply = Null
      BY <1>1, <2>1 DEF Target, Running
    <3>6. SelectRow(c) \/ HardDelete(c) \/ WriteTenant(c)
      <4>1. ~FallBack(c)
        BY <2>1, <3>1, <3>4, <3>5 DEF FallBack, Off
      <4>2. ~StatementFails(c)
        BY <3>1, <3>2, <3>3 DEF StatementFails, Off
      <4>3. QED
        BY <1>3, <3>2, <4>1, <4>2 DEF StepOf, InsertTenant, InsertKey, WriteKey, Revoke
    <3>7. CASE SelectRow(c)
      <4>1. call'[c].pc = "write" /\ call'[c].loaded = tenant[t] /\ tenant' = tenant
        BY <1>1, <3>2, <3>7 DEF SelectRow, Move, Call
      <4>2. QED
        BY <2>1, <3>1, <3>5, <4>1 DEF Off
    <3>8. CASE HardDelete(c)
      BY <1>1, <2>3, <3>2, <3>8 DEF HardDelete, Status, TenantStatus
    <3>9. CASE WriteTenant(c)
      <4>1. call'[c].pc = "revoke"
        BY <3>1, <3>2, <3>3, <3>4, <3>9 DEF WriteTenant, Off
      <4>2. QED
        BY <2>2, <3>2, <3>9, <4>1, WriteOff
    <3>10. QED
      BY <3>6, <3>7, <3>8, <3>9
  <2>6. QED
    BY <2>4, <2>5
<1>4. QED
  BY <1>2, <1>3

\* LockInv is about four variables only.
LEMMA Lock_Unchanged ==
  ASSUME LockInv, UNCHANGED <<tenant, key, call, contended>>
  PROVE  LockInv'
BY DEF LockInv, Targets, Target, Births, Unborn, KeyOwners, Guarded,
   SavesWhatIsThere, There, Unasked, DeletedOff, Off, NobodyAsked, Running

\* A restart ends the calls in progress where they stand.
LEMMA Restart_Lock ==
  ASSUME AccessInv, LockInv, AccessRestart
  PROVE  LockInv'
<1> USE AccessAssumption
<1>1. /\ \A c \in Calls : Target(c, call[c])
      /\ call \in [Calls -> Call]
      /\ UNCHANGED <<tenant, key, contended>>
  BY DEF LockInv, Targets, AccessInv, AccessTypeOK, AccessRestart
<1>2. ASSUME NEW c \in Calls
      PROVE  /\ call'[c].op = call[c].op /\ call'[c].tenant = call[c].tenant
             /\ call'[c].key = call[c].key /\ call'[c].asked = call[c].asked
             /\ call'[c].pc \in {"idle", "done"}
             /\ \/ call'[c] = call[c] /\ ~Running(c)
                \/ /\ call'[c].pc = "done" /\ call'[c].reply = "lost"
                   /\ call'[c].entity = Null /\ Running(c)
  BY <1>1 DEF AccessRestart, Ended, Call, Running
<1>3. Targets'
  BY <1>1, <1>2 DEF Targets, Target, Running
<1>4. Births'
  BY <1>1, <1>2 DEF LockInv, Births, Unborn
<1>5. KeyOwners'
  BY <1>1, <1>2 DEF LockInv, KeyOwners
<1>6. Guarded' /\ SavesWhatIsThere'
  BY <1>2 DEF Guarded, SavesWhatIsThere, Running
<1>7. DeletedOff'
  <2>1. SUFFICES ASSUME NEW d \in Calls, Off(d)', NEW t, t = call'[d].tenant,
                        t \notin contended', NobodyAsked(t)'
                 PROVE  tenant'[t] # "active"
    BY DEF DeletedOff
  <2>2. Off(d) /\ NobodyAsked(t)
    BY <1>2, <2>1 DEF Off, NobodyAsked
  <2>3. QED
    BY <1>1, <1>2, <2>1, <2>2 DEF LockInv, DeletedOff
<1>8. QED
  BY <1>3, <1>4, <1>5, <1>6, <1>7 DEF LockInv

LEMMA AccessNext_Lock ==
  ASSUME AccessInv, LockInv, [AccessNext]_accessVars
  PROVE  LockInv'
<1>1. ASSUME NEW c \in Calls, CallStep(c) PROVE LockInv'
  BY <1>1, StepKinds, CallStep_Targets, CallStep_Births, CallStep_Owners,
     CallStep_Guarded, CallStep_Saves, CallStep_DeletedOff DEF LockInv
<1>2. CASE UNCHANGED accessVars
  BY <1>2, Lock_Unchanged DEF accessVars
<1>3. QED
  BY <1>1, <1>2, Restart_Lock DEF AccessNext

(* What a call outside contended relies on holds in every state.           *)
THEOREM AccessLock == AccessSpec => []LockInv
<1>1. AccessInv /\ LockInv /\ [AccessNext]_accessVars => LockInv'
  BY AccessNext_Lock
<1>2. QED
  BY <1>1, AccessInvariant, AccessInit_Lock, PTL DEF AccessSpec

\* A tenant whose deletion answered is off.
LEMMA LockedOut == LockInv => DeletionLocksOut
<1> SUFFICES ASSUME LockInv, NEW d \in Calls,
                    call[d].op = "deleteTenant", call[d].reply = "ok",
                    call[d].tenant \notin contended, NobodyAsked(call[d].tenant),
                    NEW k \in KeyIds, key[k] # Null, key[k].tenant = call[d].tenant
             PROVE  ~Accepted(k)
  BY DEF DeletionLocksOut, NobodyAsked
<1>1. tenant[call[d].tenant] # "active"
  BY DEF LockInv, DeletedOff, Off
<1>2. QED
  BY <1>1 DEF Accepted

(* After a deletion that succeeded no key of the tenant is accepted,       *)
(* whatever ran at the same time, unless somebody asked for the tenant to  *)
(* be active or a save of an older entity overlapped.                      *)
THEOREM DeletionsLockOut == AccessSpec => []DeletionLocksOut
BY AccessLock, LockedOut, PTL

\* The step of a call that makes a revoked key active.
LEMMA StepUnrevokes ==
  ASSUME AccessInv, LockInv, NEW c \in Calls, StepOf(c),
         NEW k \in KeyIds, Unrevoked(k), key[k].tenant \notin contended
  PROVE  AskedActive(k)
<1> USE AccessAssumption
<1>1. /\ Target(c, call[c]) /\ call[c] \in Call /\ call \in [Calls -> Call]
      /\ key \in [KeyIds -> Key \cup {Null}] /\ key[k] \in Key
  BY DEF LockInv, Targets, AccessInv, AccessTypeOK, Unrevoked
<1>2. key'[k] # key[k]
  BY DEF Unrevoked
<1>3. ~InsertKey(c) \/ k # c
  BY DEF InsertKey, LockInv, Births, Unborn, Unrevoked
<1>4. Revoked(k).status = "revoked"
  BY <1>1 DEF Revoked, Key
<1>5. WriteKey(c) /\ k = call[c].key /\ call[c].op = "updateKey"
  BY <1>2, <1>3, <1>4, KeyWrites DEF Unrevoked
<1>6. call[c].pc = "write" /\ call[c].loaded # Null
  BY <1>2, <1>5 DEF WriteKey, Unrevoked
<1>7. key'[k] = [key[k] EXCEPT !.status = Saved(c, key[k].status)]
  BY <1>1, <1>2, <1>5, <1>6 DEF WriteKey, Unrevoked
<1>8. Saved(c, key[k].status) # "revoked"
  BY <1>1, <1>7 DEF Unrevoked, Key
<1>9. call[c].entity # call[c].loaded /\ call[c].entity # "revoked"
  BY <1>8 DEF Saved, Unrevoked
<1>10. call[c].entity = "active"
  BY <1>5, <1>6, <1>9 DEF AccessInv, CallsSound, Sound, KeyStatus
<1>11. call[c].tenant \notin contended
  BY <1>5 DEF LockInv, KeyOwners, Unrevoked
<1>12. call[c].asked # Null
  BY <1>5, <1>6, <1>9, <1>11 DEF LockInv, SavesWhatIsThere, Unasked
<1>13. call[c].asked = "active"
  BY <1>1, <1>10, <1>12 DEF Target, Status, TenantStatus
<1>14. call'[c].pc = "done"
  <2>1. ASSUME NEW reply, Finish(c, reply) PROVE call'[c].pc = "done"
    BY <1>1, <2>1 DEF Finish, Move, Ended, Call
  <2>2. QED
    BY <1>5, <2>1 DEF WriteKey
<1>15. QED
  BY <1>5, <1>6, <1>13, <1>14 DEF AskedActive

LEMMA NextUnrevokes ==
  ASSUME AccessInv, LockInv, [AccessNext]_accessVars,
         NEW k \in KeyIds, Unrevoked(k), key[k].tenant \notin contended'
  PROVE  AskedActive(k)
<1>1. key'[k] # key[k]
  BY DEF Unrevoked
<1>2. PICK c \in Calls : CallStep(c)
  BY <1>1 DEF AccessNext, AccessRestart, accessVars
<1>3. StepOf(c) /\ contended' = contended
  BY <1>1, <1>2, StepKinds, BeginFacts, StepFacts
<1>4. QED
  BY <1>3, StepUnrevokes

(* A revoked key stays revoked unless an update asked for it to be active  *)
(* or a save of an older entity overlapped.                                *)
THEOREM RevocationsHold == AccessSpec => RevocationHolds
<1>1. AccessInv /\ LockInv /\ [AccessNext]_accessVars
        => [\A k \in KeyIds : Unrevoked(k) /\ key[k].tenant \notin contended'
                                => AskedActive(k)]_key
  BY NextUnrevokes
<1>2. QED
  BY <1>1, AccessInvariant, AccessLock, PTL DEF AccessSpec, RevocationHolds

=============================================================================
