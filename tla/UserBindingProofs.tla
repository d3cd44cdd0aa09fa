--------------------------- MODULE UserBindingProofs ---------------------------
(***************************************************************************)
(* For every number of logins, names, connectors, subjects and steps of    *)
(* the administrator: a user record keeps its identity, a Google account   *)
(* is bound to two names only by logins that could not see each other, and *)
(* credentials carry roles of the same Google account.                     *)
(***************************************************************************)
EXTENDS UserBinding, SequenceTheorems, TLAPS

\* The part of the types the argument needs: records, and the locals of a login
\* that has started.
Shape ==
    /\ users \in [Names -> Users \cup {None}]
    /\ nextRev \in Nat
    /\ pc \in [Logins -> Running \cup {"idle", "done"}]
    /\ login \in [Logins -> Identities \cup {None}]
    /\ readRev \in [Logins -> Nat \cup {None}]
    /\ \A p \in Logins : pc[p] \in Running => login[p] \in Identities

\* Revisions are never handed out twice, so a record that still has the
\* revision a login has read is the very record whose identity it compared.
Revisions ==
    /\ \A n \in Names : users[n] # None => users[n].rev < nextRev
    /\ \A p \in Logins : readRev[p] # None => readRev[p] < nextRev
    /\ \A p \in Logins : pc[p] = "read" /\ readRev[p] # None /\ UpdateAllowed(p)
          => SameIdentity(p, users[login[p].name])

Inv == Shape /\ Revisions

\* What UserKeepsIdentity asks of one step.
KeepsIdentity ==
    \A n \in Names : users[n] # None /\ users'[n] # None =>
        /\ users'[n].connector = users[n].connector
        /\ users'[n].subject = users[n].subject

\* None is no user record, no revision and no identity.
LEMMA NoneIsNone == None \notin Nat
BY NoneFresh

\* The store starts empty.
LEMMA InvInit == Init => Inv
BY DEF Init, Inv, Shape, Revisions, Running

\* A write keeps the shape and the order of revisions, and leaves every other
\* record alone.
LEMMA PutLemma ==
    ASSUME Inv, NEW n \in Names, NEW c \in Connectors \cup {Local},
           NEW x \in Subjects \cup {None}, Put(n, c, x)
    PROVE  /\ users' \in [Names -> Users \cup {None}]
           /\ nextRev' \in Nat
           /\ nextRev' = nextRev + 1
           /\ users'[n] = [connector |-> c, subject |-> x, rev |-> nextRev]
           /\ users'[n].rev = nextRev
           /\ users'[n].connector = c
           /\ users'[n].subject = x
           /\ \A m \in Names \ {n} : users'[m] = users[m]
           /\ \A m \in Names : users'[m] # None => users'[m].rev < nextRev'
<1>1. [connector |-> c, subject |-> x, rev |-> nextRev] \in Users
  BY DEF Inv, Shape, Users
<1>2. users' = [users EXCEPT ![n] = [connector |-> c, subject |-> x, rev |-> nextRev]]
      /\ nextRev' = nextRev + 1
  BY DEF Put
<1> QED BY <1>1, <1>2 DEF Inv, Shape, Revisions, Users

\* A write under a fresh revision shuts out every login that has read the record
\* it replaces, so it keeps the invariant as long as no login starts to write.
LEMMA PutKeepsInv ==
    ASSUME Inv, NEW n \in Names, NEW c \in Connectors \cup {Local},
           NEW x \in Subjects \cup {None}, Put(n, c, x),
           UNCHANGED <<login, readRev>>,
           pc' \in [Logins -> Running \cup {"idle", "done"}],
           \A q \in Logins : pc'[q] = "read" => pc[q] = "read",
           \A q \in Logins : pc'[q] \in Running => pc[q] \in Running
    PROVE  Inv'
<1> USE NoneIsNone
<1>1. /\ users' \in [Names -> Users \cup {None}]
      /\ nextRev' \in Nat
      /\ nextRev' = nextRev + 1
      /\ users'[n].rev = nextRev
      /\ \A m \in Names \ {n} : users'[m] = users[m]
      /\ \A m \in Names : users'[m] # None => users'[m].rev < nextRev'
  BY PutLemma
<1>2. Shape'
  BY <1>1 DEF Inv, Shape
<1>3. \A q \in Logins : readRev'[q] # None => readRev'[q] < nextRev'
  BY <1>1 DEF Inv, Shape, Revisions
<1>4. ASSUME NEW q \in Logins, pc'[q] = "read", readRev'[q] # None, UpdateAllowed(q)'
      PROVE  SameIdentity(q, users[login[q].name])'
  <2>1. login[q] \in Identities /\ login[q].name \in Names /\ login'[q] = login[q]
    BY <1>4 DEF Inv, Shape, Running, Identities
  <2>2. readRev[q] # None /\ readRev[q] \in Nat /\ readRev[q] < nextRev
    BY <1>4 DEF Inv, Shape, Revisions
  <2>3. users'[login[q].name].rev = readRev[q]
    BY <1>4, <2>1 DEF UpdateAllowed
  <2>4. login[q].name # n
    BY <1>1, <2>2, <2>3 DEF Inv, Shape
  <2>5. users'[login[q].name] = users[login[q].name]
    BY <1>1, <2>1, <2>4
  <2>6. UpdateAllowed(q)
    BY <1>4, <2>1, <2>5 DEF UpdateAllowed
  <2>7. SameIdentity(q, users[login[q].name])
    BY <1>4, <2>2, <2>6 DEF Inv, Revisions
  <2> QED BY <2>1, <2>5, <2>7 DEF SameIdentity
<1> QED BY <1>1, <1>2, <1>3, <1>4 DEF Inv, Revisions

\* What the administrator's edit writes: the identity that was there.
LEMMA EditLemma ==
    ASSUME Inv, NEW n \in Names, EditUser(n)
    PROVE  /\ users'[n] # None
           /\ users'[n].connector = users[n].connector
           /\ users'[n].subject = users[n].subject
           /\ \A m \in Names \ {n} : users'[m] = users[m]
<1> DEFINE c == users[n].connector
           x == users[n].subject
<1>1. c \in Connectors \cup {Local} /\ x \in Subjects \cup {None} /\ Put(n, c, x)
  BY DEF EditUser, Inv, Shape, Users
<1> HIDE DEF c, x
<1>2. /\ users'[n] = [connector |-> c, subject |-> x, rev |-> nextRev]
      /\ users'[n].connector = c
      /\ users'[n].subject = x
      /\ \A m \in Names \ {n} : users'[m] = users[m]
  BY <1>1, PutLemma
<1>3. users'[n] # None
  BY <1>1, <1>2, NoneIsNoUser DEF Users, Inv, Shape
<1> QED BY <1>2, <1>3 DEF c, x

\* Every step keeps the invariant, and the identity of every record.
LEMMA InvStep == Inv /\ [Next]_vars => Inv' /\ [KeepsIdentity]_users
<1> SUFFICES ASSUME Inv, [Next]_vars PROVE Inv' /\ [KeepsIdentity]_users
    OBVIOUS
<1> USE NoneIsNone
<1>1. CASE CacheApply
  BY <1>1 DEF CacheApply, Inv, Shape, Revisions, UpdateAllowed, SameIdentity
<1>2. ASSUME NEW n \in Names, RemoveUser(n) PROVE Inv' /\ [KeepsIdentity]_users
  BY <1>2 DEF RemoveUser, Inv, Shape, Revisions, UpdateAllowed, SameIdentity, KeepsIdentity
<1>3. ASSUME NEW n \in Names, CreateLocalUser(n) PROVE Inv' /\ [KeepsIdentity]_users
  <2>1. Put(n, Local, None) /\ users[n] = None
        /\ UNCHANGED <<pc, login, readRev>>
    BY <1>3 DEF CreateLocalUser
  <2>2. Inv'
    BY <2>1, PutKeepsInv DEF Inv, Shape
  <2>3. KeepsIdentity
    BY <2>1, PutLemma DEF KeepsIdentity
  <2> QED BY <2>2, <2>3
<1>4. ASSUME NEW n \in Names, EditUser(n) PROVE Inv' /\ [KeepsIdentity]_users
  <2>1. users[n] \in Users
    BY <1>4 DEF EditUser, Inv, Shape
  <2>2. users[n].connector \in Connectors \cup {Local} /\ users[n].subject \in Subjects \cup {None}
    BY <2>1 DEF Users
  <2>3. Put(n, users[n].connector, users[n].subject) /\ UNCHANGED <<pc, login, readRev>>
    BY <1>4 DEF EditUser
  <2>4. Inv'
    BY <2>2, <2>3, PutKeepsInv DEF Inv, Shape
  <2>5. KeepsIdentity
    BY <1>4, EditLemma DEF KeepsIdentity
  <2> QED BY <2>4, <2>5
<1>5. ASSUME NEW p \in Logins, LoginStep(p) PROVE Inv' /\ [KeepsIdentity]_users
  <2>1. ASSUME NEW i \in Identities, Start(p, i) PROVE Inv' /\ [KeepsIdentity]_users
    BY <2>1 DEF Start, Inv, Shape, Revisions, UpdateAllowed, SameIdentity, Running
  <2>2. CASE ValidateSubjectBinding(p)
    BY <2>2 DEF ValidateSubjectBinding, Stop, Inv, Shape, Revisions, UpdateAllowed,
                SameIdentity, Running
  <2>3. CASE GetUser(p)
    <3>1. login[p] \in Identities /\ login[p].name \in Names
      BY <2>3 DEF GetUser, Inv, Shape, Running, Identities
    <3>2. UNCHANGED <<users, nextRev, login>>
      BY <2>3 DEF GetUser
    <3> DEFINE user == users[login[p].name]
    <3>3. \/ pc' \in {[pc EXCEPT ![p] = "read"], [pc EXCEPT ![p] = "done"]} /\ readRev' = readRev
             /\ (pc' = [pc EXCEPT ![p] = "read"] => user = None)
          \/ /\ user # None /\ SameIdentity(p, user)
             /\ pc' = [pc EXCEPT ![p] = "read"]
             /\ readRev' = [readRev EXCEPT ![p] = user.rev]
      BY <2>3 DEF GetUser, Stop, Inv, Shape
    <3>4. user # None => user \in Users /\ user.rev \in Nat /\ user.rev < nextRev
      BY <3>1 DEF Inv, Shape, Revisions, Users
    <3> QED BY <3>1, <3>2, <3>3, <3>4 DEF Inv, Shape, Revisions, UpdateAllowed, SameIdentity, Running
  <2>4. ASSUME Write(p), pc[p] = "read", UNCHANGED <<login, readRev>>,
               \/ pc' = [pc EXCEPT ![p] = "written"]
               \/ pc' = [pc EXCEPT ![p] = "done"],
               users[login[p].name] # None => SameIdentity(p, users[login[p].name])
        PROVE Inv' /\ [KeepsIdentity]_users
    <3>1. login[p] \in Identities
      BY <2>4 DEF Inv, Shape, Running
    <3>2. /\ login[p].name \in Names
          /\ login[p].connector \in Connectors \cup {Local}
          /\ login[p].subject \in Subjects \cup {None}
      BY <3>1 DEF Identities
    <3>3. Put(login[p].name, login[p].connector, login[p].subject)
      BY <2>4 DEF Write
    <3>4. /\ pc' \in [Logins -> Running \cup {"idle", "done"}]
          /\ \A q \in Logins : pc'[q] = "read" => pc[q] = "read"
          /\ \A q \in Logins : pc'[q] \in Running => pc[q] \in Running
      BY <2>4 DEF Inv, Shape, Running
    <3>5. Inv'
      BY <2>4, <3>2, <3>3, <3>4, PutKeepsInv
    <3> DEFINE n == login[p].name
               c == login[p].connector
               x == login[p].subject
    <3>6. /\ users'[n].connector = c
          /\ users'[n].subject = x
          /\ \A m \in Names \ {n} : users'[m] = users[m]
      <4> HIDE DEF n, c, x
      <4>1. n \in Names /\ c \in Connectors \cup {Local} /\ x \in Subjects \cup {None} /\ Put(n, c, x)
        BY <3>2, <3>3 DEF n, c, x
      <4> QED BY <4>1, PutLemma
    <3>7. KeepsIdentity
      BY <2>4, <3>6 DEF KeepsIdentity, SameIdentity
    <3> QED BY <3>5, <3>7
  <2>5. CASE CreateUser(p)
    BY <2>4, <2>5 DEF CreateUser, CreateAllowed, Stop
  <2>6. CASE UpdateUser(p)
    BY <2>4, <2>6 DEF UpdateUser, Stop, Inv, Revisions
  <2>7. CASE LoginHook(p) \/ GetUserOrLoginState(p) \/ Abandon(p)
    BY <2>7 DEF LoginHook, GetUserOrLoginState, Abandon, Stop, Inv, Shape, Revisions,
                UpdateAllowed, SameIdentity, Running
  <2> QED BY <1>5, <2>1, <2>2, <2>3, <2>5, <2>6, <2>7 DEF LoginStep
<1>6. CASE UNCHANGED vars
  BY <1>6 DEF vars, Inv, Shape, Revisions, UpdateAllowed, SameIdentity
<1> QED BY <1>1, <1>2, <1>3, <1>4, <1>5, <1>6 DEF Next

\* A user record keeps its identity as long as it exists: createUser, however
\* its steps interleave with other logins, edits, deletions and expiry, never
\* overwrites a local user or a user of another connector or Google subject.
THEOREM IdentityKept == Spec => UserKeepsIdentity
<1>1. [KeepsIdentity]_users =>
        [\A n \in Names : users[n] # None /\ users'[n] # None =>
          /\ users'[n].connector = users[n].connector
          /\ users'[n].subject = users[n].subject]_users
  BY DEF KeepsIdentity
<1> QED BY <1>1, InvInit, InvStep, PTL DEF Spec, UserKeepsIdentity

-------------------------------------------------------------------------------
(* One name for each Google account *)

\* The strengthening of SubjectBoundUnlessStale: what validateSubjectBinding
\* found still holds of a login that nobody has overtaken.
BindingInv ==
    /\ \A p \in Logins : pc[p] \in {"listed", "read"} /\ p \notin stale =>
           ~BoundElsewhere(p, users)
    /\ SubjectBoundUnlessStale

\* The strengthening of RolesOfSameSubject: the record a login has written keeps
\* its identity until it goes away, so all logins of one name that write the
\* login state, or are about to read it, are of one Google account.
RolesInv ==
    /\ \A p \in Logins : pc[p] \in {"written", "hooked"} /\ login[p].name \notin disturbed =>
           users[login[p].name] # None /\ SameIdentity(p, users[login[p].name])
    /\ \A n \in Names : uls[n] # None => pc[uls[n]] # "idle"
    /\ \A p \in Logins : pc[p] = "hooked" => uls[login[p].name] # None
    /\ \A p \in Logins : pc[p] = "hooked" /\ login[p].name \notin disturbed =>
           SameIdentity(p, login[uls[login[p].name]])
    /\ \A p \in Logins : granted[p] # None => pc[p] = "done" /\ pc[granted[p]] # "idle"
    /\ RolesOfSameSubject

\* Every step keeps the remaining types.
LEMMA TypeStep == Inv /\ TypeOK /\ [Next]_vars => TypeOK'
<1> SUFFICES ASSUME Inv, TypeOK, [Next]_vars PROVE TypeOK'
    OBVIOUS
<1>1. Inv'
  BY InvStep
<1> DEFINE Event == [name : Names, user : Users \cup {None}]
<1>2. ASSUME NEW n \in Names, NEW c \in Connectors \cup {Local},
             NEW x \in Subjects \cup {None}, Put(n, c, x)
      PROVE  pending' \in Seq(Event) /\ cache' \in [Names -> Users \cup {None}]
  <2>1. [connector |-> c, subject |-> x, rev |-> nextRev] \in Users
    BY DEF TypeOK, Users
  <2>2. [name |-> n, user |-> [connector |-> c, subject |-> x, rev |-> nextRev]] \in Event
    BY <2>1
  <2> QED BY <1>2, <2>2 DEF Put, TypeOK
<1>2a. adminOps < MaxAdminOps => adminOps + 1 \in 0 .. MaxAdminOps
  BY MaxAdminOpsNat DEF TypeOK
<1>3. CASE CacheApply
  <2>1. Head(pending) \in Event /\ Tail(pending) \in Seq(Event)
    <3>1. pending \in Seq(Event) /\ pending # <<>>
      BY <1>3 DEF CacheApply, TypeOK
    <3> HIDE DEF Event
    <3> QED BY <3>1, HeadTailProperties
  <2>2. Head(pending).name \in Names /\ Head(pending).user \in Users \cup {None}
    BY <2>1
  <2> QED BY <1>3, <2>1, <2>2 DEF CacheApply, TypeOK
<1>4. ASSUME NEW n \in Names, RemoveUser(n) PROVE TypeOK'
  <2>1. [name |-> n, user |-> None] \in Event
    OBVIOUS
  <2>2. pending' \in Seq(Event)
    BY <1>4, <2>1 DEF RemoveUser, TypeOK
  <2> QED BY <1>1, <1>4, <1>2a, <2>2 DEF RemoveUser, TypeOK, Inv, Shape
<1>5. ASSUME NEW n \in Names, CreateLocalUser(n) PROVE TypeOK'
  <2>1. pending' \in Seq(Event) /\ cache' \in [Names -> Users \cup {None}]
    BY <1>2, <1>5 DEF CreateLocalUser
  <2> QED BY <1>1, <1>5, <1>2a, <2>1 DEF CreateLocalUser, TypeOK, Inv, Shape
<1>6. ASSUME NEW n \in Names, EditUser(n) PROVE TypeOK'
  <2>1. users[n].connector \in Connectors \cup {Local} /\ users[n].subject \in Subjects \cup {None}
    BY <1>6 DEF EditUser, TypeOK, Users
  <2>2. pending' \in Seq(Event) /\ cache' \in [Names -> Users \cup {None}]
    <3> DEFINE c == users[n].connector
               x == users[n].subject
    <3>1. c \in Connectors \cup {Local} /\ x \in Subjects \cup {None} /\ Put(n, c, x)
      BY <1>6, <2>1 DEF EditUser
    <3> HIDE DEF c, x, Event
    <3> QED BY <1>2, <3>1
  <2> QED BY <1>1, <1>6, <1>2a, <2>2 DEF EditUser, TypeOK, Inv, Shape
<1>7. ASSUME NEW p \in Logins, LoginStep(p) PROVE TypeOK'
  <2>1. ASSUME CreateUser(p) \/ UpdateUser(p) PROVE TypeOK'
    <3>1. login[p] \in Identities
      BY <2>1 DEF CreateUser, UpdateUser, Inv, Shape, Running
    <3>2. /\ login[p].name \in Names
          /\ login[p].connector \in Connectors \cup {Local}
          /\ login[p].subject \in Subjects \cup {None}
      BY <3>1 DEF Identities
    <3>3. pending' \in Seq(Event) /\ cache' \in [Names -> Users \cup {None}]
      BY <1>2, <2>1, <3>2 DEF CreateUser, UpdateUser, Write
    <3>4. CASE CreateUser(p)
      BY <1>1, <3>2, <3>3, <3>4 DEF CreateUser, Write, Overtakes, TypeOK, Inv, Shape
    <3>5. CASE UpdateUser(p)
      BY <1>1, <3>2, <3>3, <3>5 DEF UpdateUser, Write, Overtakes, TypeOK, Inv, Shape
    <3> QED BY <2>1, <3>4, <3>5
  <2>2. CASE LoginHook(p) \/ GetUserOrLoginState(p)
    <3>1. login[p] \in Identities /\ login[p].name \in Names
      BY <2>2 DEF LoginHook, GetUserOrLoginState, Inv, Shape, Running, Identities
    <3>2. CASE LoginHook(p)
      BY <1>1, <3>1, <3>2 DEF LoginHook, TypeOK, Inv, Shape
    <3>3. CASE GetUserOrLoginState(p)
      BY <1>1, <3>1, <3>3 DEF GetUserOrLoginState, Stop, TypeOK, Inv, Shape
    <3> QED BY <2>2, <3>2, <3>3
  <2>3. CASE (\E i \in Identities : Start(p, i)) \/ ValidateSubjectBinding(p) \/ GetUser(p) \/ Abandon(p)
    BY <1>1, <2>3 DEF Start, ValidateSubjectBinding, GetUser, Abandon, TypeOK, Inv, Shape
  <2> QED BY <1>7, <2>1, <2>2, <2>3 DEF LoginStep
<1>8. CASE UNCHANGED vars
  BY <1>8 DEF vars, TypeOK
<1> QED BY <1>3, <1>4, <1>5, <1>6, <1>7, <1>8 DEF Next

\* User records, their events and the locals of createUser keep their types.
THEOREM TypeCorrect == Spec => []TypeOK
<1>1. Init => TypeOK
  BY MaxAdminOpsNat DEF Init, TypeOK, Running
<1> QED BY <1>1, InvInit, InvStep, TypeStep, PTL DEF Spec

\* What a login writes: its own identity under its own name, nothing else.
LEMMA WriteLemma ==
    ASSUME Inv, NEW p \in Logins, pc[p] = "read", Write(p)
    PROVE  /\ login[p] \in Identities /\ login[p].name \in Names
           /\ login[p].connector \in Connectors
           /\ users'[login[p].name] # None
           /\ users'[login[p].name].connector = login[p].connector
           /\ users'[login[p].name].subject = login[p].subject
           /\ \A m \in Names \ {login[p].name} : users'[m] = users[m]
           /\ stale' = stale \cup Overtakes(p)
<1>1. login[p] \in Identities
  BY DEF Inv, Shape, Running
<1> DEFINE n == login[p].name
           c == login[p].connector
           x == login[p].subject
<1>2. n \in Names /\ c \in Connectors /\ x \in Subjects
  BY <1>1 DEF Identities
<1>3. Put(n, c, x) /\ stale' = stale \cup Overtakes(p)
  BY DEF Write
<1> HIDE DEF n, c, x
<1>4. /\ users'[n] = [connector |-> c, subject |-> x, rev |-> nextRev]
      /\ users'[n].connector = c
      /\ users'[n].subject = x
      /\ \A m \in Names \ {n} : users'[m] = users[m]
  BY <1>2, <1>3, PutLemma
<1>5. users'[n] # None
  BY <1>2, <1>4, NoneIsNoUser DEF Users, Inv, Shape
<1> QED BY <1>1, <1>2, <1>3, <1>4, <1>5 DEF n, c, x

\* Every step keeps the binding of Google accounts to names.
LEMMA BindingStep == Inv /\ TypeOK /\ BindingInv /\ [Next]_vars => BindingInv'
<1> SUFFICES ASSUME Inv, TypeOK, BindingInv, [Next]_vars PROVE BindingInv'
    OBVIOUS
<1> USE DEF BindingInv, SubjectBoundUnlessStale, BoundElsewhere
<1>0. \A p \in Logins : pc[p] \in Running => /\ login[p] \in Identities
                                            /\ login[p].name \in Names
                                            /\ login[p].connector \in Connectors
  BY DEF Inv, Shape, Identities
<1>1. CASE CacheApply
  BY <1>1 DEF CacheApply
<1>2. ASSUME NEW n \in Names, RemoveUser(n) PROVE BindingInv'
  BY <1>2 DEF RemoveUser, TypeOK
<1>3. ASSUME NEW n \in Names, CreateLocalUser(n) PROVE BindingInv'
  <2>1. users'[n].connector = Local /\ \A m \in Names \ {n} : users'[m] = users[m]
    BY <1>3, PutLemma DEF CreateLocalUser
  <2>2. UNCHANGED <<pc, login, stale>> /\ creator' = [creator EXCEPT ![n] = None]
    BY <1>3 DEF CreateLocalUser
  <2>3. \A p \in Logins : pc'[p] \in {"listed", "read"} /\ p \notin stale' => ~BoundElsewhere(p, users)'
    BY <1>0, <2>1, <2>2, LocalIsNoConnector DEF Running
  <2>4. SubjectBoundUnlessStale'
    BY <2>1, <2>2 DEF TypeOK
  <2> QED BY <2>3, <2>4
<1>4. ASSUME NEW n \in Names, EditUser(n) PROVE BindingInv'
  <2>1. /\ users[n] # None
        /\ users'[n].connector = users[n].connector
        /\ users'[n].subject = users[n].subject
        /\ \A m \in Names \ {n} : users'[m] = users[m]
    BY <1>4, EditLemma DEF EditUser
  <2>2. UNCHANGED <<pc, login, stale, creator>>
    BY <1>4 DEF EditUser
  <2> QED BY <2>1, <2>2
<1>5. ASSUME NEW p \in Logins, LoginStep(p) PROVE BindingInv'
  <2>1. ASSUME NEW i \in Identities, Start(p, i) PROVE BindingInv'
    BY <2>1 DEF Start, TypeOK
  <2>2. CASE ValidateSubjectBinding(p)
    BY <2>2 DEF ValidateSubjectBinding, Stop, TypeOK
  <2>3. CASE GetUser(p)
    BY <2>3 DEF GetUser, Stop, TypeOK
  <2>4. ASSUME CreateUser(p) \/ UpdateUser(p)
        PROVE  \A q \in Logins : pc'[q] \in {"listed", "read"} /\ q \notin stale' =>
                   ~BoundElsewhere(q, users)'
    <3>1. pc[p] = "read" /\ Write(p)
      BY <2>4 DEF CreateUser, UpdateUser
    <3>2. stale' = stale \cup Overtakes(p)
      BY <3>1, WriteLemma
    <3> QED BY <2>4, <3>2 DEF CreateUser, UpdateUser, Stop, Overtakes, TypeOK
  <2>5. CASE CreateUser(p)
    <3> DEFINE n == login[p].name
    <3>1. /\ n \in Names
          /\ users'[n].connector = login[p].connector
          /\ users'[n].subject = login[p].subject
          /\ \A m \in Names \ {n} : users'[m] = users[m]
          /\ stale \subseteq stale'
      BY <2>5, WriteLemma DEF CreateUser
    <3>2. creator' = [creator EXCEPT ![n] = p]
      BY <2>5 DEF CreateUser
    <3>3. BoundElsewhere(p, users) => p \in stale
      BY <2>5 DEF CreateUser
    <3>4. \A m \in Names \ {n} : /\ users[m] # None
                                 /\ users[m].connector = login[p].connector
                                 /\ users[m].subject = login[p].subject
                                 => p \in stale
      BY <3>3
    <3> HIDE DEF n
    <3>5. SubjectBoundUnlessStale'
      BY <3>1, <3>2, <3>4 DEF TypeOK
    <3> QED BY <2>4, <2>5, <3>5
  <2>6. CASE UpdateUser(p)
    <3> DEFINE n == login[p].name
    <3>1. /\ n \in Names
          /\ users'[n].connector = login[p].connector
          /\ users'[n].subject = login[p].subject
          /\ \A m \in Names \ {n} : users'[m] = users[m]
          /\ stale \subseteq stale'
      BY <2>6, WriteLemma DEF UpdateUser
    <3>2. users[n] # None /\ SameIdentity(p, users[n])
      BY <2>6 DEF UpdateUser, UpdateAllowed, Inv, Revisions
    <3>3. creator' = creator
      BY <2>6 DEF UpdateUser
    <3>4. SubjectBoundUnlessStale'
      BY <3>1, <3>2, <3>3 DEF SameIdentity
    <3> QED BY <2>4, <2>6, <3>4
  <2>7. CASE LoginHook(p) \/ GetUserOrLoginState(p) \/ Abandon(p)
    BY <2>7 DEF LoginHook, GetUserOrLoginState, Abandon, Stop, TypeOK
  <2> QED BY <1>5, <2>1, <2>2, <2>3, <2>5, <2>6, <2>7 DEF LoginStep
<1>6. CASE UNCHANGED vars
  BY <1>6 DEF vars
<1> QED BY <1>1, <1>2, <1>3, <1>4, <1>5, <1>6 DEF Next

\* Two user names hold the same Google account only when the login that created
\* one of them could not see the other (validateSubjectBinding reads the cache,
\* and writes later): without a lagging cache and overlapping logins there is
\* one name for each account.
THEOREM OneNamePerSubject == Spec => []SubjectBoundUnlessStale
<1>1. Init => BindingInv
  BY DEF Init, BindingInv, SubjectBoundUnlessStale
<1>2. Init => TypeOK
  BY MaxAdminOpsNat DEF Init, TypeOK, Running
<1>3. BindingInv => SubjectBoundUnlessStale
  BY DEF BindingInv
<1> QED BY <1>1, <1>2, <1>3, InvInit, InvStep, TypeStep, BindingStep, PTL DEF Spec

-------------------------------------------------------------------------------
(* Roles *)

\* A record that exists goes away only by RemoveUser, and keeps its identity.
LEMMA RecordStays ==
    ASSUME Inv, [Next]_vars, NEW n \in Names, users[n] # None, ~RemoveUser(n)
    PROVE  /\ users'[n] # None
           /\ users'[n].connector = users[n].connector
           /\ users'[n].subject = users[n].subject
<1>1. users'[n] # None
  <2>1. ASSUME NEW m \in Names, RemoveUser(m) PROVE users'[n] # None
    BY <2>1 DEF RemoveUser, Inv, Shape
  <2>2. ASSUME NEW m \in Names, CreateLocalUser(m) PROVE users'[n] # None
    BY <2>2, PutLemma DEF CreateLocalUser
  <2>3. ASSUME NEW m \in Names, EditUser(m) PROVE users'[n] # None
    BY <2>3, EditLemma
  <2>4. ASSUME NEW p \in Logins, LoginStep(p) PROVE users'[n] # None
    <3>1. CASE CreateUser(p) \/ UpdateUser(p)
      BY <3>1, WriteLemma DEF CreateUser, UpdateUser
    <3> QED BY <2>4, <3>1 DEF LoginStep, Start, ValidateSubjectBinding, GetUser, LoginHook,
                              GetUserOrLoginState, Abandon
  <2> QED BY <2>1, <2>2, <2>3, <2>4 DEF Next, CacheApply, vars
<1> QED BY <1>1, InvStep DEF KeepsIdentity

\* Every step keeps the records, login states and credentials of one name with
\* one Google account.
LEMMA RolesStep == Inv /\ TypeOK /\ RolesInv /\ [Next]_vars => RolesInv'
<1> SUFFICES ASSUME Inv, TypeOK, RolesInv, [Next]_vars PROVE RolesInv'
    OBVIOUS
<1> USE NoneFresh DEF RolesInv, RolesOfSameSubject, SameIdentity
<1>1. \A p \in Logins : pc[p] \in Running => login[p] \in Identities /\ login[p].name \in Names
  BY DEF Inv, Shape, Identities
<1>2. disturbed \subseteq disturbed'
  BY DEF Next, CacheApply, RemoveUser, CreateLocalUser, EditUser, LoginStep, Start,
         ValidateSubjectBinding, GetUser, CreateUser, UpdateUser, LoginHook,
         GetUserOrLoginState, Abandon, vars
\* A login that has written, and still is where it was.
<1>3. ASSUME NEW p \in Logins, pc[p] \in {"written", "hooked"}, login'[p] = login[p],
             login[p].name \notin disturbed'
      PROVE  users'[login[p].name] # None /\ SameIdentity(p, users[login[p].name])'
  <2>1. login[p].name \in Names /\ login[p].name \notin disturbed
    BY <1>1, <1>2, <1>3 DEF Running
  <2>2. users[login[p].name] # None /\ SameIdentity(p, users[login[p].name])
    BY <1>3, <2>1
  <2>3. ~RemoveUser(login[p].name)
    BY <1>3 DEF RemoveUser, Running
  <2> QED BY <1>3, <2>1, <2>2, <2>3, RecordStays
<1>4. ASSUME UNCHANGED <<uls, pc, login, granted>> PROVE RolesInv'
  BY <1>2, <1>3, <1>4 DEF TypeOK
<1>5. CASE CacheApply \/ (\E n \in Names : RemoveUser(n) \/ CreateLocalUser(n) \/ EditUser(n))
  BY <1>4, <1>5 DEF CacheApply, RemoveUser, CreateLocalUser, EditUser
<1>6. ASSUME NEW p \in Logins, LoginStep(p) PROVE RolesInv'
  <2>1. ASSUME NEW i \in Identities, Start(p, i) PROVE RolesInv'
    BY <1>1, <2>1 DEF Start, TypeOK, Running
  <2>2. CASE ValidateSubjectBinding(p) \/ GetUser(p) \/ Abandon(p)
    <3>1. CASE ValidateSubjectBinding(p)
      BY <1>1, <3>1 DEF ValidateSubjectBinding, Stop, TypeOK, Running
    <3>2. CASE GetUser(p) \/ Abandon(p)
      BY <1>1, <3>2 DEF GetUser, Abandon, Stop, TypeOK, Running
    <3> QED BY <2>2, <3>1, <3>2
  <2>3. CASE CreateUser(p) \/ UpdateUser(p)
    <3>1. /\ users'[login[p].name] # None
          /\ SameIdentity(p, users[login[p].name])'
      BY <2>3, WriteLemma DEF CreateUser, UpdateUser
    <3>2. /\ UNCHANGED <<uls, login, granted, disturbed>>
          /\ pc[p] = "read"
          /\ \/ pc' = [pc EXCEPT ![p] = "written"]
             \/ pc' = [pc EXCEPT ![p] = "done"]
      BY <2>3 DEF CreateUser, UpdateUser, Stop
    <3> QED BY <1>3, <3>1, <3>2 DEF TypeOK
  <2>4. CASE LoginHook(p)
    <3> DEFINE n == login[p].name
    <3>1. /\ n \in Names /\ pc[p] = "written"
          /\ uls' = [uls EXCEPT ![n] = p]
          /\ pc' = [pc EXCEPT ![p] = "hooked"]
          /\ UNCHANGED <<users, login, granted, disturbed>>
      BY <1>1, <2>4 DEF LoginHook, Running
    <3>2. \A q \in Logins : pc'[q] = "hooked" /\ login[q].name = n /\ n \notin disturbed =>
             login[p].connector = login[q].connector /\ login[p].subject = login[q].subject
      BY <3>1 DEF TypeOK
    <3>3. \A q \in Logins : pc'[q] = "hooked" /\ login[q].name \notin disturbed =>
             SameIdentity(q, login[uls[login[q].name]])'
      BY <1>1, <3>1, <3>2 DEF TypeOK, Running
    <3>4. \A q \in Logins : pc'[q] = "hooked" => uls'[login[q].name] # None
      BY <1>1, <3>1 DEF TypeOK, Running
    <3> QED BY <3>1, <3>3, <3>4 DEF TypeOK
  <2>5. CASE GetUserOrLoginState(p)
    <3>1. login[p].name \in Names
      BY <1>1, <2>5 DEF GetUserOrLoginState, Running
    <3> QED BY <2>5, <3>1 DEF GetUserOrLoginState, Stop, TypeOK
  <2> QED BY <1>6, <2>1, <2>2, <2>3, <2>4, <2>5 DEF LoginStep
<1>7. CASE UNCHANGED vars
  BY <1>4, <1>7 DEF vars
<1> QED BY <1>5, <1>6, <1>7 DEF Next

\* Credentials carry the roles of a login of the same Google account, although
\* the login hook of every login of a name overwrites the same login state
\* (Generator.Refresh, GetUserOrLoginState), unless the user record went away
\* under a running login.
THEOREM RolesOfOneAccount == Spec => []RolesOfSameSubject
<1>1. Init => RolesInv
  BY DEF Init, RolesInv, RolesOfSameSubject
<1>2. Init => TypeOK
  BY MaxAdminOpsNat DEF Init, TypeOK, Running
<1>3. RolesInv => RolesOfSameSubject
  BY DEF RolesInv
<1> QED BY <1>1, <1>2, <1>3, InvInit, InvStep, TypeStep, RolesStep, PTL DEF Spec
================================================================================
