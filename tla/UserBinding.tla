------------------------------ MODULE UserBinding ------------------------------
(***************************************************************************)
(* What a login writes once Google has vouched for an account: createUser  *)
(* of lib/googleoidc/callback.go on the users of the cluster, the login    *)
(* hook that stores the user login state, and the read of that state from  *)
(* which the roles of the credentials are taken.                           *)
(*                                                                         *)
(* Logins of several Auth Services interleave with each other, with the    *)
(* administrator, with the expiry of user records, and with the events     *)
(* that carry user records into the cache validateSubjectBinding reads.    *)
(***************************************************************************)
EXTENDS Naturals, Sequences

CONSTANTS
    Logins,         \* callbacks that reach createUser
    Names,          \* Teleport user names: email addresses
    Connectors,
    Subjects,       \* Google account ids; an account may be renamed
    Local,          \* the connector of a user no connector created
    LookupResults,  \* whether group lookups confirm groups: a set of BOOLEANs
    MaxAdminOps,    \* bound on the steps of the administrator and of expiry
    None

ASSUME LocalIsNoConnector == Local \notin Connectors
ASSUME NoneFresh == None \notin Logins \cup Subjects \cup Nat
ASSUME LookupResultsBoolean == LookupResults \subseteq BOOLEAN
ASSUME MaxAdminOpsNat == MaxAdminOps \in Nat

VARIABLES
    users,      \* user records in the backend, None where there is none
    cache,      \* the users lib/cache has seen
    pending,    \* user events on their way to the cache
    uls,        \* the login whose roles the stored user login state holds
    nextRev,    \* revisions handed out so far
    adminOps,   \* steps taken by the administrator and by expiry
    pc,         \* where each login is
    login,      \* the identity of each login: calculateUser's result
    readRev,    \* revision of the record createUser found, None if it found none
    granted,    \* the login whose roles the credentials of a login carry
    creator,    \* history: the login that created a user record
    stale,      \* history: logins that did not see every user they should have
    disturbed   \* history: names whose record went away under a running login

vars == <<users, cache, pending, uls, nextRev, adminOps, pc, login, readRev,
          granted, creator, stale, disturbed>>

\* groups: the lookup of module GroupLookup confirmed groups that grant roles.
Identities == [name : Names, connector : Connectors, subject : Subjects,
               groups : LookupResults]
Users == [connector : Connectors \cup {Local}, subject : Subjects \cup {None},
          rev : Nat]
ASSUME NoneIsNoUser == None \notin Users

Running == {"started", "listed", "read", "written", "hooked"}

Init ==
    /\ users = [n \in Names |-> None]
    /\ cache = users
    /\ pending = <<>>
    /\ uls = [n \in Names |-> None]
    /\ nextRev = 0
    /\ adminOps = 0
    /\ pc = [p \in Logins |-> "idle"]
    /\ login = [p \in Logins |-> None]
    /\ readRev = [p \in Logins |-> None]
    /\ granted = [p \in Logins |-> None]
    /\ creator = [n \in Names |-> None]
    /\ stale = {}
    /\ disturbed = {}

-------------------------------------------------------------------------------
(* The user store and its cache *)

Put_NoRevision(n, connector, subject) ==
    LET user == [connector |-> connector, subject |-> subject, rev |-> None] IN
    /\ users' = [users EXCEPT ![n] = user]
    /\ pending' = Append(pending, [name |-> n, user |-> user])
    /\ UNCHANGED <<cache, nextRev>>

\* A write to users/n: a fresh revision, and an event for the cache.
Put(n, connector, subject) ==
    LET user == [connector |-> connector, subject |-> subject, rev |-> nextRev] IN
    /\ users' = [users EXCEPT ![n] = user]
    /\ pending' = Append(pending, [name |-> n, user |-> user])
    /\ nextRev' = nextRev + 1
    /\ UNCHANGED cache

\* A login between its look at the users and its write misses what changes now.
Overtakes(p) == {q \in Logins \ {p} : pc[q] \in {"listed", "read"}}

CacheApply ==
    /\ pending # <<>>
    /\ cache' = [cache EXCEPT ![Head(pending).name] = Head(pending).user]
    /\ pending' = Tail(pending)
    /\ UNCHANGED <<users, uls, nextRev, adminOps, pc, login, readRev, granted,
                   creator, stale, disturbed>>

\* The record expires with the session it was written for, or is deleted.
RemoveUser(n) ==
    /\ adminOps < MaxAdminOps
    /\ users[n] # None
    /\ adminOps' = adminOps + 1
    /\ users' = [users EXCEPT ![n] = None]
    /\ pending' = Append(pending, [name |-> n, user |-> None])
    /\ disturbed' = IF \E p \in Logins : pc[p] \in Running /\ login[p].name = n
                    THEN disturbed \cup {n} ELSE disturbed
    /\ UNCHANGED <<cache, uls, nextRev, pc, login, readRev, granted, creator, stale>>

\* The administrator creates a local user.
CreateLocalUser(n) ==
    /\ adminOps < MaxAdminOps
    /\ users[n] = None
    /\ adminOps' = adminOps + 1
    /\ Put(n, Local, None)
    /\ creator' = [creator EXCEPT ![n] = None]
    /\ UNCHANGED <<uls, pc, login, readRev, granted, stale, disturbed>>

\* The administrator edits a user: a new revision, the same identity.
EditUser(n) ==
    /\ adminOps < MaxAdminOps
    /\ users[n] # None
    /\ adminOps' = adminOps + 1
    /\ Put(n, users[n].connector, users[n].subject)
    /\ UNCHANGED <<uls, pc, login, readRev, granted, creator, stale, disturbed>>

-------------------------------------------------------------------------------
(* createUser *)

Stop(p) == pc' = [pc EXCEPT ![p] = "done"]

\* checkIdentityClaims and calculateUser have produced the identity i.
Start(p, i) ==
    /\ pc[p] = "idle"
    /\ pc' = [pc EXCEPT ![p] = "started"]
    /\ login' = [login EXCEPT ![p] = i]
    /\ UNCHANGED <<users, cache, pending, uls, nextRev, adminOps, readRev, granted,
                   creator, stale, disturbed>>

BoundElsewhere_OwnName(p, view) ==
    \E n \in {login[p].name} :
        /\ view[n] # None
        /\ view[n].connector = login[p].connector
        /\ view[n].subject = login[p].subject

\* validateSubjectBinding's loop over the users it is given.
BoundElsewhere(p, view) ==
    \E n \in Names \ {login[p].name} :
        /\ view[n] # None
        /\ view[n].connector = login[p].connector
        /\ view[n].subject = login[p].subject

\* auth.Server.GetUsers answers from the cache, or from the backend while the
\* cache is not healthy.
ValidateSubjectBinding(p) ==
    /\ pc[p] = "started"
    /\ \E view \in {cache, users} :
          /\ \/ /\ ~BoundElsewhere(p, view)
                /\ pc' = [pc EXCEPT ![p] = "listed"]
             \/ /\ BoundElsewhere(p, view)
                /\ Stop(p)
          /\ stale' = IF view # users THEN stale \cup {p} ELSE stale
    /\ UNCHANGED <<users, cache, pending, uls, nextRev, adminOps, login, readRev,
                   granted, creator, disturbed>>

SameIdentity_ProviderOnly(p, user) ==
    user.connector = login[p].connector

\* IsSameProvider, then validateExistingSubject.
SameIdentity(p, user) ==
    /\ user.connector = login[p].connector
    /\ user.subject = login[p].subject

\* Services.GetUser reads the backend.
GetUser(p) ==
    /\ pc[p] = "listed"
    /\ LET user == users[login[p].name] IN
       \/ /\ user = None
          /\ pc' = [pc EXCEPT ![p] = "read"]
          /\ UNCHANGED readRev
       \/ /\ user # None
          /\ SameIdentity(p, user)
          /\ pc' = [pc EXCEPT ![p] = "read"]
          /\ readRev' = [readRev EXCEPT ![p] = user.rev]
       \/ /\ user # None
          /\ ~SameIdentity(p, user)
          /\ Stop(p)
          /\ UNCHANGED readRev
    /\ UNCHANGED <<users, cache, pending, uls, nextRev, adminOps, login, granted,
                   creator, stale, disturbed>>

\* A write by p: those it overtakes have listed the users without it.
Write(p) ==
    /\ Put(login[p].name, login[p].connector, login[p].subject)
    /\ stale' = stale \cup Overtakes(p)

CreateAllowed(p) == users[login[p].name] = None

UpdateAllowed_AnyRevision(p) == users[login[p].name] # None

\* Backend.ConditionalUpdate compares revisions.
UpdateAllowed(p) ==
    /\ users[login[p].name] # None
    /\ users[login[p].name].rev = readRev[p]

\* CreateUser: Backend.Create is atomic.
CreateUser(p) ==
    /\ pc[p] = "read"
    /\ readRev[p] = None
    /\ CreateAllowed(p)
    /\ Write(p)
    /\ creator' = [creator EXCEPT ![login[p].name] = p]
    /\ \/ pc' = [pc EXCEPT ![p] = "written"]
       \/ Stop(p)                     \* written, but the backend reports an error
    /\ UNCHANGED <<uls, adminOps, login, readRev, granted, disturbed>>

UpdateUser(p) ==
    /\ pc[p] = "read"
    /\ readRev[p] # None
    /\ UpdateAllowed(p)
    /\ Write(p)
    /\ \/ pc' = [pc EXCEPT ![p] = "written"]
       \/ Stop(p)
    /\ UNCHANGED <<uls, adminOps, login, readRev, granted, creator, disturbed>>

\* The condition of the write does not hold, or any call fails, or the process
\* dies: the login ends where it is.
Abandon(p) ==
    /\ pc[p] \in Running
    /\ Stop(p)
    /\ UNCHANGED <<users, cache, pending, uls, nextRev, adminOps, login, readRev,
                   granted, creator, stale, disturbed>>

-------------------------------------------------------------------------------
(* CallLoginHooks and makeAuthResponse *)

\* Generator.Refresh upserts the login state of the user name from the user
\* object of this login.
LoginHook(p) ==
    /\ pc[p] = "written"
    /\ uls' = [uls EXCEPT ![login[p].name] = p]
    /\ pc' = [pc EXCEPT ![p] = "hooked"]
    /\ UNCHANGED <<users, cache, pending, nextRev, adminOps, login, readRev, granted,
                   creator, stale, disturbed>>

\* GetUserOrLoginState reads that state back; the credentials carry its roles.
GetUserOrLoginState(p) ==
    /\ pc[p] = "hooked"
    /\ granted' = [granted EXCEPT ![p] = uls[login[p].name]]
    /\ Stop(p)
    /\ UNCHANGED <<users, cache, pending, uls, nextRev, adminOps, login, readRev,
                   creator, stale, disturbed>>

-------------------------------------------------------------------------------

LoginStep(p) ==
    \/ \E i \in Identities : Start(p, i)
    \/ ValidateSubjectBinding(p) \/ GetUser(p) \/ CreateUser(p) \/ UpdateUser(p)
    \/ LoginHook(p) \/ GetUserOrLoginState(p) \/ Abandon(p)

Next ==
    \/ CacheApply
    \/ \E n \in Names : RemoveUser(n) \/ CreateLocalUser(n) \/ EditUser(n)
    \/ \E p \in Logins : LoginStep(p)

Spec == Init /\ [][Next]_vars

-------------------------------------------------------------------------------
(* Properties *)

\* User records, events and the locals of createUser keep their types.
TypeOK ==
    /\ users \in [Names -> Users \cup {None}]
    /\ cache \in [Names -> Users \cup {None}]
    /\ pending \in Seq([name : Names, user : Users \cup {None}])
    /\ uls \in [Names -> Logins \cup {None}]
    /\ nextRev \in Nat
    /\ adminOps \in 0 .. MaxAdminOps
    /\ pc \in [Logins -> Running \cup {"idle", "done"}]
    /\ login \in [Logins -> Identities \cup {None}]
    /\ readRev \in [Logins -> Nat \cup {None}]
    /\ granted \in [Logins -> Logins \cup {None}]
    /\ creator \in [Names -> Logins \cup {None}]
    /\ stale \subseteq Logins
    /\ disturbed \subseteq Names

\* As long as a user record exists it belongs to one identity: no interleaving
\* of logins, edits, deletions and expiry lets createUser overwrite a local
\* user, or a user of another connector or another Google subject.
UserKeepsIdentity ==
    [][\A n \in Names : users[n] # None /\ users'[n] # None =>
          /\ users'[n].connector = users[n].connector
          /\ users'[n].subject = users[n].subject]_users

\* Two user names hold the same Google subject only when the login that created
\* one of them could not see the other: its cache lagged, or the two logins
\* overlapped (validateSubjectBinding).
SubjectBoundUnlessStale ==
    \A m, n \in Names :
        /\ m # n
        /\ users[m] # None /\ users[n] # None
        /\ users[m].connector # Local
        /\ users[m].connector = users[n].connector
        /\ users[m].subject = users[n].subject
        => {creator[m], creator[n]} \cap stale # {}

\* Credentials carry the roles of a login of the same Google account, although
\* the login state they are read from is shared by all logins of that user
\* name -- unless the user record went away while one of them was running.
RolesOfSameSubject ==
    \A p \in Logins : granted[p] # None =>
        \/ login[p].name \in disturbed
        \/ /\ login[granted[p]].connector = login[p].connector
           /\ login[granted[p]].subject = login[p].subject

\* The comment on lookupGroups: after a failed lookup "the group list is then
\* empty, and the login grants no roles from group mappings."
FailedLookupGrantsNoGroupRoles ==
    \A p \in Logins : granted[p] # None /\ ~login[p].groups => ~login[granted[p]].groups
================================================================================
