------------------------- MODULE AgentRotationProofs -------------------------
(***************************************************************************)
(* No rotation whose phases each wait for the cluster to settle, and that  *)
(* is not forced, locks an agent out, in a cluster of any size and over    *)
(* any number of rotations.                                                *)
(***************************************************************************)
EXTENDS CARotationProofs

-------------------------------------------------------------------------------
(* Types *)

\* A process that rotates is up, and has the identity it is about to use once
\* it is registered.
TaskInv ==
    \A m \in Members : task[m] # None =>
        /\ mem[m] # None
        /\ task[m].step # "register" /\ task[m].rot.phase # "init" =>
                task[m].identity \in Identity
        /\ task[m].step # "state" => task[m].rot.phase # "init"
        /\ task[m].step = "register" => task[m].rot.phase # "update_servers"

TypeInv == TypeOK /\ TaskInv

\* What a process writes, uses and is about to do
Stores == [rot : Rotation, current : Identity, replacement : Identity \union {None}]

Credentials == [client : Identity, server : Identity]

Tasks == [step : {"register", "identity", "state"}, rot : Rotation, identity : Identity \union {None}]

\* The rotation of an authority, and the certificates it issues
LEMMA OfAuthority ==
    ASSUME NEW c \in Authority
    PROVE  /\ RotationOf(c) \in Rotation /\ RotationOf(c).id = c.id /\ RotationOf(c).phase = c.phase
           /\ Issued(c) \in Identity /\ Issued(c).signed = c.active /\ Issued(c).trusts = Trusted(c)
BY DEF Authority, Rotation, RotationOf, Identity, Issued, Trusted

\* What a process starts on when it finds a new rotation
LEMMA PlanCases ==
    ASSUME NEW m, NEW remote \in Rotation
    PROVE  /\ remote.phase = "init" =>
                Plan(m, remote) = [step |-> "state", rot |-> remote, identity |-> None]
           /\ remote.phase = "update_servers" =>
                Plan(m, remote) = [step |-> "identity", rot |-> remote, identity |-> mem[m].client]
           /\ remote.phase \in {"update_clients", "rollback", "standby"} =>
                Plan(m, remote) = [step |-> "register", rot |-> remote, identity |-> None]
           /\ remote.phase \in Phases
<1>1. remote.phase \in Phases
  BY DEF Rotation
<1>2. CASE remote.phase = "init"
  BY <1>1, <1>2 DEF Plan
<1>3. CASE remote.phase = "update_servers"
  BY <1>1, <1>3 DEF Plan
<1>4. CASE remote.phase \in {"update_clients", "rollback", "standby"}
  BY <1>1, <1>4 DEF Plan
<1> QED BY <1>1, <1>2, <1>3, <1>4 DEF Phases

\* What a process uses once its state is written
LEMMA StoredCases ==
    ASSUME NEW m, task[m].rot.phase \in Phases
    PROVE  /\ task[m].rot.phase = "init" => Stored(m) = mem[m]
           /\ task[m].rot.phase = "update_clients" =>
                Stored(m) = [mem[m] EXCEPT !.client = task[m].identity]
           /\ task[m].rot.phase = "update_servers" =>
                Stored(m) = [mem[m] EXCEPT !.server = task[m].identity]
           /\ task[m].rot.phase \in {"rollback", "standby"} =>
                Stored(m) = [client |-> task[m].identity, server |-> task[m].identity]
<1> DEFINE phase == task[m].rot.phase
<1>1. CASE phase = "init"
  BY <1>1 DEF Stored
<1>2. CASE phase = "update_clients"
  BY <1>2 DEF Stored
<1>3. CASE phase = "update_servers"
  BY <1>3 DEF Stored
<1>4. CASE phase \in {"rollback", "standby"}
  BY <1>4 DEF Stored
<1> QED BY <1>1, <1>2, <1>3, <1>4 DEF Phases

\* A process may only call Auth Services, which issue certificates of an
\* authority they have in their cache or read from the backend.
LEMMA CertsOf ==
    ASSUME NEW m \in Members, NEW a \in Reachable(m), NEW i \in Certs(m, a), task[m] # None
    PROVE  /\ a \in Auths /\ (m \in Auths => a = m)
           /\ \/ i = Issued(cache[a]) /\ (m \in Auths \/ RotationOf(cache[a]) = task[m].rot)
              \/ i = Issued(ca) /\ RotationOf(ca) = task[m].rot
BY DEF Reachable, Certs

\* The steps of a process change its own state, and no other.
LEMMA MemberStep ==
    ASSUME TypeInv, NEW m \in Members, Rotating(m) \/ Crash(m) \/ Restart(m)
    PROVE  /\ \A k \in Members \ {m} :
                disk'[k] = disk[k] /\ mem'[k] = mem[k] /\ task'[k] = task[k]
           /\ \A a \in Auths : cache'[a] = cache[a] \/ (a = m /\ cache'[a] = ca)
           /\ disk' = [disk EXCEPT ![m] = disk'[m]]
           /\ mem' = [mem EXCEPT ![m] = mem'[m]]
           /\ task' = [task EXCEPT ![m] = task'[m]]
           /\ cache' = cache \/ (m \in Auths /\ cache' = [cache EXCEPT ![m] = ca])
           /\ crashes' \in 0..MaxCrashes
           /\ UNCHANGED <<rotationVars, forced>>
<1> USE DEF TypeInv, TypeOK
<1>1. CASE SyncRotationState(m)
  BY <1>1 DEF SyncRotationState
<1>2. CASE ReRegister(m)
  BY <1>2 DEF ReRegister
<1>3. CASE ReRegisterFails(m)
  BY <1>3 DEF ReRegisterFails
<1>4. CASE WriteIdentity(m)
  BY <1>4 DEF WriteIdentity
<1>5. CASE WriteState(m)
  BY <1>5 DEF WriteState
<1>6. CASE Crash(m)
  <2>1. crashes' \in 0..MaxCrashes
    BY <1>6, MaxCrashesNat DEF Crash
  <2> QED BY <1>6, <2>1 DEF Crash
<1>7. CASE Restart(m)
  BY <1>7 DEF Restart
<1>8. CASE WriteFails(m)
  BY <1>8 DEF WriteFails
<1> QED BY <1>1, <1>2, <1>3, <1>4, <1>5, <1>6, <1>7, <1>8 DEF Rotating

-------------------------------------------------------------------------------
(* The steps of a process *)

\* What a process has is well formed.
OwnTyped(d, e, t) ==
    /\ d \in Stores
    /\ e \in Credentials \union {None}
    /\ t \in Tasks \union {None}
    /\ t # None =>
        /\ e # None
        /\ t.step # "register" /\ t.rot.phase # "init" => t.identity \in Identity
        /\ t.step # "state" => t.rot.phase # "init"
        /\ t.step = "register" => t.rot.phase # "update_servers"

LEMMA Owned == TypeInv => \A m \in Members : OwnTyped(disk[m], mem[m], task[m])
BY DEF TypeInv, TypeOK, TaskInv, OwnTyped, Stores, Credentials, Tasks

\* syncRotationState
LEMMA SyncEffect ==
    ASSUME TypeInv, NEW m \in Members, SyncRotationState(m)
    PROVE  /\ disk'[m] = disk[m] /\ mem'[m] = mem[m] /\ mem[m] # None
           /\ OwnTyped(disk'[m], mem'[m], task'[m])
           /\ \E a \in Auths :
                /\ m \in Auths => a = m
                /\ disk[m].rot # RotationOf(cache[a])
                /\ task'[m].rot = RotationOf(cache[a])
                /\ cache[a].phase \in Phases
                /\ cache[a].phase = "init" => task'[m].step = "state"
                /\ cache[a].phase = "update_servers" =>
                        task'[m].step = "identity" /\ task'[m].identity = mem[m].client
                /\ cache[a].phase \in {"update_clients", "rollback", "standby"} =>
                        task'[m].step = "register"
<1>1. PICK a \in Reachable(m) : disk[m].rot # RotationOf(cache[a])
                                /\ task' = [task EXCEPT ![m] = Plan(m, RotationOf(cache[a]))]
  BY DEF SyncRotationState
<1>2. a \in Auths /\ (m \in Auths => a = m)
  BY DEF Reachable
<1> DEFINE remote == RotationOf(cache[a])
<1>3. cache[a] \in Authority /\ remote \in Rotation /\ remote.phase = cache[a].phase
  BY <1>2, OfAuthority DEF TypeInv, TypeOK
<1>4. disk' = disk /\ mem' = mem /\ mem[m] # None /\ task'[m] = Plan(m, remote)
  BY <1>1 DEF SyncRotationState, Up, TypeInv, TypeOK
<1>5. disk[m] \in Stores /\ mem[m] \in Credentials
  BY <1>4, Owned DEF OwnTyped
<1> HIDE DEF remote
<1> DEFINE t == task'[m]
<1>6. CASE remote.phase = "init"
  <2>1. t = [step |-> "state", rot |-> remote, identity |-> None]
    BY <1>3, <1>4, <1>6, PlanCases
  <2>2. OwnTyped(disk'[m], mem'[m], t)
    BY <1>3, <1>4, <1>5, <1>6, <2>1 DEF OwnTyped, Tasks
  <2>3. t.rot = remote /\ t.step = "state"
    BY <2>1
  <2> HIDE DEF t
  <2> QED BY <1>1, <1>2, <1>3, <1>4, <1>6, <2>2, <2>3 DEF Phases, remote, t
<1>7. CASE remote.phase = "update_servers"
  <2>1. t = [step |-> "identity", rot |-> remote, identity |-> mem[m].client]
    BY <1>3, <1>4, <1>7, PlanCases
  <2>2. OwnTyped(disk'[m], mem'[m], t)
    BY <1>3, <1>4, <1>5, <1>7, <2>1 DEF OwnTyped, Tasks, Credentials
  <2>3. t.rot = remote /\ t.step = "identity" /\ t.identity = mem[m].client
    BY <2>1
  <2> HIDE DEF t
  <2> QED BY <1>1, <1>2, <1>3, <1>4, <1>7, <2>2, <2>3 DEF Phases, remote, t
<1>8. CASE remote.phase \in {"update_clients", "rollback", "standby"}
  <2>1. t = [step |-> "register", rot |-> remote, identity |-> None]
    BY <1>3, <1>4, <1>8, PlanCases
  <2>2. OwnTyped(disk'[m], mem'[m], t)
    BY <1>3, <1>4, <1>5, <1>8, <2>1 DEF OwnTyped, Tasks
  <2>3. t.rot = remote /\ t.step = "register"
    BY <2>1
  <2> HIDE DEF t
  <2> QED BY <1>1, <1>2, <1>3, <1>4, <1>8, <2>2, <2>3 DEF Phases, remote, t
<1> QED BY <1>3, <1>6, <1>7, <1>8, PlanCases DEF Phases

\* reRegister
LEMMA RegisterEffect ==
    ASSUME TypeInv, RotationTypeOK, NEW m \in Members, ReRegister(m)
    PROVE  /\ disk'[m] = disk[m] /\ mem'[m] = mem[m] /\ mem[m] # None
           /\ OwnTyped(disk'[m], mem'[m], task'[m])
           /\ task[m] # None /\ task[m].step = "register"
           /\ task[m].rot.phase \in {"update_clients", "rollback", "standby"}
           /\ task'[m].step = "identity" /\ task'[m].rot = task[m].rot
           /\ \E c \in Authority :
                /\ task'[m].identity = Issued(c)
                /\ \/ c = ca /\ RotationOf(ca) = task[m].rot
                   \/ \E a \in Auths : c = cache[a] /\ ((m \in Auths /\ a = m) \/ RotationOf(c) = task[m].rot)
<1>1. task[m] # None /\ task[m].step = "register"
  BY DEF ReRegister
<1> PICK a \in Reachable(m) : \E i \in Certs(m, a) :
        task' = [task EXCEPT ![m] = [@ EXCEPT !.step = "identity", !.identity = i]]
  BY DEF ReRegister
<1>2. PICK i \in Certs(m, a) :
        task' = [task EXCEPT ![m] = [@ EXCEPT !.step = "identity", !.identity = i]]
  OBVIOUS
<1>3. /\ a \in Auths /\ (m \in Auths => a = m)
      /\ \/ i = Issued(cache[a]) /\ (m \in Auths \/ RotationOf(cache[a]) = task[m].rot)
         \/ i = Issued(ca) /\ RotationOf(ca) = task[m].rot
  BY <1>1, CertsOf
<1>4. ca \in Authority /\ cache[a] \in Authority
  BY <1>3 DEF RotationTypeOK, TypeInv, TypeOK
<1>5. i \in Identity
  BY <1>3, <1>4, OfAuthority
<1>6. OwnTyped(disk[m], mem[m], task[m]) /\ task \in [Members -> Tasks \union {None}]
  BY Owned DEF TypeInv, TypeOK, Tasks
<1>7. disk' = disk /\ mem' = mem
  BY DEF ReRegister
<1>8. task'[m] = [task[m] EXCEPT !.step = "identity", !.identity = i] /\ task[m] \in Tasks
  BY <1>1, <1>2, <1>6
<1>9. /\ task'[m] \in Tasks /\ task'[m].step = "identity" /\ task'[m].rot = task[m].rot
      /\ task'[m].identity = i
  BY <1>5, <1>8 DEF Tasks
<1>10. task[m].rot.phase \in {"update_clients", "rollback", "standby"}
  BY <1>1, <1>6, <1>8 DEF OwnTyped, Tasks, Rotation, Phases
<1>11. OwnTyped(disk'[m], mem'[m], task'[m]) /\ mem[m] # None
  BY <1>1, <1>5, <1>6, <1>7, <1>9, <1>10 DEF OwnTyped
<1> QED BY <1>1, <1>3, <1>4, <1>7, <1>9, <1>10, <1>11

\* A registration or a write that fails, and a process that stops
LEMMA DropEffect ==
    ASSUME TypeInv, NEW m \in Members, ReRegisterFails(m) \/ WriteFails(m) \/ Crash(m)
    PROVE  /\ disk'[m] = disk[m] /\ mem'[m] \in {mem[m], None} /\ task'[m] = None
           /\ OwnTyped(disk'[m], mem'[m], task'[m])
<1>1. disk'[m] = disk[m] /\ mem'[m] \in {mem[m], None} /\ task'[m] = None
  BY DEF ReRegisterFails, WriteFails, Crash, TypeInv, TypeOK
<1> QED BY <1>1, Owned DEF OwnTyped

\* WriteIdentity
LEMMA IdentityEffect ==
    ASSUME TypeInv, NEW m \in Members, WriteIdentity(m)
    PROVE  /\ mem'[m] = mem[m] /\ mem[m] # None
           /\ OwnTyped(disk'[m], mem'[m], task'[m])
           /\ task[m] # None /\ task[m].step = "identity" /\ task[m].rot.phase # "init"
           /\ task'[m].step = "state" /\ task'[m].rot = task[m].rot
           /\ task'[m].identity = task[m].identity
           /\ disk'[m].rot = disk[m].rot
           /\ IF task[m].rot.phase = "update_clients"
              THEN disk'[m].replacement = task[m].identity /\ disk'[m].current = disk[m].current
              ELSE disk'[m].current = task[m].identity /\ disk'[m].replacement = disk[m].replacement
<1>1. task[m] # None /\ task[m].step = "identity" /\ mem' = mem
  BY DEF WriteIdentity
<1>2. OwnTyped(disk[m], mem[m], task[m])
  BY Owned
<1>3. /\ task \in [Members -> Tasks \union {None}] /\ disk \in [Members -> Stores]
  BY DEF TypeInv, TypeOK, Tasks, Stores
<1>4. /\ task[m] \in Tasks /\ mem[m] # None /\ task[m].rot.phase # "init" /\ task[m].identity \in Identity
      /\ disk[m] \in Stores
  BY <1>1, <1>2 DEF OwnTyped
<1>5. task'[m] = [task[m] EXCEPT !.step = "state"]
  BY <1>3 DEF WriteIdentity
<1>6. /\ task'[m] \in Tasks /\ task'[m].step = "state" /\ task'[m].rot = task[m].rot
      /\ task'[m].identity = task[m].identity
  BY <1>4, <1>5 DEF Tasks
<1>7. disk'[m] = IF task[m].rot.phase = "update_clients"
                 THEN [disk[m] EXCEPT !.replacement = task[m].identity]
                 ELSE [disk[m] EXCEPT !.current = task[m].identity]
  BY <1>3 DEF WriteIdentity
<1>8. /\ disk'[m] \in Stores /\ disk'[m].rot = disk[m].rot
      /\ IF task[m].rot.phase = "update_clients"
         THEN disk'[m].replacement = task[m].identity /\ disk'[m].current = disk[m].current
         ELSE disk'[m].current = task[m].identity /\ disk'[m].replacement = disk[m].replacement
  <2>1. CASE task[m].rot.phase = "update_clients"
    BY <1>4, <1>7, <2>1 DEF Stores
  <2>2. CASE task[m].rot.phase # "update_clients"
    BY <1>4, <1>7, <2>2 DEF Stores
  <2> QED BY <2>1, <2>2
<1>9. OwnTyped(disk'[m], mem'[m], task'[m])
  BY <1>1, <1>2, <1>4, <1>6, <1>8 DEF OwnTyped
<1> QED BY <1>1, <1>4, <1>6, <1>8, <1>9

\* WriteState
LEMMA StateEffect ==
    ASSUME TypeInv, NEW m \in Members, WriteState(m)
    PROVE  /\ OwnTyped(disk'[m], mem'[m], task'[m])
           /\ task[m] # None /\ task[m].step = "state" /\ mem[m] # None
           /\ task'[m] = None
           /\ disk'[m].rot = task[m].rot /\ disk'[m].current = disk[m].current
           /\ disk'[m].replacement = disk[m].replacement
           /\ mem'[m].client = (IF task[m].rot.phase \in {"init", "update_servers"}
                                THEN mem[m].client ELSE task[m].identity)
           /\ mem'[m].server = (IF task[m].rot.phase \in {"init", "update_clients"}
                                THEN mem[m].server ELSE task[m].identity)
<1>1. task[m] # None /\ task[m].step = "state"
  BY DEF WriteState
<1>2. OwnTyped(disk[m], mem[m], task[m])
  BY Owned
<1>3. /\ task \in [Members -> Tasks \union {None}] /\ disk \in [Members -> Stores]
      /\ mem \in [Members -> Credentials \union {None}]
  BY DEF TypeInv, TypeOK, Tasks, Stores, Credentials
<1>4. /\ task[m] \in Tasks /\ mem[m] \in Credentials /\ disk[m] \in Stores /\ mem[m] # None
      /\ task[m].rot.phase # "init" => task[m].identity \in Identity
      /\ task[m].rot.phase \in Phases /\ task[m].rot \in Rotation
  BY <1>1, <1>2 DEF OwnTyped, Tasks, Rotation
<1>5. task'[m] = None /\ disk'[m] = [disk[m] EXCEPT !.rot = task[m].rot] /\ mem'[m] = Stored(m)
  BY <1>3 DEF WriteState
<1>6. /\ disk'[m] \in Stores /\ disk'[m].rot = task[m].rot /\ disk'[m].current = disk[m].current
      /\ disk'[m].replacement = disk[m].replacement
  BY <1>4, <1>5 DEF Stores
<1>7. /\ mem'[m] \in Credentials
      /\ mem'[m].client = (IF task[m].rot.phase \in {"init", "update_servers"}
                           THEN mem[m].client ELSE task[m].identity)
      /\ mem'[m].server = (IF task[m].rot.phase \in {"init", "update_clients"}
                           THEN mem[m].server ELSE task[m].identity)
  <2> DEFINE phase == task[m].rot.phase
  <2>1. CASE phase = "init"
    BY <1>4, <1>5, <2>1, StoredCases
  <2>2. CASE phase = "update_clients"
    <3>1. mem'[m] = [mem[m] EXCEPT !.client = task[m].identity]
      BY <1>4, <1>5, <2>2, StoredCases
    <3> QED BY <1>4, <2>2, <3>1 DEF Credentials
  <2>3. CASE phase = "update_servers"
    <3>1. mem'[m] = [mem[m] EXCEPT !.server = task[m].identity]
      BY <1>4, <1>5, <2>3, StoredCases
    <3> QED BY <1>4, <2>3, <3>1 DEF Credentials
  <2>4. CASE phase \in {"rollback", "standby"}
    <3>1. mem'[m] = [client |-> task[m].identity, server |-> task[m].identity]
      BY <1>4, <1>5, <2>4, StoredCases
    <3> QED BY <1>4, <2>4, <3>1 DEF Credentials
  <2> QED BY <1>4, <2>1, <2>2, <2>3, <2>4 DEF Phases
<1>8. OwnTyped(disk'[m], mem'[m], task'[m])
  BY <1>5, <1>6, <1>7 DEF OwnTyped
<1> QED BY <1>1, <1>4, <1>5, <1>6, <1>7, <1>8

\* connect
LEMMA RestartEffect ==
    ASSUME TypeInv, NEW m \in Members, Restart(m)
    PROVE  /\ OwnTyped(disk'[m], mem'[m], task'[m])
           /\ disk'[m] = disk[m] /\ task[m] = None /\ task'[m] = None
           /\ mem'[m].server = disk[m].current
           /\ mem'[m].client = (IF disk[m].rot.phase = "update_clients" /\ disk[m].replacement # None
                                THEN disk[m].replacement ELSE disk[m].current)
<1>1. OwnTyped(disk[m], mem[m], task[m]) /\ mem[m] = None
  BY Owned DEF Restart, Up
<1>2. task[m] = None /\ disk[m] \in Stores
  BY <1>1 DEF OwnTyped
<1>3. disk' = disk /\ task' = task /\ mem'[m] = Connect(disk[m])
  BY DEF Restart, TypeInv, TypeOK
<1>4. /\ mem'[m] \in Credentials /\ mem'[m].server = disk[m].current
      /\ mem'[m].client = (IF disk[m].rot.phase = "update_clients" /\ disk[m].replacement # None
                           THEN disk[m].replacement ELSE disk[m].current)
  BY <1>2, <1>3 DEF Connect, Stores, Credentials
<1>5. OwnTyped(disk'[m], mem'[m], task'[m])
  BY <1>2, <1>3, <1>4 DEF OwnTyped
<1> QED BY <1>2, <1>3, <1>4, <1>5

\* Every step keeps what processes hold well formed.
LEMMA TypeStep == RotationInv /\ TypeInv /\ [Next]_vars => TypeInv'
<1> SUFFICES ASSUME RotationInv, TypeInv, [Next]_vars PROVE TypeInv'
  OBVIOUS
<1>1. RotationTypeOK /\ RotationTypeOK'
  BY ClusterStep, InvNext DEF RotationInv
<1>2. /\ cache \in [Auths -> Authority] /\ disk \in [Members -> Stores]
      /\ mem \in [Members -> Credentials \union {None}] /\ task \in [Members -> Tasks \union {None}]
      /\ crashes \in 0..MaxCrashes /\ forced \in BOOLEAN
  BY DEF TypeInv, TypeOK, Stores, Credentials, Tasks
<1>3. ASSUME disk' \in [Members -> Stores], mem' \in [Members -> Credentials \union {None}],
             task' \in [Members -> Tasks \union {None}], cache' \in [Auths -> Authority],
             crashes' \in 0..MaxCrashes, forced' \in BOOLEAN, TaskInv'
      PROVE  TypeInv'
  BY <1>1, <1>3 DEF TypeInv, TypeOK, Stores, Credentials, Tasks
<1>4. CASE UNCHANGED <<cache, disk, mem, task, crashes>> /\ forced' \in BOOLEAN
  <2>1. TaskInv'
    BY <1>4 DEF TypeInv, TaskInv
  <2> QED BY <1>2, <1>3, <1>4, <2>1
<1>5. CASE UNCHANGED vars
  BY <1>2, <1>4, <1>5 DEF vars, processVars
<1>6. ASSUME NEW c \in Callers, Request(c) \/ RotateBySchedule(c) \/ CommitFails(c)
      PROVE  TypeInv'
  BY <1>2, <1>4, <1>6 DEF processVars, Request, RotateBySchedule, CommitFails
<1>7. ASSUME NEW c \in Callers, Commit(c) PROVE TypeInv'
  BY <1>2, <1>4, <1>7 DEF Commit
<1>8. ASSUME NEW a \in Auths, Refresh(a) PROVE TypeInv'
  <2>1. cache' \in [Auths -> Authority] /\ UNCHANGED <<disk, mem, task, crashes, forced>>
    BY <1>1, <1>2, <1>8 DEF Refresh, RotationTypeOK
  <2>2. TaskInv'
    BY <2>1 DEF TypeInv, TaskInv
  <2> QED BY <1>2, <1>3, <2>1, <2>2
<1>9. ASSUME NEW m \in Members, Rotating(m) \/ Crash(m) \/ Restart(m) PROVE TypeInv'
  <2>1. OwnTyped(disk'[m], mem'[m], task'[m])
    BY <1>1, <1>9, SyncEffect, RegisterEffect, DropEffect, IdentityEffect, StateEffect,
       RestartEffect DEF Rotating
  <2>2. /\ disk' = [disk EXCEPT ![m] = disk'[m]]
        /\ mem' = [mem EXCEPT ![m] = mem'[m]]
        /\ task' = [task EXCEPT ![m] = task'[m]]
        /\ cache' = cache \/ (m \in Auths /\ cache' = [cache EXCEPT ![m] = ca])
        /\ crashes' \in 0..MaxCrashes /\ forced' = forced
        /\ \A k \in Members \ {m} : mem'[k] = mem[k] /\ task'[k] = task[k]
    BY <1>9, MemberStep
  <2>3. disk' \in [Members -> Stores]
    BY <1>2, <2>1, <2>2 DEF OwnTyped
  <2>4. mem' \in [Members -> Credentials \union {None}]
    BY <1>2, <2>1, <2>2 DEF OwnTyped
  <2>5. task' \in [Members -> Tasks \union {None}]
    BY <1>2, <2>1, <2>2 DEF OwnTyped
  <2>6. cache' \in [Auths -> Authority]
    BY <1>1, <1>2, <2>2 DEF RotationTypeOK
  <2>7. TaskInv'
    <3> SUFFICES ASSUME NEW k \in Members, task'[k] # None
                 PROVE  /\ mem'[k] # None
                        /\ task'[k].step # "register" /\ task'[k].rot.phase # "init" =>
                                task'[k].identity \in Identity
                        /\ task'[k].step # "state" => task'[k].rot.phase # "init"
                        /\ task'[k].step = "register" => task'[k].rot.phase # "update_servers"
      BY DEF TaskInv
    <3>1. CASE k = m
      BY <2>1, <3>1 DEF OwnTyped
    <3>2. CASE k # m
      BY <2>2, <3>2 DEF TypeInv, TaskInv
    <3> QED BY <3>1, <3>2
  <2> QED BY <1>2, <1>3, <2>2, <2>3, <2>4, <2>5, <2>6, <2>7
<1> QED BY <1>5, <1>6, <1>7, <1>8, <1>9 DEF Next

LEMMA TypeInit == Init => TypeInv
<1> SUFFICES ASSUME Init PROVE TypeInv
  OBVIOUS
<1>1. RotationTypeOK
  BY InvInit DEF Init, RotationInv
<1>2. ca \in Authority
  BY <1>1 DEF RotationTypeOK
<1>3. RotationOf(ca) \in Rotation /\ Issued(ca) \in Identity
  BY <1>2, OfAuthority
<1>4. /\ cache \in [Auths -> Authority] /\ disk \in [Members -> Stores]
      /\ mem \in [Members -> Credentials \union {None}] /\ task \in [Members -> Tasks \union {None}]
  BY <1>2, <1>3 DEF Init, Stores, Credentials, Tasks
<1>5. crashes \in 0..MaxCrashes /\ forced \in BOOLEAN
  <2>1. crashes = 0 /\ forced = FALSE
    BY DEF Init
  <2>2. crashes \in 0..MaxCrashes
    BY <2>1, MaxCrashesNat
  <2> QED BY <2>1, <2>2
<1>6. TaskInv
  BY DEF Init, TaskInv
<1> QED BY <1>1, <1>4, <1>5, <1>6 DEF TypeInv, TypeOK, Stores, Credentials, Tasks

\* What the processes of a cluster of any size store, use and are about to do is
\* well formed at any time: none uses an identity it has not got
\* (lib/service/connect.go).
THEOREM TypeCorrect == Spec => []TypeOK
<1>1. TypeInv => TypeOK
  BY DEF TypeInv
<1>2. Init => RotationInv
  BY InvInit DEF Init
<1> QED BY <1>1, <1>2, ClusterStep, InvNext, TypeInit, TypeStep, PTL DEF Spec

-------------------------------------------------------------------------------
(* The order of rotations *)

Rank == [init |-> 0, update_clients |-> 1, update_servers |-> 2, rollback |-> 3, standby |-> 4]

\* Where in the life of the cluster a rotation is: every update goes forward.
Ord(r) == 5 * r.id + Rank[r.phase]

\* An Auth Service learns of rotations from its cache, which follows the backend.
OrderInv ==
    \A a \in Auths :
        /\ Ord(disk[a].rot) <= Ord(RotationOf(cache[a]))
        /\ task[a] # None => Ord(task[a].rot) <= Ord(RotationOf(cache[a]))
        /\ Ord(RotationOf(cache[a])) <= Ord(RotationOf(ca))
        /\ Ord(RotationOf(cache[a])) = Ord(RotationOf(ca)) => cache[a] = ca

\* How a request changes an authority
StepOf(c, n) ==
    \/ /\ c.phase = "standby" /\ n.id = c.id + 1
       /\ n.phase = "standby" \/ (n.phase = "init" /\ n.active = c.active)
    \/ /\ c.phase = "init" /\ n.phase = "update_clients" /\ n.id = c.id
       /\ n.active = c.additional /\ n.additional = c.active
    \/ /\ c.phase = "update_clients" /\ n.phase = "update_servers" /\ n.id = c.id
       /\ n.active = c.active /\ n.additional = c.additional
    \/ /\ c.phase = "init" /\ n.phase = "rollback" /\ n.id = c.id
       /\ n.active = c.active /\ n.additional = c.additional
    \/ /\ c.phase \in {"update_clients", "update_servers"} /\ n.phase = "rollback" /\ n.id = c.id
       /\ n.active = c.additional /\ n.additional = c.active
    \/ /\ c.phase \in {"update_servers", "rollback"} /\ n.phase = "standby" /\ n.id = c.id
       /\ n.active = c.active

\* Where requests wait for it, only a settled cluster is taken to a phase other
\* than rollback, and no process moves before that is stored.
PaceInv ==
    \A c \in Callers : job[c] # None /\ job[c].rev = ca.rev =>
        StepOf(ca, job[c]) /\ (Care = "settled" /\ job[c].phase # "rollback" => Settled)

\* Rotations are ordered.
LEMMA OrdNat ==
    ASSUME NEW r \in Rotation
    PROVE  Ord(r) \in Nat /\ r.id \in Nat /\ Rank[r.phase] \in 0..4
BY MaxRotationsNat DEF Rotation, Keys, Phases, Ord, Rank

LEMMA OrdEqual ==
    ASSUME NEW r \in Rotation, NEW q \in Rotation, Ord(r) = Ord(q)
    PROVE  r = q
<1>1. r.id \in Nat /\ q.id \in Nat /\ r.phase \in Phases /\ q.phase \in Phases
  BY MaxRotationsNat DEF Rotation, Keys
<1>2. Rank[r.phase] \in 0..4 /\ Rank[q.phase] \in 0..4
  BY OrdNat
<1>3. 5 * r.id + Rank[r.phase] = 5 * q.id + Rank[q.phase]
  BY DEF Ord
<1>4. r.id = q.id /\ Rank[r.phase] = Rank[q.phase]
  BY <1>1, <1>2, <1>3
<1>5. r.phase = q.phase
  BY <1>1, <1>4 DEF Phases, Rank
<1> QED BY <1>4, <1>5 DEF Rotation

\* Requests lead forward, and in the way StepOf tells.
LEMMA RequestSteps ==
    ASSUME NEW c \in Authority, KeysByPhase(c),
           NEW target \in Phases, c.phase \in From(target),
           NEW mode \in {"manual", "auto"},
           NEW force \in BOOLEAN, force => target = "init"
    PROVE  LET n == ProcessRotationRequest(c, target, mode, force)
           IN  StepOf(c, n) /\ (n.phase = "rollback" => target = "rollback")
<1> USE MaxRotationsNat DEF Authority, Keys, Phases, Modes, From
<1>1. CASE target = "init"
  <2>1. ProcessRotationRequest(c, target, mode, force) = StartNewRotation(c, mode, force)
    BY <1>1 DEF ProcessRotationRequest
  <2> QED BY <1>1, <2>1 DEF StartNewRotation, StepOf
<1>2. CASE target = "update_clients"
  <2>1. ProcessRotationRequest(c, target, mode, force) = UpdateClients(c, mode)
    BY <1>2 DEF ProcessRotationRequest
  <2> QED BY <1>2, <2>1 DEF UpdateClients, Swapped, StepOf
<1>3. CASE target = "update_servers"
  <2>1. ProcessRotationRequest(c, target, mode, force) = UpdateServers(c, mode)
    BY <1>3 DEF ProcessRotationRequest
  <2> QED BY <1>3, <2>1 DEF UpdateServers, StepOf
<1>4. CASE target = "rollback"
  <2>1. ProcessRotationRequest(c, target, mode, force) = StartRollingBackRotation(c)
    BY <1>4 DEF ProcessRotationRequest
  <2> QED BY <1>4, <2>1 DEF StartRollingBackRotation, Swapped, StepOf
<1>5. CASE target = "standby"
  <2>1. ProcessRotationRequest(c, target, mode, force) = CompleteRotation(c)
    BY <1>5 DEF ProcessRotationRequest
  <2> QED BY <1>5, <2>1 DEF CompleteRotation, StepOf
<1> QED BY <1>1, <1>2, <1>3, <1>4, <1>5

LEMMA StepForward ==
    ASSUME NEW c \in Authority, NEW n \in Authority, StepOf(c, n)
    PROVE  Ord(RotationOf(c)) < Ord(RotationOf(n))
<1>1. c.id \in Nat /\ n.id \in Nat /\ c.phase \in Phases /\ n.phase \in Phases
  BY MaxRotationsNat DEF Authority, Keys
<1>2. /\ Ord(RotationOf(c)) = 5 * c.id + Rank[c.phase]
      /\ Ord(RotationOf(n)) = 5 * n.id + Rank[n.phase]
  BY DEF Ord, RotationOf
<1>3. Rank[c.phase] \in 0..4 /\ Rank[n.phase] \in 0..4
  BY <1>1 DEF Phases, Rank
<1>4. n.id = c.id + 1 \/ (n.id = c.id /\ Rank[c.phase] < Rank[n.phase])
  BY DEF StepOf, Rank
<1> QED BY <1>1, <1>2, <1>3, <1>4

\* An update that is stored
LEMMA CommitEffect ==
    ASSUME RotationInv, PaceInv, NEW c \in Callers, Commit(c)
    PROVE  /\ ca \in Authority /\ ca' \in Authority
           /\ StepOf(ca, ca')
           /\ Care = "settled" /\ ca'.phase # "rollback" => Settled
           /\ KeysByPhase(ca) /\ KeysByPhase(ca')
           /\ \A d \in Callers : job'[d] # None => job'[d].rev # ca'.rev
           /\ UNCHANGED <<cache, disk, mem, task>>
           /\ forced' = (forced \/ ForcedStep)
<1> DEFINE n == job[c]
<1>1. /\ n \in Authority /\ n # None /\ n.rev = ca.rev /\ ca \in Authority
      /\ ca' = [n EXCEPT !.rev = ca.rev + 1]
      /\ job' = [job EXCEPT ![c] = None] /\ job \in [Callers -> Authority \union {None}]
  BY DEF Commit, UpdateCertAuthority, SameRevision, RotationInv, RotationTypeOK
<1>2. StepOf(ca, n) /\ (Care = "settled" /\ n.phase # "rollback" => Settled)
  BY <1>1 DEF PaceInv
<1>3. KeysByPhase(n) /\ KeysByPhase(ca)
  BY <1>1 DEF RotationInv, JobInv
<1>4. \A d \in Callers : job[d] # None => job[d].rev <= ca.rev
  BY DEF RotationInv, JobInv
<1>5. \A d \in Callers : job'[d] # None => job[d] # None /\ job'[d] = job[d] /\ job[d] \in Authority
  BY <1>1
<1> HIDE DEF n
<1>6. /\ ca' \in Authority /\ ca'.rev = ca.rev + 1 /\ ca'.id = n.id /\ ca'.phase = n.phase
      /\ ca'.active = n.active /\ ca'.additional = n.additional /\ ca.rev \in Nat
  BY <1>1 DEF Authority
<1>7. StepOf(ca, ca')
  BY <1>2, <1>6 DEF StepOf
<1>8. KeysByPhase(ca')
  BY <1>3, <1>6 DEF KeysByPhase, Trusted
<1>9. \A d \in Callers : job'[d] # None => job'[d].rev # ca'.rev
  <2> SUFFICES ASSUME NEW d \in Callers, job'[d] # None PROVE job'[d].rev # ca'.rev
    OBVIOUS
  <2>1. job'[d] = job[d] /\ job[d].rev <= ca.rev /\ job[d].rev \in Nat
    BY <1>4, <1>5 DEF Authority
  <2> QED BY <1>6, <2>1
<1> QED BY <1>1, <1>2, <1>3, <1>6, <1>7, <1>8, <1>9 DEF Commit

\* Every Auth Service knows of the phase in which the cluster has settled.
LEMMA SettledCaches ==
    ASSUME RotationInv, TypeInv, OrderInv, Settled
    PROVE  \A a \in Auths : cache[a] = ca
<1> SUFFICES ASSUME NEW a \in Auths PROVE cache[a] = ca
  OBVIOUS
<1>1. disk[a].rot = RotationOf(ca)
  BY DEF Settled, Reported, InSync, Members
<1>2. cache[a] \in Authority /\ ca \in Authority
  BY DEF TypeInv, TypeOK, RotationInv, RotationTypeOK
<1>3. Ord(RotationOf(cache[a])) \in Nat /\ Ord(RotationOf(ca)) \in Nat
  BY <1>2, OfAuthority, OrdNat
<1> QED BY <1>1, <1>3 DEF OrderInv

\* A settled cluster stays so until the authority changes.
LEMMA SettledStays ==
    ASSUME RotationInv, TypeInv, OrderInv, Settled, [Next]_vars, ca' = ca
    PROVE  Settled'
<1>1. \A m \in Members : disk[m].rot = RotationOf(ca) /\ task[m] = None
  BY DEF Settled, Reported, InSync
<1>2. ASSUME UNCHANGED <<disk, task>> PROVE Settled'
  BY <1>1, <1>2 DEF Settled, Reported, InSync
<1>3. CASE UNCHANGED vars
  BY <1>2, <1>3 DEF vars, processVars
<1>4. ASSUME NEW c \in Callers, Request(c) \/ RotateBySchedule(c) \/ Commit(c) \/ CommitFails(c)
      PROVE  Settled'
  BY <1>2, <1>4 DEF processVars, Request, RotateBySchedule, Commit, CommitFails
<1>5. ASSUME NEW a \in Auths, Refresh(a) PROVE Settled'
  BY <1>2, <1>5 DEF Refresh
<1>6. ASSUME NEW m \in Members, Rotating(m) \/ Crash(m) \/ Restart(m) PROVE Settled'
  <2>1. ~SyncRotationState(m)
    BY <1>1, SettledCaches, SyncEffect
  <2>2. Crash(m) \/ Restart(m)
    BY <1>1, <1>6, <2>1 DEF Rotating, ReRegister, ReRegisterFails,
                                 WriteIdentity, WriteState, WriteFails
  <2>3. disk'[m] = disk[m] /\ task'[m] = None
    BY <2>2, DropEffect, RestartEffect
  <2>4. \A k \in Members \ {m} : disk'[k] = disk[k] /\ task'[k] = task[k]
    BY <1>6, MemberStep
  <2> QED BY <1>1, <2>3, <2>4 DEF Settled, Reported, InSync
<1> QED BY <1>3, <1>4, <1>5, <1>6 DEF Next

\* Auth Services and their caches go forward.
LEMMA OrderStep == RotationInv /\ TypeInv /\ OrderInv /\ PaceInv /\ [Next]_vars => OrderInv'
<1> SUFFICES ASSUME RotationInv, TypeInv, OrderInv, PaceInv, [Next]_vars PROVE OrderInv'
  OBVIOUS
<1> USE DEF OrderInv
<1>1. ca \in Authority /\ cache \in [Auths -> Authority]
  BY DEF RotationInv, RotationTypeOK, TypeInv, TypeOK
<1>2. \A a \in Auths : Ord(RotationOf(cache[a])) \in Nat
  BY <1>1, OfAuthority, OrdNat
<1>3. Ord(RotationOf(ca)) \in Nat
  BY <1>1, OfAuthority, OrdNat
<1>4. CASE UNCHANGED <<ca, cache, disk, task>>
  BY <1>4
<1>5. CASE UNCHANGED vars
  BY <1>4, <1>5 DEF vars, rotationVars, processVars
<1>6. ASSUME NEW c \in Callers, Request(c) \/ RotateBySchedule(c) \/ CommitFails(c)
      PROVE  OrderInv'
  BY <1>4, <1>6 DEF processVars, Request, RotateBySchedule, CommitFails, RotateCertAuthority,
                    AutoRotate, Begin, UpdateFails
<1>7. ASSUME NEW c \in Callers, Commit(c) PROVE OrderInv'
  <2>1. /\ ca' \in Authority /\ StepOf(ca, ca') /\ UNCHANGED <<cache, disk, task>>
    BY <1>7, CommitEffect
  <2>2. Ord(RotationOf(ca)) < Ord(RotationOf(ca'))
    BY <1>1, <2>1, StepForward
  <2>3. Ord(RotationOf(ca')) \in Nat
    BY <2>1, OfAuthority, OrdNat
  <2>4. \A a \in Auths : Ord(RotationOf(cache[a])) < Ord(RotationOf(ca'))
    BY <1>2, <1>3, <2>2, <2>3
  <2> HIDE DEF Ord
  <2> QED BY <1>2, <2>1, <2>3, <2>4
<1>8. ASSUME NEW a \in Auths, Refresh(a) PROVE OrderInv'
  <2>1. cache' = [cache EXCEPT ![a] = ca] /\ UNCHANGED <<ca, disk, task>>
    BY <1>8 DEF Refresh, rotationVars
  <2> SUFFICES ASSUME NEW b \in Auths
               PROVE  /\ Ord(disk[b].rot) <= Ord(RotationOf(cache'[b]))
                      /\ task[b] # None => Ord(task[b].rot) <= Ord(RotationOf(cache'[b]))
                      /\ Ord(RotationOf(cache'[b])) <= Ord(RotationOf(ca))
                      /\ Ord(RotationOf(cache'[b])) = Ord(RotationOf(ca)) => cache'[b] = ca
    BY <2>1
  <2>2. disk[b].rot \in Rotation /\ (task[b] # None => task[b].rot \in Rotation)
    BY DEF TypeInv, TypeOK, Members
  <2>3. Ord(disk[b].rot) \in Nat /\ (task[b] # None => Ord(task[b].rot) \in Nat)
    BY <2>2, OrdNat
  <2>4. CASE cache'[b] = ca
    BY <1>2, <1>3, <2>3, <2>4
  <2>5. CASE cache'[b] = cache[b]
    BY <2>5
  <2> QED BY <1>1, <2>1, <2>4, <2>5
<1>9. ASSUME NEW m \in Members, Rotating(m) \/ Crash(m) \/ Restart(m) PROVE OrderInv'
  <2>1. /\ \A k \in Members \ {m} : disk'[k] = disk[k] /\ task'[k] = task[k]
        /\ \A a \in Auths : cache'[a] = cache[a] \/ (a = m /\ cache'[a] = ca)
        /\ ca' = ca
    BY <1>9, MemberStep DEF rotationVars
  <2> SUFFICES ASSUME NEW b \in Auths
               PROVE  /\ Ord(disk'[b].rot) <= Ord(RotationOf(cache'[b]))
                      /\ task'[b] # None => Ord(task'[b].rot) <= Ord(RotationOf(cache'[b]))
                      /\ Ord(RotationOf(cache'[b])) <= Ord(RotationOf(ca))
                      /\ Ord(RotationOf(cache'[b])) = Ord(RotationOf(ca)) => cache'[b] = ca
    BY <2>1
  <2>2. disk[b].rot \in Rotation /\ (task[b] # None => task[b].rot \in Rotation)
    BY DEF TypeInv, TypeOK, Members
  <2>3. Ord(disk[b].rot) \in Nat /\ (task[b] # None => Ord(task[b].rot) \in Nat)
    BY <2>2, OrdNat
  <2>4. /\ Ord(RotationOf(cache'[b])) <= Ord(RotationOf(ca))
        /\ Ord(RotationOf(cache'[b])) = Ord(RotationOf(ca)) => cache'[b] = ca
        /\ Ord(RotationOf(cache[b])) <= Ord(RotationOf(cache'[b]))
        /\ Ord(RotationOf(cache'[b])) \in Nat
    <3>1. CASE cache'[b] = ca
      BY <1>2, <1>3, <3>1
    <3>2. CASE cache'[b] = cache[b]
      BY <1>2, <1>3, <3>2
    <3> QED BY <2>1, <3>1, <3>2
  <2>5. /\ Ord(disk[b].rot) <= Ord(RotationOf(cache'[b]))
        /\ task[b] # None => Ord(task[b].rot) <= Ord(RotationOf(cache'[b]))
    BY <1>2, <2>3, <2>4
  <2>6. \/ disk'[b].rot = disk[b].rot
        \/ task[b] # None /\ disk'[b].rot = task[b].rot
    <3>1. CASE b # m
      BY <2>1, <3>1 DEF Members
    <3>2. CASE b = m
      BY <1>9, <3>2, SyncEffect, RegisterEffect, DropEffect, IdentityEffect, StateEffect,
         RestartEffect DEF Rotating, RotationInv
    <3> QED BY <3>1, <3>2
  <2>7. \/ task'[b] = None
        \/ task[b] # None /\ task'[b].rot = task[b].rot
        \/ task'[b].rot = RotationOf(cache[b])
    <3>1. CASE b # m
      BY <2>1, <3>1 DEF Members
    <3>2. CASE b = m
      BY <1>9, <3>2, SyncEffect, RegisterEffect, DropEffect, IdentityEffect, StateEffect,
         RestartEffect DEF Rotating, RotationInv
    <3> QED BY <3>1, <3>2
  <2> QED BY <2>4, <2>5, <2>6, <2>7
<1> QED BY <1>5, <1>6, <1>7, <1>8, <1>9 DEF Next

\* A call that begins has waited for what calls wait for, or rolls back.
LEMMA BeginSteps ==
    ASSUME RotationInv, NEW c \in Callers, NEW target \in Phases,
           NEW mode \in {"manual", "auto"}, NEW force \in BOOLEAN, force => target = "init",
           Begin(c, target, mode, force), Awaited(target)
    PROVE  /\ StepOf(ca, job'[c]) /\ (Care = "settled" /\ job'[c].phase # "rollback" => Settled)
           /\ \A d \in Callers \ {c} : job'[d] = job[d]
           /\ UNCHANGED ca
<1> DEFINE n == ProcessRotationRequest(ca, target, mode, force)
<1>1. ca \in Authority /\ KeysByPhase(ca) /\ ca.phase \in From(target)
  BY DEF Begin, RotationInv, RotationTypeOK
<1>2. StepOf(ca, n)
  BY <1>1, RequestSteps
<1>3. target = "rollback" => n.phase = "rollback"
  <2> SUFFICES ASSUME target = "rollback" PROVE n.phase = "rollback"
    OBVIOUS
  <2>1. n = StartRollingBackRotation(ca)
    BY DEF ProcessRotationRequest
  <2> QED BY <1>1, <2>1 DEF StartRollingBackRotation, Swapped, Authority
<1>4. job'[c] = n /\ (\A d \in Callers \ {c} : job'[d] = job[d]) /\ UNCHANGED ca
  BY DEF Begin, RotationInv, RotationTypeOK
<1>5. target = "rollback" \/ (Care = "settled" => Settled)
  BY DEF Awaited
<1> HIDE DEF n
<1> QED BY <1>2, <1>3, <1>4, <1>5

\* The pace of the administrator and of the schedule
LEMMA PaceStep == RotationInv /\ TypeInv /\ OrderInv /\ PaceInv /\ [Next]_vars => PaceInv'
<1> SUFFICES ASSUME RotationInv, TypeInv, OrderInv, PaceInv, [Next]_vars PROVE PaceInv'
  OBVIOUS
<1> DEFINE Known(j) == j # None /\ j.rev = ca.rev =>
                StepOf(ca, j) /\ (Care = "settled" /\ j.phase # "rollback" => Settled)
<1>1. \A c \in Callers : Known(job[c])
  BY DEF PaceInv
<1>2. ASSUME ca' = ca, \A c \in Callers : Known(job'[c]) PROVE PaceInv'
  <2>1. Settled => Settled'
    BY <1>2, SettledStays
  <2> QED BY <1>2, <2>1 DEF PaceInv
<1>3. ASSUME NEW c \in Callers, ca' = ca, Known(job'[c]),
             \A d \in Callers \ {c} : job'[d] = job[d]
      PROVE  PaceInv'
  BY <1>1, <1>2, <1>3
<1>4. CASE UNCHANGED rotationVars
  BY <1>1, <1>2, <1>4 DEF rotationVars
<1>5. ASSUME NEW c \in Callers, Request(c) PROVE PaceInv'
  <2>1. PICK target \in Phases : Awaited(target) /\ RotateCertAuthority(c, target)
    BY <1>5 DEF Request
  <2>2. PICK mode \in {"manual", "auto"}, force \in BOOLEAN :
            (force => target = "init") /\ Begin(c, target, mode, force)
    BY <2>1, RequestModesKnown DEF RotateCertAuthority
  <2>3. /\ StepOf(ca, job'[c]) /\ (Care = "settled" /\ job'[c].phase # "rollback" => Settled)
        /\ \A d \in Callers \ {c} : job'[d] = job[d]
        /\ UNCHANGED ca
    BY <2>1, <2>2, BeginSteps
  <2> QED BY <1>3, <2>3
<1>6. ASSUME NEW c \in Callers, RotateBySchedule(c) PROVE PaceInv'
  <2> DEFINE target == Scheduled[ca.phase]
  <2>1. ca.phase \in DOMAIN Scheduled /\ Begin(c, target, "auto", FALSE) /\ Awaited(target)
    BY <1>6 DEF RotateBySchedule, AutoRotate
  <2>2. target \in Phases
    BY <2>1 DEF Scheduled, Phases
  <2> HIDE DEF target
  <2>3. /\ StepOf(ca, job'[c]) /\ (Care = "settled" /\ job'[c].phase # "rollback" => Settled)
        /\ \A d \in Callers \ {c} : job'[d] = job[d]
        /\ UNCHANGED ca
    BY <2>1, <2>2, BeginSteps
  <2> QED BY <1>3, <2>3
<1>7. ASSUME NEW c \in Callers, CommitFails(c) PROVE PaceInv'
  <2>1. ca' = ca /\ job' = [job EXCEPT ![c] = None]
    BY <1>7 DEF CommitFails, UpdateFails
  <2>2. job'[c] = None /\ \A d \in Callers \ {c} : job'[d] = job[d]
    BY <2>1 DEF RotationInv, RotationTypeOK
  <2> QED BY <1>3, <2>1, <2>2
<1>8. ASSUME NEW c \in Callers, Commit(c) PROVE PaceInv'
  BY <1>8, CommitEffect DEF PaceInv
<1>9. ASSUME NEW m \in Members, Rotating(m) \/ Crash(m) \/ Restart(m) PROVE PaceInv'
  BY <1>4, <1>9, MemberStep
<1>10. ASSUME NEW a \in Auths, Refresh(a) PROVE PaceInv'
  BY <1>4, <1>10 DEF Refresh
<1>11. CASE UNCHANGED vars
  BY <1>4, <1>11 DEF vars
<1> QED BY <1>5, <1>6, <1>7, <1>8, <1>9, <1>10, <1>11 DEF Next


-------------------------------------------------------------------------------
(* What processes hold, and what they can be connected to *)

\* The keys of before a rotation, and its own
Old == IF ca.phase \in {"update_clients", "update_servers"} THEN ca.additional ELSE ca.active

New == {ca.id}

\* Before clients get new certificates, after a rotation, and after a rollback
\* from the first phase: one set of keys signs everything.
Sole(i) == i.signed = ca.active /\ ca.active \subseteq i.trusts

SoleMember(d, e, t) ==
    /\ d.rot.phase # "update_clients" /\ Sole(d.current)
    /\ e # None => Sole(e.client) /\ Sole(e.server)
    /\ t # None =>
        /\ t.rot.phase # "update_clients"
        /\ t.step # "register" /\ t.rot.phase # "init" => Sole(t.identity)

SoleStage ==
    /\ \A a \in Auths : cache[a].active = ca.active /\ cache[a].phase # "update_clients"
    /\ \A m \in Members : SoleMember(disk[m], mem[m], task[m])

\* While clients get certificates of the new keys: servers have those of the
\* old ones, and all clients trust these.
CacheOf(c, phases) ==
    /\ c.id = ca.id
    /\ c.phase \in phases
    /\ ca.phase # "rollback" => c.phase # "rollback"
    /\ c.active = (IF c.phase \in {"init", "rollback"} THEN Old ELSE New)
    /\ Trusted(c) = Old \union New

OldSigned(i) == i.signed = Old /\ Old \subseteq i.trusts

ClientsPhases == {"init", "update_clients", "rollback"}

TrustsOld(i) ==
    /\ i.signed \in {Old, New} /\ Old \subseteq i.trusts
    /\ ca.phase = "update_clients" => i.signed = New /\ New \subseteq i.trusts

ClientsMember(d, e, t) ==
    /\ d.rot.phase \in ClientsPhases
    /\ OldSigned(d.current)
    /\ d.rot.phase = "update_clients" => d.replacement \in Identity /\ TrustsOld(d.replacement)
    /\ e # None =>
        /\ OldSigned(e.server)
        /\ e.client.signed \in {Old, New} /\ Old \subseteq e.client.trusts
        /\ d.rot.phase = "update_clients" => TrustsOld(e.client)
        /\ d.rot.phase = "rollback" => OldSigned(e.client)
    /\ t # None =>
        /\ t.rot.id = ca.id /\ t.rot.phase \in ClientsPhases
        /\ t.step # "register" /\ t.rot.phase = "update_clients" => TrustsOld(t.identity)
        /\ t.step = "state" /\ t.rot.phase = "update_clients" => d.replacement = t.identity
        /\ t.step # "register" /\ t.rot.phase = "rollback" => OldSigned(t.identity)

ClientsStage ==
    /\ \A a \in Auths : CacheOf(cache[a], ClientsPhases)
    /\ \A m \in Members : ClientsMember(disk[m], mem[m], task[m])

\* While servers get certificates of the new keys: all clients trust both.
ServersPhases == {"update_clients", "update_servers", "rollback"}

TrustsBoth(i) ==
    /\ i.signed \in {Old, New} /\ Old \union New \subseteq i.trusts
    /\ ca.phase = "update_servers" => i.signed = New

ServersMember(d, e, t) ==
    /\ d.rot.phase \in ServersPhases
    /\ d.current.signed \in {Old, New}
    /\ IF d.rot.phase = "update_clients"
       THEN d.replacement \in Identity /\ TrustsBoth(d.replacement)
       ELSE TrustsBoth(d.current)
    /\ d.rot.phase = "rollback" => d.current.signed = Old
    /\ e # None =>
        /\ TrustsBoth(e.client)
        /\ e.server.signed \in {Old, New}
        /\ d.rot.phase = "update_servers" => TrustsBoth(e.server)
        /\ d.rot.phase = "rollback" => e.client.signed = Old /\ OldSigned(e.server)
    /\ t # None =>
        /\ t.rot.id = ca.id /\ t.rot.phase \in ServersPhases
        /\ t.step # "register" => TrustsBoth(t.identity)
        /\ t.step # "register" /\ t.rot.phase = "rollback" => t.identity.signed = Old
        /\ t.step # "register" /\ t.rot.phase = "update_servers" /\ d.rot.phase = "rollback" =>
                t.identity.signed = Old
        /\ t.step = "state" =>
                t.identity = IF t.rot.phase = "update_clients" THEN d.replacement ELSE d.current

ServersStage ==
    /\ \A a \in Auths : CacheOf(cache[a], ServersPhases)
    /\ \A m \in Members : ServersMember(disk[m], mem[m], task[m])

\* Where requests wait for a settled cluster. A rollback starts in any of the three.
TrustInv ==
    Care = "settled" /\ ~forced =>
        /\ ca.phase \in {"standby", "init"} => SoleStage
        /\ ca.phase = "update_clients" => ClientsStage
        /\ ca.phase = "update_servers" => ServersStage
        /\ ca.phase = "rollback" => SoleStage \/ ClientsStage \/ ServersStage

-------------------------------------------------------------------------------
(* Processes keep to what the phase allows *)

\* One set of keys
LEMMA SoleProcess ==
    ASSUME RotationInv, TypeInv, SoleStage, NEW m \in Members, Rotating(m) \/ Crash(m) \/ Restart(m)
    PROVE  SoleMember(disk'[m], mem'[m], task'[m])
<1>1. SoleMember(disk[m], mem[m], task[m]) /\ OwnTyped(disk[m], mem[m], task[m])
  BY Owned DEF SoleStage
<1>2. \A a \in Auths : cache[a] \in Authority /\ cache[a].active = ca.active /\ cache[a].phase # "update_clients"
  BY DEF SoleStage, TypeInv, TypeOK
<1>3. ca \in Authority /\ RotationTypeOK
  BY DEF RotationInv, RotationTypeOK
<1>4. CASE SyncRotationState(m)
  <2>1. PICK a \in Auths : task'[m].rot = RotationOf(cache[a]) /\ cache[a].phase \in Phases
          /\ (cache[a].phase = "init" => task'[m].step = "state")
          /\ (cache[a].phase = "update_servers" => task'[m].identity = mem[m].client)
          /\ (cache[a].phase \in {"update_clients", "rollback", "standby"} => task'[m].step = "register")
    BY <1>4, SyncEffect
  <2>2. task'[m].rot.phase = cache[a].phase /\ cache[a].phase # "update_clients"
    BY <1>2, <2>1, OfAuthority
  <2>3. disk'[m] = disk[m] /\ mem'[m] = mem[m] /\ mem[m] # None
    BY <1>4, SyncEffect
  <2> QED BY <1>1, <2>1, <2>2, <2>3 DEF SoleMember, Phases
<1>5. CASE ReRegister(m)
  <2>1. PICK c \in Authority : task'[m].identity = Issued(c) /\ (c = ca \/ \E a \in Auths : c = cache[a])
    BY <1>3, <1>5, RegisterEffect
  <2>2. Sole(task'[m].identity)
    BY <1>2, <2>1, OfAuthority DEF Sole, Trusted
  <2>3. disk'[m] = disk[m] /\ mem'[m] = mem[m] /\ task[m] # None /\ task'[m].rot = task[m].rot
    BY <1>3, <1>5, RegisterEffect
  <2> QED BY <1>1, <2>2, <2>3 DEF SoleMember
<1>6. CASE ReRegisterFails(m) \/ WriteFails(m) \/ Crash(m)
  BY <1>1, <1>6, DropEffect DEF SoleMember
<1>7. CASE WriteIdentity(m)
  BY <1>1, <1>7, IdentityEffect DEF SoleMember
<1>8. CASE WriteState(m)
  BY <1>1, <1>8, StateEffect DEF SoleMember
<1>9. CASE Restart(m)
  BY <1>1, <1>9, RestartEffect DEF SoleMember
<1> QED BY <1>4, <1>5, <1>6, <1>7, <1>8, <1>9 DEF Rotating

\* The stored authority is itself one a cache may have in either stage.
LEMMA CacheOfStored ==
    ASSUME ca \in Authority, KeysByPhase(ca), NEW phases, ca.phase \in phases,
           ca.phase \in {"update_clients", "update_servers", "rollback"}
    PROVE  CacheOf(ca, phases)
BY DEF KeysByPhase, CacheOf, Old, New, Trusted

\* What an Auth Service has for itself is not older than what it asked for.
LEMMA OwnCache ==
    ASSUME RotationInv, TypeInv, OrderInv, NEW a \in Auths, task[a] # None, task[a].rot.id = cache[a].id
    PROVE  /\ task[a].rot.phase = "update_clients" => cache[a].phase # "init"
           /\ task[a].rot.phase = "rollback" => cache[a].phase \in {"rollback", "standby"}
<1>1. cache[a] \in Authority /\ task[a].rot \in Rotation
  BY Owned DEF TypeInv, TypeOK, Members
<1>2. Ord(task[a].rot) <= Ord(RotationOf(cache[a]))
  BY DEF OrderInv
<1>3. /\ Ord(task[a].rot) = 5 * cache[a].id + Rank[task[a].rot.phase]
      /\ Ord(RotationOf(cache[a])) = 5 * cache[a].id + Rank[cache[a].phase]
  BY DEF Ord, RotationOf
<1>4. cache[a].id \in Nat /\ cache[a].phase \in Phases /\ task[a].rot.phase \in Phases
  BY <1>1, MaxRotationsNat DEF Authority, Rotation, Keys
<1>5. Rank[task[a].rot.phase] \in 0..4 /\ Rank[cache[a].phase] \in 0..4
  BY <1>4 DEF Phases, Rank
<1>6. Rank[task[a].rot.phase] <= Rank[cache[a].phase]
  BY <1>2, <1>3, <1>4, <1>5
<1> QED BY <1>4, <1>6 DEF Phases, Rank

\* Certificates a process gets while caches are at some phases of a rotation
LEMMA RegisterCase ==
    ASSUME RotationInv, TypeInv, OrderInv, NEW m \in Members, ReRegister(m), NEW phases,
           ca.phase \in {"update_clients", "update_servers", "rollback"}, ca.phase \in phases,
           "standby" \notin phases, \A a \in Auths : CacheOf(cache[a], phases), task[m].rot.id = ca.id
    PROVE  \E c \in Authority :
              /\ CacheOf(c, phases)
              /\ task'[m].identity = Issued(c)
              /\ task[m].rot.phase = "update_clients" => c.phase # "init"
              /\ task[m].rot.phase = "rollback" => c.phase = "rollback"
<1>1. ca \in Authority /\ CacheOf(ca, phases) /\ RotationTypeOK /\ task[m] # None
  BY CacheOfStored DEF RotationInv, RotationTypeOK, ReRegister
<1>2. PICK c \in Authority :
            /\ task'[m].identity = Issued(c)
            /\ \/ c = ca /\ RotationOf(ca) = task[m].rot
               \/ \E a \in Auths : c = cache[a] /\ ((m \in Auths /\ a = m) \/ RotationOf(c) = task[m].rot)
  BY <1>1, RegisterEffect
<1>3. CacheOf(c, phases)
  BY <1>1, <1>2
<1>4. CASE RotationOf(c) = task[m].rot
  <2>1. c.phase = task[m].rot.phase
    BY <1>4, OfAuthority
  <2> QED BY <1>2, <1>3, <2>1
<1>5. CASE m \in Auths /\ c = cache[m]
  <2>1. task[m].rot.id = cache[m].id
    BY <1>3, <1>5 DEF CacheOf
  <2>2. /\ task[m].rot.phase = "update_clients" => c.phase # "init"
        /\ task[m].rot.phase = "rollback" => c.phase \in {"rollback", "standby"}
    BY <1>1, <1>5, <2>1, OwnCache
  <2>3. c.phase # "standby"
    BY <1>3 DEF CacheOf
  <2> QED BY <1>2, <1>3, <2>2, <2>3
<1> QED BY <1>2, <1>4, <1>5

\* New certificates of clients
LEMMA ClientsProcess ==
    ASSUME RotationInv, TypeInv, OrderInv, ClientsStage, ca.phase \in {"update_clients", "rollback"},
           NEW m \in Members, Rotating(m) \/ Crash(m) \/ Restart(m)
    PROVE  ClientsMember(disk'[m], mem'[m], task'[m])
<1>1. ClientsMember(disk[m], mem[m], task[m]) /\ OwnTyped(disk[m], mem[m], task[m])
  BY Owned DEF ClientsStage
<1>2. \A a \in Auths : cache[a] \in Authority /\ CacheOf(cache[a], ClientsPhases)
  BY DEF ClientsStage, TypeInv, TypeOK
<1>3. RotationTypeOK
  BY DEF RotationInv
<1>4. CASE SyncRotationState(m)
  <2>1. PICK a \in Auths : task'[m].rot = RotationOf(cache[a]) /\ cache[a].phase \in Phases
          /\ (cache[a].phase = "init" => task'[m].step = "state")
          /\ (cache[a].phase \in {"update_clients", "rollback", "standby"} => task'[m].step = "register")
    BY <1>4, SyncEffect
  <2>2. /\ task'[m].rot.phase = cache[a].phase /\ cache[a].phase \in ClientsPhases
        /\ task'[m].rot.id = ca.id
    BY <1>2, <2>1, OfAuthority DEF CacheOf
  <2>3. disk'[m] = disk[m] /\ mem'[m] = mem[m]
    BY <1>4, SyncEffect
  <2> QED BY <1>1, <2>1, <2>2, <2>3 DEF ClientsMember, ClientsPhases
<1>5. CASE ReRegister(m)
  <2>1. /\ disk'[m] = disk[m] /\ mem'[m] = mem[m] /\ task[m] # None /\ task'[m].rot = task[m].rot
        /\ task'[m].step = "identity"
    BY <1>3, <1>5, RegisterEffect
  <2>2. task[m].rot.id = ca.id
    BY <1>1, <2>1 DEF ClientsMember
  <2>3. PICK c \in Authority :
              /\ CacheOf(c, ClientsPhases)
              /\ task'[m].identity = Issued(c)
              /\ task[m].rot.phase = "update_clients" => c.phase # "init"
              /\ task[m].rot.phase = "rollback" => c.phase = "rollback"
    BY <1>2, <1>5, <2>2, RegisterCase DEF ClientsPhases
  <2>4. task'[m].identity.signed = c.active /\ task'[m].identity.trusts = Old \union New
    BY <2>3, OfAuthority DEF CacheOf
  <2>5. task[m].rot.phase = "rollback" => OldSigned(task'[m].identity)
    BY <2>3, <2>4 DEF CacheOf, OldSigned
  <2>6. task[m].rot.phase = "update_clients" => TrustsOld(task'[m].identity)
    BY <2>3, <2>4 DEF CacheOf, TrustsOld, ClientsPhases
  <2> QED BY <1>1, <2>1, <2>5, <2>6 DEF ClientsMember
<1>6. CASE ReRegisterFails(m) \/ WriteFails(m) \/ Crash(m)
  BY <1>1, <1>6, DropEffect DEF ClientsMember
<1>7. CASE WriteIdentity(m)
  BY <1>1, <1>7, IdentityEffect DEF ClientsMember, ClientsPhases, OwnTyped
<1>8. CASE WriteState(m)
  BY <1>1, <1>8, StateEffect DEF ClientsMember, ClientsPhases, OwnTyped, OldSigned, TrustsOld
<1>9. CASE Restart(m)
  BY <1>1, <1>9, RestartEffect, NoneIsNoIdentity DEF ClientsMember, OldSigned, TrustsOld
<1> QED BY <1>4, <1>5, <1>6, <1>7, <1>8, <1>9 DEF Rotating

\* New certificates of servers
LEMMA ServersProcess ==
    ASSUME RotationInv, TypeInv, OrderInv, ServersStage, ca.phase \in {"update_servers", "rollback"},
           NEW m \in Members, Rotating(m) \/ Crash(m) \/ Restart(m)
    PROVE  ServersMember(disk'[m], mem'[m], task'[m])
<1>1. ServersMember(disk[m], mem[m], task[m]) /\ OwnTyped(disk[m], mem[m], task[m])
  BY Owned DEF ServersStage
<1>2. \A a \in Auths : cache[a] \in Authority /\ CacheOf(cache[a], ServersPhases)
  BY DEF ServersStage, TypeInv, TypeOK
<1>3. RotationTypeOK
  BY DEF RotationInv
<1>4. CASE SyncRotationState(m)
  <2>1. PICK a \in Auths : task'[m].rot = RotationOf(cache[a]) /\ cache[a].phase \in Phases
          /\ (cache[a].phase = "update_servers" =>
                task'[m].step = "identity" /\ task'[m].identity = mem[m].client)
          /\ (cache[a].phase \in {"update_clients", "rollback", "standby"} => task'[m].step = "register")
    BY <1>4, SyncEffect
  <2>2. /\ task'[m].rot.phase = cache[a].phase /\ cache[a].phase \in ServersPhases
        /\ task'[m].rot.id = ca.id
    BY <1>2, <2>1, OfAuthority DEF CacheOf
  <2>3. disk'[m] = disk[m] /\ mem'[m] = mem[m] /\ mem[m] # None
    BY <1>4, SyncEffect
  <2> QED BY <1>1, <2>1, <2>2, <2>3 DEF ServersMember, ServersPhases
<1>5. CASE ReRegister(m)
  <2>1. /\ disk'[m] = disk[m] /\ mem'[m] = mem[m] /\ task[m] # None /\ task'[m].rot = task[m].rot
        /\ task'[m].step = "identity" /\ task[m].rot.phase # "update_servers"
    BY <1>3, <1>5, RegisterEffect
  <2>2. task[m].rot.id = ca.id
    BY <1>1, <2>1 DEF ServersMember
  <2>3. PICK c \in Authority :
              /\ CacheOf(c, ServersPhases)
              /\ task'[m].identity = Issued(c)
              /\ task[m].rot.phase = "rollback" => c.phase = "rollback"
    BY <1>2, <1>5, <2>2, RegisterCase DEF ServersPhases
  <2>4. task'[m].identity.signed = c.active /\ task'[m].identity.trusts = Old \union New
    BY <2>3, OfAuthority DEF CacheOf
  <2>5. task[m].rot.phase = "rollback" => task'[m].identity.signed = Old
    BY <2>3, <2>4 DEF CacheOf
  <2>6. TrustsBoth(task'[m].identity)
    BY <2>3, <2>4 DEF CacheOf, TrustsBoth, ServersPhases
  <2> QED BY <1>1, <2>1, <2>5, <2>6 DEF ServersMember
<1>6. CASE ReRegisterFails(m) \/ WriteFails(m) \/ Crash(m)
  BY <1>1, <1>6, DropEffect DEF ServersMember
<1>7. CASE WriteIdentity(m)
  BY <1>1, <1>7, IdentityEffect DEF ServersMember, ServersPhases, OwnTyped, TrustsBoth
<1>8. CASE WriteState(m)
  BY <1>1, <1>8, StateEffect DEF ServersMember, ServersPhases, OwnTyped, OldSigned, TrustsBoth
<1>9. CASE Restart(m)
  BY <1>1, <1>9, RestartEffect, NoneIsNoIdentity DEF ServersMember, ServersPhases, OldSigned, TrustsBoth
<1> QED BY <1>4, <1>5, <1>6, <1>7, <1>8, <1>9 DEF Rotating

\* What holds of the state after a step and the authority before it holds after
\* it, unless the step changes the authority.
LEMMA SameAuthority ==
    ASSUME ca' = ca
    PROVE  /\ /\ \A a \in Auths : cache'[a].active = ca.active /\ cache'[a].phase # "update_clients"
              /\ \A m \in Members : SoleMember(disk'[m], mem'[m], task'[m])
              => SoleStage'
           /\ /\ \A a \in Auths : CacheOf(cache'[a], ClientsPhases)
              /\ \A m \in Members : ClientsMember(disk'[m], mem'[m], task'[m])
              => ClientsStage'
           /\ /\ \A a \in Auths : CacheOf(cache'[a], ServersPhases)
              /\ \A m \in Members : ServersMember(disk'[m], mem'[m], task'[m])
              => ServersStage'
<1>1. Old' = Old /\ New' = New
  BY DEF Old, New
<1>2. ASSUME \A a \in Auths : cache'[a].active = ca.active /\ cache'[a].phase # "update_clients",
             \A m \in Members : SoleMember(disk'[m], mem'[m], task'[m])
      PROVE  SoleStage'
  BY <1>2 DEF SoleStage, SoleMember, Sole
<1>3. ASSUME \A a \in Auths : CacheOf(cache'[a], ClientsPhases),
             \A m \in Members : ClientsMember(disk'[m], mem'[m], task'[m])
      PROVE  ClientsStage'
  <2>1. \A a \in Auths : CacheOf(cache[a], ClientsPhases)'
    BY <1>1, <1>3 DEF CacheOf, ClientsPhases
  <2>2. ASSUME NEW m \in Members PROVE ClientsMember(disk[m], mem[m], task[m])'
    <3>1. ClientsMember(disk'[m], mem'[m], task'[m])
      BY <1>3
    <3> QED BY <1>1, <3>1 DEF ClientsMember, ClientsPhases, OldSigned, TrustsOld
  <2> QED BY <2>1, <2>2 DEF ClientsStage
<1>4. ASSUME \A a \in Auths : CacheOf(cache'[a], ServersPhases),
             \A m \in Members : ServersMember(disk'[m], mem'[m], task'[m])
      PROVE  ServersStage'
  <2>1. \A a \in Auths : CacheOf(cache[a], ServersPhases)'
    BY <1>1, <1>4 DEF CacheOf, ServersPhases
  <2>2. ASSUME NEW m \in Members PROVE ServersMember(disk[m], mem[m], task[m])'
    <3>1. ServersMember(disk'[m], mem'[m], task'[m])
      BY <1>4
    <3> QED BY <1>1, <3>1 DEF ServersMember, ServersPhases, OldSigned, TrustsBoth
  <2> QED BY <2>1, <2>2 DEF ServersStage
<1> QED BY <1>2, <1>3, <1>4

\* Steps of processes and of caches
LEMMA ProcessKeeps ==
    ASSUME RotationInv, TypeInv, OrderInv, TrustInv, ca' = ca, forced' = forced,
           \/ \E m \in Members : Rotating(m) \/ Crash(m) \/ Restart(m)
           \/ \E a \in Auths : Refresh(a)
    PROVE  TrustInv'
<1>1. ca \in Authority /\ KeysByPhase(ca)
  BY DEF RotationInv, RotationTypeOK
<1>2. \A a \in Auths : cache'[a] \in {cache[a], ca}
  <2>1. ASSUME NEW a \in Auths, Refresh(a) PROVE \A b \in Auths : cache'[b] \in {cache[b], ca}
    BY <2>1 DEF Refresh, TypeInv, TypeOK
  <2>2. ASSUME NEW m \in Members, Rotating(m) \/ Crash(m) \/ Restart(m)
        PROVE  \A b \in Auths : cache'[b] \in {cache[b], ca}
    BY <2>2, MemberStep
  <2> QED BY <2>1, <2>2
<1>3. CASE \E a \in Auths : Refresh(a)
  <2>1. UNCHANGED <<disk, mem, task>>
    BY <1>3 DEF Refresh
  <2>2. ASSUME SoleStage, ca.phase # "update_clients" PROVE SoleStage'
    BY <1>2, <2>1, <2>2, SameAuthority DEF SoleStage
  <2>3. ASSUME ClientsStage, ca.phase \in {"update_clients", "rollback"} PROVE ClientsStage'
    <3>1. CacheOf(ca, ClientsPhases)
      BY <1>1, <2>3, CacheOfStored DEF ClientsPhases
    <3>2. \A a \in Auths : CacheOf(cache'[a], ClientsPhases)
      BY <1>2, <2>3, <3>1 DEF ClientsStage
    <3>3. \A m \in Members : ClientsMember(disk'[m], mem'[m], task'[m])
      BY <2>1, <2>3 DEF ClientsStage
    <3> QED BY <3>2, <3>3, SameAuthority
  <2>4. ASSUME ServersStage, ca.phase \in {"update_servers", "rollback"} PROVE ServersStage'
    <3>1. CacheOf(ca, ServersPhases)
      BY <1>1, <2>4, CacheOfStored DEF ServersPhases
    <3>2. \A a \in Auths : CacheOf(cache'[a], ServersPhases)
      BY <1>2, <2>4, <3>1 DEF ServersStage
    <3>3. \A m \in Members : ServersMember(disk'[m], mem'[m], task'[m])
      BY <2>1, <2>4 DEF ServersStage
    <3> QED BY <3>2, <3>3, SameAuthority
  <2> QED BY <2>2, <2>3, <2>4 DEF TrustInv
<1>4. ASSUME NEW m \in Members, Rotating(m) \/ Crash(m) \/ Restart(m) PROVE TrustInv'
  <2>1. \A k \in Members \ {m} : disk'[k] = disk[k] /\ mem'[k] = mem[k] /\ task'[k] = task[k]
    BY <1>4, MemberStep
  <2>2. ASSUME SoleStage, ca.phase # "update_clients" PROVE SoleStage'
    <3>1. \A k \in Members : SoleMember(disk'[k], mem'[k], task'[k])
      BY <1>4, <2>1, <2>2, SoleProcess DEF SoleStage
    <3>2. \A a \in Auths : cache'[a].active = ca.active /\ cache'[a].phase # "update_clients"
      BY <1>2, <2>2 DEF SoleStage
    <3> QED BY <3>1, <3>2, SameAuthority
  <2>3. ASSUME ClientsStage, ca.phase \in {"update_clients", "rollback"} PROVE ClientsStage'
    <3>1. CacheOf(ca, ClientsPhases)
      BY <1>1, <2>3, CacheOfStored DEF ClientsPhases
    <3>2. \A a \in Auths : CacheOf(cache'[a], ClientsPhases)
      BY <1>2, <2>3, <3>1 DEF ClientsStage
    <3>3. \A k \in Members : ClientsMember(disk'[k], mem'[k], task'[k])
      BY <1>4, <2>1, <2>3, ClientsProcess DEF ClientsStage
    <3> QED BY <3>2, <3>3, SameAuthority
  <2>4. ASSUME ServersStage, ca.phase \in {"update_servers", "rollback"} PROVE ServersStage'
    <3>1. CacheOf(ca, ServersPhases)
      BY <1>1, <2>4, CacheOfStored DEF ServersPhases
    <3>2. \A a \in Auths : CacheOf(cache'[a], ServersPhases)
      BY <1>2, <2>4, <3>1 DEF ServersStage
    <3>3. \A k \in Members : ServersMember(disk'[k], mem'[k], task'[k])
      BY <1>4, <2>1, <2>4, ServersProcess DEF ServersStage
    <3> QED BY <3>2, <3>3, SameAuthority
  <2> QED BY <2>2, <2>3, <2>4 DEF TrustInv
<1> QED BY <1>3, <1>4

-------------------------------------------------------------------------------
(* From phase to phase *)

\* An update of the authority: what processes hold fits the next phase, which
\* is a rollback unless they all have settled in this one.
LEMMA CommitKeeps ==
    ASSUME RotationInv, TypeInv, OrderInv, PaceInv, TrustInv, NEW c \in Callers, Commit(c)
    PROVE  TrustInv'
<1>1. /\ ca \in Authority /\ ca' \in Authority /\ StepOf(ca, ca')
      /\ Care = "settled" /\ ca'.phase # "rollback" => Settled
      /\ KeysByPhase(ca) /\ KeysByPhase(ca')
      /\ UNCHANGED <<cache, disk, mem, task>> /\ forced' = (forced \/ ForcedStep)
  BY CommitEffect
<1> SUFFICES ASSUME Care = "settled", ~forced, ~ForcedStep PROVE TrustInv'
  BY <1>1 DEF TrustInv
<1>2. ca.id \in Nat
  BY <1>1, MaxRotationsNat DEF Authority, Keys
<1>3. ASSUME Settled
      PROVE  /\ \A a \in Auths : cache[a] = ca
             /\ \A m \in Members : disk[m].rot.phase = ca.phase /\ task[m] = None
  <2>1. \A m \in Members : disk[m].rot.phase = ca.phase /\ task[m] = None
    BY <1>1, <1>3, OfAuthority DEF Settled, Reported, InSync
  <2> QED BY <1>3, <2>1, SettledCaches
<1>4. CASE ca.phase = "standby" /\ ca'.phase = "init" /\ ca'.active = ca.active
  <2>1. SoleStage
    BY <1>4 DEF TrustInv
  <2>2. SoleStage'
    BY <1>1, <1>4, <2>1 DEF SoleStage, SoleMember, Sole
  <2> QED BY <1>4, <2>2 DEF TrustInv
<1>5. CASE /\ ca.phase = "init" /\ ca'.phase = "rollback"
           /\ ca'.active = ca.active
  <2>1. SoleStage
    BY <1>5 DEF TrustInv
  <2>2. SoleStage'
    BY <1>1, <1>5, <2>1 DEF SoleStage, SoleMember, Sole
  <2> QED BY <1>5, <2>2 DEF TrustInv
<1>6. CASE /\ ca.phase = "init" /\ ca'.phase = "update_clients" /\ ca'.id = ca.id
           /\ ca'.active = ca.additional /\ ca'.additional = ca.active
  <2>1. SoleStage /\ Settled
    BY <1>1, <1>6 DEF TrustInv
  <2>2. Old' = ca.active /\ New' = {ca.id} /\ ca.additional = {ca.id}
    BY <1>1, <1>6 DEF Old, New, KeysByPhase
  <2>3. \A a \in Auths : CacheOf(cache[a], ClientsPhases)'
    BY <1>1, <1>3, <1>6, <2>1, <2>2 DEF CacheOf, ClientsPhases, Trusted
  <2>4. \A m \in Members : ClientsMember(disk[m], mem[m], task[m])'
    BY <1>1, <1>3, <1>6, <2>1, <2>2 DEF SoleStage, SoleMember, Sole, ClientsMember, OldSigned, ClientsPhases
  <2> QED BY <1>6, <2>3, <2>4 DEF TrustInv, ClientsStage
<1>7. CASE /\ ca.phase = "update_clients" /\ ca'.phase = "update_servers" /\ ca'.id = ca.id
           /\ ca'.active = ca.active /\ ca'.additional = ca.additional
  <2>1. ClientsStage /\ Settled
    BY <1>1, <1>7 DEF TrustInv
  <2>2. Old' = Old /\ New' = New
    BY <1>7 DEF Old, New
  <2>3. \A a \in Auths : CacheOf(cache[a], ServersPhases)'
    BY <1>1, <1>3, <1>7, <2>1, <2>2 DEF ClientsStage, CacheOf, ServersPhases
  <2>4. \A m \in Members : ServersMember(disk[m], mem[m], task[m])'
    BY <1>1, <1>3, <1>7, <2>1, <2>2
       DEF ClientsStage, ClientsMember, OldSigned, TrustsOld, ServersMember, TrustsBoth, ServersPhases
  <2> QED BY <1>7, <2>3, <2>4 DEF TrustInv, ServersStage
<1>8. CASE /\ ca.phase = "update_clients" /\ ca'.phase = "rollback" /\ ca'.id = ca.id
           /\ ca'.active = ca.additional
  <2>1. ClientsStage
    BY <1>8 DEF TrustInv
  <2>2. Old' = Old /\ New' = New
    BY <1>8 DEF Old, New
  <2>3. \A a \in Auths : CacheOf(cache[a], ClientsPhases)'
    BY <1>1, <1>8, <2>1, <2>2 DEF ClientsStage, CacheOf
  <2>4. \A m \in Members : ClientsMember(disk[m], mem[m], task[m])'
    BY <1>1, <1>8, <2>1, <2>2 DEF ClientsStage, ClientsMember, OldSigned, TrustsOld
  <2> QED BY <1>8, <2>3, <2>4 DEF TrustInv, ClientsStage
<1>9. CASE /\ ca.phase = "update_servers" /\ ca'.phase = "rollback" /\ ca'.id = ca.id
           /\ ca'.active = ca.additional
  <2>1. ServersStage
    BY <1>9 DEF TrustInv
  <2>2. Old' = Old /\ New' = New
    BY <1>9 DEF Old, New
  <2>3. \A a \in Auths : CacheOf(cache[a], ServersPhases)'
    BY <1>1, <1>9, <2>1, <2>2 DEF ServersStage, CacheOf
  <2>4. \A m \in Members : ServersMember(disk[m], mem[m], task[m])'
    BY <1>1, <1>9, <2>1, <2>2 DEF ServersStage, ServersMember, OldSigned, TrustsBoth
  <2> QED BY <1>9, <2>3, <2>4 DEF TrustInv, ServersStage
<1>10. CASE /\ ca.phase \in {"update_servers", "rollback"} /\ ca'.phase = "standby"
            /\ ca'.active = ca.active
  <2>1. Settled
    BY <1>1, <1>10
  <2>2. \A m \in Members : Sole(disk[m].current) /\ (mem[m] # None => Sole(mem[m].client) /\ Sole(mem[m].server))
    <3>1. CASE SoleStage
      BY <3>1 DEF SoleStage, SoleMember
    <3>2. CASE ClientsStage /\ ca.phase = "rollback"
      BY <1>3, <1>10, <2>1, <3>2 DEF ClientsStage, ClientsMember, OldSigned, Old, Sole
    <3>3. CASE ServersStage /\ ca.phase = "rollback"
      BY <1>3, <1>10, <2>1, <3>3 DEF ServersStage, ServersMember, OldSigned, TrustsBoth, Old, Sole
    <3>4. CASE ServersStage /\ ca.phase = "update_servers"
      <4>1. ca.active = New
        BY <1>1, <3>4 DEF KeysByPhase, New
      <4> QED BY <1>3, <1>10, <2>1, <3>4, <4>1 DEF ServersStage, ServersMember, TrustsBoth, Sole
    <3> QED BY <1>10, <3>1, <3>2, <3>3, <3>4 DEF TrustInv
  <2>3. SoleStage'
    BY <1>1, <1>3, <1>10, <2>1, <2>2 DEF SoleStage, SoleMember, Sole
  <2> QED BY <1>10, <2>3 DEF TrustInv
<1>11. ~(ca'.id = ca.id + 1 /\ ca'.phase = "standby")
  BY <1>2 DEF ForcedStep
<1> QED BY <1>1, <1>4, <1>5, <1>6, <1>7, <1>8, <1>9, <1>10, <1>11 DEF StepOf

\* Every step of the cluster
LEMMA TrustStep == RotationInv /\ TypeInv /\ OrderInv /\ PaceInv /\ TrustInv /\ [Next]_vars => TrustInv'
<1> SUFFICES ASSUME RotationInv, TypeInv, OrderInv, PaceInv, TrustInv, [Next]_vars PROVE TrustInv'
  OBVIOUS
<1>1. CASE UNCHANGED <<ca, cache, disk, mem, task, forced>>
  <2>1. /\ SoleStage => SoleStage'
        /\ ClientsStage => ClientsStage'
        /\ ServersStage => ServersStage'
    BY <1>1, SameAuthority DEF SoleStage, ClientsStage, ServersStage
  <2> QED BY <1>1, <2>1 DEF TrustInv
<1>2. CASE UNCHANGED vars
  BY <1>1, <1>2 DEF vars, rotationVars, processVars
<1>3. ASSUME NEW c \in Callers, Request(c) \/ RotateBySchedule(c) \/ CommitFails(c)
      PROVE  TrustInv'
  BY <1>1, <1>3 DEF processVars, Request, RotateBySchedule, CommitFails, RotateCertAuthority,
                    AutoRotate, Begin, UpdateFails
<1>4. ASSUME NEW c \in Callers, Commit(c) PROVE TrustInv'
  BY <1>4, CommitKeeps
<1>5. ASSUME NEW m \in Members, Rotating(m) \/ Crash(m) \/ Restart(m) PROVE TrustInv'
  BY <1>5, MemberStep, ProcessKeeps DEF rotationVars
<1>6. ASSUME NEW a \in Auths, Refresh(a) PROVE TrustInv'
  BY <1>6, ProcessKeeps DEF Refresh, rotationVars
<1> QED BY <1>2, <1>3, <1>4, <1>5, <1>6 DEF Next

LEMMA ClusterInit == Init => RotationInv /\ TypeInv /\ OrderInv /\ PaceInv /\ TrustInv
<1> SUFFICES ASSUME Init PROVE RotationInv /\ TypeInv /\ OrderInv /\ PaceInv /\ TrustInv
  OBVIOUS
<1>1. RotationInv /\ TypeInv
  BY InvInit, TypeInit DEF Init
<1>2. ca \in Authority /\ ca.phase = "standby" /\ (\A c \in Callers : job[c] = None)
  BY <1>1 DEF Init, RotationInit, RotationInv, RotationTypeOK
<1>3. Ord(RotationOf(ca)) \in Nat
  BY <1>2, OfAuthority, OrdNat
<1>4. OrderInv
  BY <1>3 DEF Init, OrderInv, Members
<1>5. PaceInv
  BY <1>2 DEF PaceInv
<1>6. RotationOf(ca).phase = "standby" /\ Sole(Issued(ca))
  BY <1>2, OfAuthority DEF Sole, Trusted
<1>7. SoleStage
  BY <1>2, <1>6 DEF Init, SoleStage, SoleMember
<1> QED BY <1>1, <1>2, <1>4, <1>5, <1>7 DEF TrustInv

\* In a cluster of any size and over any number of rotations and rollbacks that are
\* not forced, every running agent and every running Auth Service accept each
\* other's certificates, wherever caches lag, writes fail and processes stop and
\* start again (lib/auth/rotate.go, lib/service/connect.go): provided that each
\* phase but a rollback is requested of a settled cluster (Care = "settled"), which
\* is more than that every process reports the phase.
THEOREM NobodyLockedOut == Spec => []NoLockout
<1>1. RotationInv /\ TrustInv => NoLockout
  <2> SUFFICES ASSUME RotationInv, TrustInv, Care = "settled", ~forced,
                      NEW m \in Agents, NEW a \in Auths, Up(m), Up(a)
               PROVE  MutualTrust(m, a)
    BY DEF NoLockout, Connected
  <2>1. m \in Members /\ a \in Members /\ mem[m] # None /\ mem[a] # None
    BY DEF Members, Up
  <2>2. CASE SoleStage
    BY <2>1, <2>2 DEF SoleStage, SoleMember, Sole, MutualTrust, Trusted
  <2>3. CASE ClientsStage
    BY <2>1, <2>3 DEF ClientsStage, ClientsMember, OldSigned, CacheOf, MutualTrust
  <2>4. CASE ServersStage
    BY <2>1, <2>4 DEF ServersStage, ServersMember, TrustsBoth, CacheOf, MutualTrust
  <2>5. ca.phase \in Phases
    BY DEF RotationInv, RotationTypeOK, Authority
  <2> QED BY <2>2, <2>3, <2>4, <2>5 DEF TrustInv, Phases
<1> QED BY <1>1, ClusterInit, ClusterStep, InvNext, TypeStep, OrderStep, PaceStep, TrustStep, PTL DEF Spec
===============================================================================
