----------------------------- MODULE AgentRotation -----------------------------
(***************************************************************************)
(* A rotation of the host CA as the processes of a cluster go through it   *)
(* (lib/service/connect.go): Auth Services, each with its cache and its    *)
(* own credentials, and agents. A process compares its stored rotation     *)
(* with that of the cluster, gets a new identity where the phase asks for  *)
(* one, writes the identity, then the state, then uses it. It may stop, or *)
(* fail, between any two steps.                                            *)
(*                                                                         *)
(* Nothing in the code makes a request or the schedule wait for the        *)
(* processes. What they wait for is a constant.                            *)
(*                                                                         *)
(* An identity is the keys that signed it and the keys it trusts.          *)
(***************************************************************************)
EXTENDS CARotation

CONSTANTS
    Auths, Agents,
    Care,           \* what requests for another phase wait for
    MaxCrashes      \* bound: processes that stop

ASSUME MaxCrashesNat == MaxCrashes \in Nat
ASSUME CareKind == Care \in {"none", "reported", "settled"}
ASSUME AuthsAreNoAgents == Auths \intersect Agents = {}

VARIABLES
    cache,      \* the authority in the cache of each Auth Service
    disk,       \* stored rotation, current and replacement identity
    mem,        \* identities in use for clients and servers; None when stopped
    task,       \* how far a process is with its rotation, or None
    crashes,
    forced      \* history: a forced rotation has happened

processVars == <<cache, disk, mem, task, crashes, forced>>

vars == <<rotationVars, processVars>>

Members == Auths \union Agents

Identity == [signed : SUBSET Keys, trusts : SUBSET Keys]

Rotation == [id : Keys, phase : Phases]

ASSUME NoneIsNoIdentity == None \notin Identity

RotationOf(c) == [id |-> c.id, phase |-> c.phase]

\* The certificates GenerateHostCerts issues, with GetTLSCerts
Issued(c) == [signed |-> c.active, trusts |-> Trusted(c)]

Init ==
    /\ RotationInit
    /\ cache = [a \in Auths |-> ca]
    /\ disk = [m \in Members |->
        [rot |-> RotationOf(ca), current |-> Issued(ca), replacement |-> None]]
    /\ mem = [m \in Members |-> [client |-> Issued(ca), server |-> Issued(ca)]]
    /\ task = [m \in Members |-> None]
    /\ crashes = 0
    /\ forced = FALSE

-------------------------------------------------------------------------------
(* Connecting *)

Up(m) == mem[m] # None

\* Both sides of the TLS connection of m to a accept the certificate of the other.
MutualTrust(m, a) ==
    /\ mem[m].client.signed \subseteq Trusted(cache[a])
    /\ mem[a].server.signed \subseteq mem[m].client.trusts

\* The Auth Services m can call: an Auth Service only needs itself.
Reachable(m) ==
    IF m \in Auths THEN {m} ELSE {a \in Auths : Up(a) /\ MutualTrust(m, a)}

Connect_Current(d) == [client |-> d.current, server |-> d.current]

\* connect: the identities a process starts with
Connect(d) ==
    IF d.rot.phase = "update_clients" /\ d.replacement # None
    THEN [client |-> d.replacement, server |-> d.current]
    ELSE [client |-> d.current, server |-> d.current]

-------------------------------------------------------------------------------
(* rotate *)

Allowed_RollbackOnly(local, remote) ==
    CASE remote.phase = "standby" -> local.phase = "rollback"
      [] remote.phase = "init" -> local.phase = "standby"
      [] remote.phase = "update_clients" -> local.phase = "init" \/ local.id = remote.id
      [] remote.phase = "update_servers" -> local.phase = "update_clients" \/ local.id = remote.id
      [] remote.phase = "rollback" -> TRUE

\* The local states from which a process goes along
Allowed(local, remote) ==
    CASE remote.phase = "standby" ->
            local.phase # "standby" /\ (local.phase = "rollback" \/ local.id = remote.id)
      [] remote.phase = "init" -> local.phase = "standby"
      [] remote.phase = "update_clients" -> local.phase = "init" \/ local.id = remote.id
      [] remote.phase = "update_servers" -> local.phase = "update_clients" \/ local.id = remote.id
      [] remote.phase = "rollback" -> TRUE

Plan_Unregistered(m, remote) ==
    IF remote.phase = "init" THEN [step |-> "state", rot |-> remote, identity |-> None]
    ELSE [step |-> "identity", rot |-> remote,
          identity |-> IF remote.phase = "update_servers" THEN mem[m].client ELSE None]

\* What a process does next: only new phases of clients and of the old keys
\* need new certificates, and init not even an identity.
Plan(m, remote) ==
    CASE remote.phase = "init" -> [step |-> "state", rot |-> remote, identity |-> None]
      [] remote.phase = "update_servers" ->
            [step |-> "identity", rot |-> remote, identity |-> mem[m].client]
      [] OTHER -> [step |-> "register", rot |-> remote, identity |-> None]

\* syncRotationState, with the authority an Auth Service has in its cache
SyncRotationState(m) ==
    /\ Up(m)
    /\ task[m] = None
    /\ \E a \in Reachable(m) :
        LET remote == RotationOf(cache[a])
        IN  /\ disk[m].rot # remote
            /\ Allowed(disk[m].rot, remote)
            /\ task' = [task EXCEPT ![m] = Plan(m, remote)]
    /\ UNCHANGED <<rotationVars, cache, disk, mem, crashes, forced>>

\* GenerateHostCerts: from the cache, or from the backend when the cache does
\* not match the rotation of the request; an Auth Service sends none for itself.
Certs(m, a) ==
    {Issued(c) : c \in
        IF m \in Auths \/ RotationOf(cache[a]) = task[m].rot THEN {cache[a]}
        ELSE {c \in {ca} : RotationOf(c) = task[m].rot}}

\* reRegister
ReRegister(m) ==
    /\ task[m] # None
    /\ task[m].step = "register"
    /\ \E a \in Reachable(m) : \E i \in Certs(m, a) :
        task' = [task EXCEPT ![m] = [@ EXCEPT !.step = "identity", !.identity = i]]
    /\ UNCHANGED <<rotationVars, cache, disk, mem, crashes, forced>>

\* "the client expected state is out of sync", or any other error
ReRegisterFails(m) ==
    /\ task[m] # None
    /\ task[m].step = "register"
    /\ task' = [task EXCEPT ![m] = None]
    /\ UNCHANGED <<rotationVars, cache, disk, mem, crashes, forced>>

\* WriteIdentity
WriteIdentity(m) ==
    /\ task[m] # None
    /\ task[m].step = "identity"
    /\ disk' = [disk EXCEPT ![m] =
            IF task[m].rot.phase = "update_clients"
            THEN [@ EXCEPT !.replacement = task[m].identity]
            ELSE [@ EXCEPT !.current = task[m].identity]]
    /\ task' = [task EXCEPT ![m].step = "state"]
    /\ UNCHANGED <<rotationVars, cache, mem, crashes, forced>>

\* The identities in use once the state is written
Stored(m) ==
    LET t == task[m]
    IN  CASE t.rot.phase = "init" -> mem[m]
          [] t.rot.phase = "update_clients" -> [mem[m] EXCEPT !.client = t.identity]
          [] t.rot.phase = "update_servers" -> [mem[m] EXCEPT !.server = t.identity]
          [] OTHER -> [client |-> t.identity, server |-> t.identity]

\* WriteState, and the new identities are in use
WriteState(m) ==
    /\ task[m] # None
    /\ task[m].step = "state"
    /\ disk' = [disk EXCEPT ![m].rot = task[m].rot]
    /\ mem' = [mem EXCEPT ![m] = Stored(m)]
    /\ task' = [task EXCEPT ![m] = None]
    /\ UNCHANGED <<rotationVars, cache, crashes, forced>>

\* WriteIdentity or WriteState fails and has written nothing; the process goes on
\* with the identities it uses.
WriteFails(m) ==
    /\ task[m] # None
    /\ task[m].step \in {"identity", "state"}
    /\ task' = [task EXCEPT ![m] = None]
    /\ UNCHANGED <<rotationVars, cache, disk, mem, crashes, forced>>

-------------------------------------------------------------------------------
(* Caches, processes that stop, and the administrator *)

Refresh(a) ==
    /\ cache[a] # ca
    /\ cache' = [cache EXCEPT ![a] = ca]
    /\ UNCHANGED <<rotationVars, disk, mem, task, crashes, forced>>

Crash(m) ==
    /\ Up(m)
    /\ crashes < MaxCrashes
    /\ crashes' = crashes + 1
    /\ mem' = [mem EXCEPT ![m] = None]
    /\ task' = [task EXCEPT ![m] = None]
    /\ UNCHANGED <<rotationVars, cache, disk, forced>>

\* An Auth Service fills its cache before it serves.
Restart(m) ==
    /\ ~Up(m)
    /\ mem' = [mem EXCEPT ![m] = Connect(disk[m])]
    /\ cache' = IF m \in Auths THEN [cache EXCEPT ![m] = ca] ELSE cache
    /\ UNCHANGED <<rotationVars, disk, task, crashes, forced>>

InSync(m) == disk[m].rot = RotationOf(ca)

\* Every process reports the phase of the cluster: what an administrator can see.
Reported == \A m \in Members : InSync(m)

\* None is about to leave it either. This follows when all have reported the phase
\* for longer than a process takes to go to another one.
Settled == Reported /\ \A m \in Members : task[m] = None

\* What a request for target has waited for. Nobody waits for a rollback.
Awaited(target) ==
    \/ target = "rollback"
    \/ Care = "none"
    \/ Care = "reported" /\ Reported
    \/ Care = "settled" /\ Settled

\* The administrator
Request(c) ==
    /\ \E target \in Phases : Awaited(target) /\ RotateCertAuthority(c, target)
    /\ UNCHANGED processVars

\* The periodic loop looks at the clock alone, so the schedule has to leave the
\* time that is waited for.
RotateBySchedule(c) ==
    /\ AutoRotate(c)
    /\ Awaited(Scheduled[ca.phase])
    /\ UNCHANGED processVars

Commit(c) ==
    /\ UpdateCertAuthority(c)
    /\ forced' = (forced \/ ForcedStep)
    /\ UNCHANGED <<cache, disk, mem, task, crashes>>

CommitFails(c) == UpdateFails(c) /\ UNCHANGED processVars

-------------------------------------------------------------------------------

Rotating(m) ==
    SyncRotationState(m) \/ ReRegister(m) \/ ReRegisterFails(m)
        \/ WriteIdentity(m) \/ WriteState(m) \/ WriteFails(m)

Next ==
    \/ \E c \in Callers : Request(c) \/ RotateBySchedule(c) \/ Commit(c) \/ CommitFails(c)
    \/ \E m \in Members : Rotating(m) \/ Crash(m) \/ Restart(m)
    \/ \E a \in Auths : Refresh(a)

Spec == Init /\ [][Next]_vars

\* Caches follow the backend, processes are started again, and the loop of
\* periodicSyncRotationState goes on; a registration and a write that can be tried
\* again and again succeed in the end.
Fairness ==
    /\ \A a \in Auths : WF_vars(Refresh(a))
    /\ \A m \in Members :
        /\ WF_vars(Restart(m))
        /\ WF_vars(Rotating(m))
        /\ SF_vars(ReRegister(m))
        /\ SF_vars(WriteIdentity(m))
        /\ SF_vars(WriteState(m))

FairSpec == Spec /\ Fairness

-------------------------------------------------------------------------------

TypeOK ==
    /\ RotationTypeOK
    /\ cache \in [Auths -> Authority]
    /\ disk \in [Members -> [rot : Rotation, current : Identity,
                             replacement : Identity \union {None}]]
    /\ mem \in [Members -> [client : Identity, server : Identity] \union {None}]
    /\ task \in [Members -> [step : {"register", "identity", "state"}, rot : Rotation,
                             identity : Identity \union {None}] \union {None}]
    /\ crashes \in 0..MaxCrashes
    /\ forced \in BOOLEAN

\* A running agent and a running Auth Service accept each other's certificates.
Connected == \A m \in Agents, a \in Auths : Up(m) /\ Up(a) => MutualTrust(m, a)

\* If each phase but a rollback is requested of a settled cluster, and no rotation is
\* forced, agents and Auth Services accept each other in every phase: whatever
\* caches have missed, whenever a rotation is rolled back, and wherever processes
\* stopped, failed to write and started again.
NoLockout == Care = "settled" /\ ~forced => Connected

\* "Make sure all Agents and Proxy Service instances have completed the transition
\* to target phase before proceeding to the next phase" (ca-rotation.mdx), which is
\* to look at the phases they report: then nobody loses the connection.
ReportedPhasesSuffice == Care # "none" /\ ~forced => Connected

\* The phase of the cluster follows on what a process has stored: it missed phases,
\* but not a rotation.
Follows(m) ==
    \/ disk[m].rot.id = ca.id
    \/ disk[m].rot.phase = "standby" /\ ca.phase = "init"
    \/ ca.phase = "rollback"

\* Every process that has not missed a rotation, and can reach an Auth Service when
\* it is up, comes to the phase of the cluster again and again: no crash or failure
\* between the writes of a rotation leaves one behind, and no phase it has missed.
CatchUp ==
    \A m \in Members : []<>(
        InSync(m) \/ ~Follows(m) \/ (Up(m) /\ Reachable(m) = {}))

===============================================================================
