------------------------------ MODULE CARotation ------------------------------
(***************************************************************************)
(* The rotation of a certificate authority (lib/auth/rotate.go): its       *)
(* phases, and the requests of administrators and of the periodic loop of  *)
(* every Auth Service, which read the stored authority, compute the next   *)
(* one and store it under the revision they have read.                     *)
(*                                                                         *)
(* Keys are software keys. A key set is known by the rotation that made    *)
(* it, 0 being the one before all; rotations are numbered as they are      *)
(* stored. The state of a rotation is "standby" in the phase of that name  *)
(* and "in_progress" in all others.                                        *)
(***************************************************************************)
EXTENDS Integers

CONSTANTS
    Callers,        \* calls that rotate, on any Auth Service
    RequestModes,   \* modes that administrators ask for
    MaxRotations,   \* bound: rotations started
    None

ASSUME MaxRotationsNat == MaxRotations \in Nat
ASSUME RequestModesKnown == RequestModes \subseteq {"manual", "auto"}

VARIABLES
    ca,         \* the stored authority
    job         \* what a call is about to store, or None

rotationVars == <<ca, job>>

Phases == {"standby", "init", "update_clients", "update_servers", "rollback"}

Modes == {"unset", "manual", "auto"}

Keys == 0..MaxRotations

Authority ==
    [rev : Nat, id : Keys, phase : Phases, mode : Modes,
     active : SUBSET Keys, additional : SUBSET Keys]

ASSUME NoneIsNoAuthority == None \notin Authority

-------------------------------------------------------------------------------
(* The next authority *)

\* GetTrustedTLSKeyPairs
Trusted(c) == c.active \union c.additional

\* A forced rotation (no grace period) is over when it has begun.
StartNewRotation(c, mode, force) ==
    IF force
    THEN [c EXCEPT !.id = @ + 1, !.mode = mode, !.active = {c.id + 1}]
    ELSE [c EXCEPT !.id = @ + 1, !.mode = mode, !.phase = "init", !.additional = {c.id + 1}]

Swapped(c) == [c EXCEPT !.active = c.additional, !.additional = c.active]

UpdateClients(c, mode) == [Swapped(c) EXCEPT !.phase = "update_clients", !.mode = mode]

UpdateServers(c, mode) == [c EXCEPT !.phase = "update_servers", !.mode = mode]

StartRollingBackRotation_AlwaysSwap(c) ==
    [Swapped(c) EXCEPT !.phase = "rollback", !.mode = "manual"]

\* In the init phase the keys have not been swapped yet.
StartRollingBackRotation(c) ==
    [(IF c.phase = "init" THEN c ELSE Swapped(c)) EXCEPT !.phase = "rollback", !.mode = "manual"]

CompleteRotation(c) == [c EXCEPT !.phase = "standby", !.mode = "unset", !.additional = {}]

\* The phases a phase can be reached from
From(target) ==
    CASE target = "init" -> {"standby"}
      [] target = "update_clients" -> {"init"}
      [] target = "update_servers" -> {"update_clients"}
      [] target = "rollback" -> {"init", "update_clients", "update_servers"}
      [] target = "standby" -> {"update_servers", "rollback"}

ProcessRotationRequest(c, target, mode, force) ==
    CASE target = "init" -> StartNewRotation(c, mode, force)
      [] target = "update_clients" -> UpdateClients(c, mode)
      [] target = "update_servers" -> UpdateServers(c, mode)
      [] target = "rollback" -> StartRollingBackRotation(c)
      [] target = "standby" -> CompleteRotation(c)

-------------------------------------------------------------------------------

RotationInit ==
    /\ ca = [rev |-> 0, id |-> 0, phase |-> "standby", mode |-> "unset",
             active |-> {0}, additional |-> {}]
    /\ job = [c \in Callers |-> None]

\* A call has read the authority and computed the next one, or has returned an
\* error and changed nothing.
Begin(c, target, mode, force) ==
    /\ job[c] = None
    /\ ca.phase \in From(target)
    /\ target = "init" => ca.id < MaxRotations
    /\ job' = [job EXCEPT ![c] = ProcessRotationRequest(ca, target, mode, force)]
    /\ UNCHANGED ca

\* RotateCertAuthority
RotateCertAuthority(c, target) ==
    \E mode \in RequestModes, force \in BOOLEAN :
        /\ force => target = "init"
        /\ Begin(c, target, mode, force)

\* The phase that the schedule has after each phase
Scheduled ==
    [init |-> "update_clients", update_clients |-> "update_servers",
     update_servers |-> "standby"]

\* The loop of an Auth Service finds that the time of the schedule has come. It may
\* have come at any moment, and that of the phase after at the same moment.
AutoRotate(c) ==
    /\ ca.mode = "auto"
    /\ ca.phase \in DOMAIN Scheduled
    /\ Begin(c, Scheduled[ca.phase], "auto", FALSE)

SameRevision_Any(c) == TRUE

\* ConditionalUpdate
SameRevision(c) == job[c].rev = ca.rev

\* UpdateCertAuthority
UpdateCertAuthority(c) ==
    /\ job[c] # None
    /\ SameRevision(c)
    /\ ca' = [job[c] EXCEPT !.rev = ca.rev + 1]
    /\ job' = [job EXCEPT ![c] = None]

\* The revision has changed, the backend fails, or the Auth Service stops.
UpdateFails(c) ==
    /\ job[c] # None
    /\ job' = [job EXCEPT ![c] = None]
    /\ UNCHANGED ca

Rotate(c) ==
    \/ \E target \in Phases : RotateCertAuthority(c, target)
    \/ AutoRotate(c) \/ UpdateCertAuthority(c) \/ UpdateFails(c)

RotationNext == \E c \in Callers : Rotate(c)

RotationSpec == RotationInit /\ [][RotationNext]_rotationVars

-------------------------------------------------------------------------------

RotationTypeOK ==
    /\ ca \in Authority
    /\ job \in [Callers -> Authority \union {None}]

\* A forced rotation replaces the keys at once.
ForcedStep == ca'.id # ca.id /\ ca'.phase = "standby"

\* Whatever calls overlap, stop half-way or come late: unless the rotation is
\* forced, keys that start to sign were trusted before, and keys that signed
\* until now are still trusted after. Certificates stay valid across a step.
TrustOverlap ==
    [][~ForcedStep => ca'.active \subseteq Trusted(ca) /\ ca.active \subseteq Trusted(ca')]_ca

\* Once a rotation is rolled back, by whatever way it got there, its keys do not
\* sign any more, and the keys from before do.
NewKeysWithdrawn ==
    ca.phase = "rollback" => ca.id \notin ca.active /\ ca.active # {}

===============================================================================
