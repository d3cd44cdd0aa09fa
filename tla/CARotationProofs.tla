--------------------------- MODULE CARotationProofs ---------------------------
(***************************************************************************)
(* Rotations keep the certificates of a cluster valid, for any number of   *)
(* overlapping calls and of rotations, and in a cluster of any size.       *)
(***************************************************************************)
EXTENDS AgentRotation, TLAPS

-------------------------------------------------------------------------------
(* One authority and the next *)

\* Which keys sign and which are only trusted is determined by the phase.
KeysByPhase(c) ==
    /\ c.active # {}
    /\ \A k \in Trusted(c) : k <= c.id
    /\ c.phase = "standby" => c.additional = {}
    /\ c.phase \in {"init", "rollback"} => c.additional = {c.id} /\ c.id \notin c.active
    /\ c.phase \in {"update_clients", "update_servers"} =>
            c.active = {c.id} /\ c.additional # {} /\ c.id \notin c.additional

\* The overlap of trust when n replaces c
Overlap(c, n) ==
    ~(n.id # c.id /\ n.phase = "standby") =>
        n.active \subseteq Trusted(c) /\ c.active \subseteq Trusted(n)

\* Every request that processRotationRequest accepts leads from an authority
\* whose keys fit its phase to another one, and trust overlaps.
LEMMA RequestKeeps ==
    ASSUME NEW c \in Authority, KeysByPhase(c),
           NEW target \in Phases, c.phase \in From(target),
           NEW mode \in {"manual", "auto"},
           NEW force \in BOOLEAN, force => target = "init",
           target = "init" => c.id < MaxRotations
    PROVE  LET n == ProcessRotationRequest(c, target, mode, force)
           IN  n \in Authority /\ n.rev = c.rev /\ KeysByPhase(n) /\ Overlap(c, n)
<1> USE MaxRotationsNat DEF Authority, Keys, Phases, Modes, From
<1>1. CASE target = "init"
  <2> DEFINE n == ProcessRotationRequest(c, target, mode, force)
  <2>1. n = StartNewRotation(c, mode, force)
    BY <1>1 DEF ProcessRotationRequest
  <2>2. c.id + 1 \in Keys /\ c.phase = "standby" /\ c.additional = {}
    BY <1>1 DEF KeysByPhase
  <2>3. \A k \in c.active : k \in Nat /\ k <= c.id /\ k < c.id + 1
    BY DEF KeysByPhase, Trusted
  <2> HIDE DEF n
  <2>4. CASE force
    <3>1. /\ n \in Authority /\ n.rev = c.rev /\ n.id = c.id + 1 /\ n.phase = "standby"
          /\ n.active = {c.id + 1} /\ n.additional = {}
      BY <2>1, <2>2, <2>4 DEF StartNewRotation
    <3>2. KeysByPhase(n)
      BY <2>2, <3>1 DEF KeysByPhase, Trusted
    <3>3. Overlap(c, n)
      BY <3>1 DEF Overlap
    <3> QED BY <3>1, <3>2, <3>3 DEF n
  <2>5. CASE ~force
    <3>1. /\ n \in Authority /\ n.rev = c.rev /\ n.id = c.id + 1 /\ n.phase = "init"
          /\ n.active = c.active /\ n.additional = {c.id + 1}
      BY <2>1, <2>2, <2>5 DEF StartNewRotation
    <3>2. KeysByPhase(n)
      BY <2>2, <2>3, <3>1 DEF KeysByPhase, Trusted
    <3>3. Overlap(c, n)
      BY <3>1 DEF Overlap, Trusted
    <3> QED BY <3>1, <3>2, <3>3 DEF n
  <2> QED BY <2>4, <2>5
<1>2. CASE target = "update_clients"
  <2>1. ProcessRotationRequest(c, target, mode, force) = UpdateClients(c, mode)
    BY <1>2 DEF ProcessRotationRequest
  <2> QED BY <1>2, <2>1 DEF UpdateClients, Swapped, KeysByPhase, Overlap, Trusted
<1>3. CASE target = "update_servers"
  <2>1. ProcessRotationRequest(c, target, mode, force) = UpdateServers(c, mode)
    BY <1>3 DEF ProcessRotationRequest
  <2> QED BY <1>3, <2>1 DEF UpdateServers, KeysByPhase, Overlap, Trusted
<1>4. CASE target = "rollback"
  <2>1. ProcessRotationRequest(c, target, mode, force) = StartRollingBackRotation(c)
    BY <1>4 DEF ProcessRotationRequest
  <2> QED BY <1>4, <2>1 DEF StartRollingBackRotation, Swapped, KeysByPhase, Overlap, Trusted
<1>5. CASE target = "standby"
  <2>1. ProcessRotationRequest(c, target, mode, force) = CompleteRotation(c)
    BY <1>5 DEF ProcessRotationRequest
  <2> QED BY <1>5, <2>1 DEF CompleteRotation, KeysByPhase, Overlap, Trusted
<1> QED BY <1>1, <1>2, <1>3, <1>4, <1>5

-------------------------------------------------------------------------------
(* Calls that overlap *)

\* A call that can still store its result has computed it from the authority
\* that is stored now.
JobInv ==
    \A c \in Callers : job[c] # None =>
        /\ job[c].rev <= ca.rev
        /\ KeysByPhase(job[c])
        /\ job[c].rev = ca.rev => Overlap(ca, job[c])

RotationInv == RotationTypeOK /\ KeysByPhase(ca) /\ JobInv

LEMMA InvInit == RotationInit => RotationInv
<1> SUFFICES ASSUME RotationInit PROVE RotationInv
  OBVIOUS
<1>1. RotationTypeOK
  BY MaxRotationsNat DEF RotationInit, RotationTypeOK, Authority, Keys, Phases, Modes
<1>2. KeysByPhase(ca)
  BY DEF RotationInit, KeysByPhase, Trusted
<1>3. JobInv
  BY DEF RotationInit, JobInv
<1> QED BY <1>1, <1>2, <1>3 DEF RotationInv

\* A call that begins
LEMMA BeginKeeps ==
    ASSUME RotationInv, NEW c \in Callers, NEW target \in Phases,
           NEW mode \in {"manual", "auto"},
           NEW force \in BOOLEAN, force => target = "init",
           Begin(c, target, mode, force)
    PROVE  RotationInv'
<1> DEFINE n == ProcessRotationRequest(ca, target, mode, force)
<1>1. n \in Authority /\ n.rev = ca.rev /\ KeysByPhase(n) /\ Overlap(ca, n)
  BY RequestKeeps DEF Begin, RotationInv, RotationTypeOK
<1>2. job' = [job EXCEPT ![c] = n] /\ ca' = ca
  BY DEF Begin
<1> HIDE DEF n
<1>3. RotationTypeOK'
  BY <1>1, <1>2 DEF RotationInv, RotationTypeOK
<1>4. KeysByPhase(ca)'
  BY <1>2 DEF RotationInv, KeysByPhase, Trusted
<1>5. JobInv'
  <2> SUFFICES ASSUME NEW d \in Callers, job'[d] # None
               PROVE  /\ job'[d].rev <= ca.rev
                      /\ KeysByPhase(job'[d])
                      /\ job'[d].rev = ca.rev => Overlap(ca, job'[d])
    BY <1>2 DEF JobInv
  <2>1. CASE d = c
    <3>1. job'[d] = n
      BY <1>2, <2>1 DEF RotationInv, RotationTypeOK
    <3>2. n.rev <= ca.rev
      BY <1>1 DEF RotationInv, RotationTypeOK, Authority
    <3> QED BY <1>1, <3>1, <3>2
  <2>2. CASE d # c
    <3>1. job'[d] = job[d]
      BY <1>2, <2>2 DEF RotationInv, RotationTypeOK
    <3> QED BY <3>1 DEF RotationInv, JobInv
  <2> QED BY <2>1, <2>2
<1> QED BY <1>3, <1>4, <1>5 DEF RotationInv

\* A call that stores its result: every other call is too late.
LEMMA UpdateKeeps ==
    ASSUME RotationInv, NEW c \in Callers, UpdateCertAuthority(c)
    PROVE  RotationInv' /\ Overlap(ca, ca')
<1> DEFINE n == job[c]
<1>1. /\ n \in Authority /\ n # None /\ n.rev = ca.rev
      /\ ca' = [n EXCEPT !.rev = ca.rev + 1]
      /\ job' = [job EXCEPT ![c] = None]
  BY DEF UpdateCertAuthority, SameRevision, RotationInv, RotationTypeOK
<1>2. KeysByPhase(n) /\ Overlap(ca, n)
  BY <1>1 DEF RotationInv, JobInv
<1> HIDE DEF n
<1>3. ca.rev \in Nat
  BY DEF RotationInv, RotationTypeOK, Authority
<1>4. /\ ca' \in Authority /\ ca'.rev = ca.rev + 1 /\ ca'.id = n.id /\ ca'.phase = n.phase
      /\ ca'.active = n.active /\ ca'.additional = n.additional
  BY <1>1, <1>3 DEF Authority
<1>5. RotationTypeOK'
  BY <1>1, <1>4 DEF RotationInv, RotationTypeOK
<1>6. KeysByPhase(ca')
  BY <1>2, <1>4 DEF KeysByPhase, Trusted
<1>7. Overlap(ca, ca')
  BY <1>2, <1>4 DEF Overlap, Trusted
<1>8. JobInv'
  <2> SUFFICES ASSUME NEW d \in Callers, job'[d] # None
               PROVE  /\ job'[d].rev <= ca'.rev
                      /\ KeysByPhase(job'[d])
                      /\ job'[d].rev # ca'.rev
    BY DEF JobInv
  <2>1. job'[d] = job[d] /\ job[d] \in Authority
    BY <1>1 DEF RotationInv, RotationTypeOK
  <2>2. job[d].rev <= ca.rev /\ KeysByPhase(job[d]) /\ job[d].rev \in Nat
    BY <2>1 DEF RotationInv, JobInv, Authority
  <2> QED BY <1>3, <1>4, <2>1, <2>2
<1> QED BY <1>5, <1>6, <1>7, <1>8 DEF RotationInv

\* Steps of the rotation
LEMMA InvNext == RotationInv /\ [RotationNext]_rotationVars => RotationInv'
<1> SUFFICES ASSUME RotationInv, [RotationNext]_rotationVars PROVE RotationInv'
  OBVIOUS
<1>1. CASE UNCHANGED rotationVars
  BY <1>1 DEF rotationVars, RotationInv, RotationTypeOK, JobInv, KeysByPhase, Trusted, Overlap
<1>2. ASSUME NEW c \in Callers, NEW target \in Phases, RotateCertAuthority(c, target)
      PROVE  RotationInv'
  BY <1>2, BeginKeeps, RequestModesKnown DEF RotateCertAuthority
<1>3. ASSUME NEW c \in Callers, AutoRotate(c)
      PROVE  RotationInv'
  <2>1. Scheduled[ca.phase] \in Phases
    BY <1>3 DEF AutoRotate, Scheduled, Phases
  <2> QED BY <1>3, <2>1, BeginKeeps DEF AutoRotate
<1>4. ASSUME NEW c \in Callers, UpdateCertAuthority(c)
      PROVE  RotationInv'
  BY <1>4, UpdateKeeps
<1>5. ASSUME NEW c \in Callers, UpdateFails(c)
      PROVE  RotationInv'
  BY <1>5 DEF UpdateFails, RotationInv, RotationTypeOK, JobInv, KeysByPhase, Trusted, Overlap
<1> QED BY <1>1, <1>2, <1>3, <1>4, <1>5 DEF RotationNext, Rotate

\* Trust overlaps in every step.
LEMMA OverlapNext ==
    ASSUME RotationInv, [RotationNext]_rotationVars
    PROVE  ca' = ca \/ Overlap(ca, ca')
<1>1. CASE UNCHANGED rotationVars
  BY <1>1 DEF rotationVars
<1>2. ASSUME NEW c \in Callers, Rotate(c)
      PROVE  ca' = ca \/ Overlap(ca, ca')
  BY <1>2, UpdateKeeps DEF Rotate, RotateCertAuthority, AutoRotate, Begin, UpdateFails
<1> QED BY <1>1, <1>2 DEF RotationNext

-------------------------------------------------------------------------------

\* A rotation goes through well-formed authorities (lib/auth/rotate.go).
THEOREM RotationTyped == RotationSpec => []RotationTypeOK
<1>1. RotationInv => RotationTypeOK
  BY DEF RotationInv
<1> QED BY InvInit, InvNext, <1>1, PTL DEF RotationSpec

\* However calls of RotateCertAuthority and AutoRotateCertAuthorities overlap,
\* stop half-way or come late, keys are trusted before they sign and as long as
\* they did.
THEOREM TrustOverlaps == RotationSpec => TrustOverlap
<1>1. RotationInv /\ [RotationNext]_rotationVars =>
        [~ForcedStep => ca'.active \subseteq Trusted(ca) /\ ca.active \subseteq Trusted(ca')]_ca
  BY OverlapNext DEF Overlap, ForcedStep
<1> QED BY InvInit, InvNext, <1>1, PTL DEF RotationSpec, TrustOverlap

\* startRollingBackRotation takes the new keys out of use from every phase it
\* can start in.
THEOREM RollbackWithdraws == RotationSpec => []NewKeysWithdrawn
<1>1. RotationInv => NewKeysWithdrawn
  BY DEF RotationInv, KeysByPhase, NewKeysWithdrawn
<1> QED BY InvInit, InvNext, <1>1, PTL DEF RotationSpec

\* In a cluster, the authority changes as in a rotation by itself.
LEMMA ClusterStep == [Next]_vars => [RotationNext]_rotationVars
<1> SUFFICES ASSUME [Next]_vars PROVE [RotationNext]_rotationVars
  OBVIOUS
<1>1. CASE UNCHANGED vars
  BY <1>1 DEF vars
<1>2. ASSUME NEW c \in Callers,
             Request(c) \/ RotateBySchedule(c) \/ Commit(c) \/ CommitFails(c)
      PROVE  RotationNext
  BY <1>2 DEF Request, RotateBySchedule, Commit, CommitFails, RotationNext, Rotate
<1>3. ASSUME NEW m \in Members, Rotating(m) \/ Crash(m) \/ Restart(m)
      PROVE  UNCHANGED rotationVars
  BY <1>3 DEF Rotating, SyncRotationState, ReRegister, ReRegisterFails, WriteIdentity,
             WriteState, WriteFails, Crash, Restart
<1>4. ASSUME NEW a \in Auths, Refresh(a) PROVE UNCHANGED rotationVars
  BY <1>4 DEF Refresh
<1> QED BY <1>1, <1>2, <1>3, <1>4 DEF Next

\* The cluster with its processes implements the rotation by itself: what holds
\* of the authority holds in every cluster.
THEOREM ClusterImplementsRotation == Spec => RotationSpec
<1>1. Init => RotationInit
  BY DEF Init
<1> QED BY <1>1, ClusterStep, PTL DEF Spec, RotationSpec
===============================================================================
