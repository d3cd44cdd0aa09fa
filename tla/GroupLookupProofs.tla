--------------------------- MODULE GroupLookupProofs ---------------------------
(***************************************************************************)
(* For every limit and whatever Google answers: the response bodies of one *)
(* lookup stay within the byte budget and the page limit; its result is    *)
(* the complete listing or nothing, classed truthfully; and nothing but    *)
(* confirmed groups reaches the roles and the traits of a user.            *)
(***************************************************************************)
EXTENDS GroupLookup, SequenceTheorems, FiniteSetTheorems, TLAPS

\* While the lookup may still read, every byte held has been taken from the
\* budget, and no more requests were sent than pages are allowed.
Budget ==
    /\ pc \in {"claims", "search", "waiting", "gate", "calculate", "user", "denied"}
    /\ remaining \in Nat
    /\ buffered \in Nat
    /\ page \in Nat
    /\ BufferBounded
    /\ pc \in {"claims", "search", "waiting"} => buffered + remaining = MaxBytes
    /\ pc \in {"claims", "search"} => page < MaxPages
    /\ page <= MaxPages

\* The lookup starts with the whole budget.
LEMMA BudgetInit == Init => Budget
BY LimitsPositive DEF Init, Budget, BufferBounded

\* Every step keeps the account of the budget.
LEMMA BudgetStep == Budget /\ [Next]_vars => Budget'
<1> SUFFICES ASSUME Budget, [Next]_vars PROVE Budget'
    OBVIOUS
<1> USE LimitsPositive DEF Budget, BufferBounded
<1>1. CASE Expire \/ Cancel \/ Ended \/ UNCHANGED vars
  BY <1>1 DEF Expire, Cancel, Ended, vars, Searching
<1>2. ASSUME NEW enabled \in BOOLEAN, NEW hasToken \in BOOLEAN, Begin(enabled, hasToken)
      PROVE  Budget'
  BY <1>2 DEF Begin
<1>3. CASE SendRequest
  BY <1>3 DEF SendRequest, Fail
<1>4. ASSUME NEW read \in 0 .. remaining + 1, ReadFails(read) PROVE Budget'
  BY <1>4 DEF ReadFails, Fail
<1>5. CASE Aborted
  BY <1>4, <1>5 DEF Aborted
<1>6. CASE Response
  <2>1. PICK read \in 0 .. remaining + 1 :
          \/ ReadFails(read)
          \/ ResponseTooLarge(read)
          \/ \E error \in ResponseErrors : ResponseFails(read, error)
          \/ \E p \in Pages : PageRead(read, p)
    BY <1>6 DEF Response, ReadLimit
  <2>2. CASE ReadFails(read)
    BY <1>4, <2>2
  <2>3. CASE ResponseTooLarge(read)
    BY <2>3 DEF ResponseTooLarge, Consume, Fail
  <2>4. ASSUME NEW error \in ResponseErrors, ResponseFails(read, error) PROVE Budget'
    BY <2>4 DEF ResponseFails, Consume, Fail
  <2>5. ASSUME NEW p \in Pages, PageRead(read, p) PROVE Budget'
    <3>1. /\ pc = "waiting"
          /\ read <= remaining
          /\ remaining' = remaining - read
          /\ buffered' = buffered + read
          /\ page' = page
      BY <2>5 DEF PageRead, Consume
    <3>2. pc' \in {"gate", "search", "calculate"}
      BY <2>5 DEF PageRead
    <3>3. pc' = "search" => page # MaxPages
      BY <2>5 DEF PageRead, PageOutcome, LastPage
    <3> QED BY <3>1, <3>2, <3>3
  <2> QED BY <2>1, <2>2, <2>3, <2>4, <2>5
<1>7. CASE GateNext \/ GateRelations
  BY <1>7 DEF GateNext, GateRelations
<1>8. ASSUME NEW ruleGroups, CalculateUser(ruleGroups) PROVE Budget'
  BY <1>8 DEF CalculateUser
<1>9. CASE CalculateUserFails
  BY <1>9 DEF CalculateUserFails
<1> QED BY <1>1, <1>2, <1>3, <1>5, <1>6, <1>7, <1>8, <1>9 DEF Next

\* All response bodies of a lookup together hold at most one byte more than the
\* budget, whatever the number of pages and wherever a read breaks off.
THEOREM BudgetHolds == Spec => []BufferBounded
<1>1. Budget => BufferBounded
  BY DEF Budget
<1> QED BY <1>1, BudgetInit, BudgetStep, PTL DEF Spec

-------------------------------------------------------------------------------
(* Types *)

\* What the types need to be inductive: gateRelations starts from nothing, on a
\* listing within the relation limit.
TypeInv ==
    /\ TypeOK
    /\ pc \in {"claims", "search", "waiting"} => gated = Ungated
    /\ pc = "gate" => gated.done <= Len(relations) /\ Len(relations) <= MaxRelations

Results == [groups : Seq(Addresses), outcome : Outcomes \cup {None},
            failure : {Failures[e] : e \in DOMAIN Failures} \cup {None}]

\* The classes classifyGroupFailure knows
LEMMA FailureClasses ==
    ResponseErrors \cup {"budget", "pageLimit", "relationLimit", "deadline", "canceled"}
        \subseteq DOMAIN Failures
BY DEF Failures, ResponseErrors

\* A failed lookup has no groups and no outcome.
LEMMA FailedResult ==
    ASSUME NEW e \in DOMAIN Failures
    PROVE  LET r == [NoResult EXCEPT !.failure = Failures[e]]
           IN  r \in Results /\ r.groups = <<>> /\ r.outcome = None
<1> DEFINE r == [NoResult EXCEPT !.failure = Failures[e]]
<1>1. r = [groups |-> <<>>, outcome |-> None, failure |-> Failures[e]]
  BY DEF NoResult
<1>2. <<>> \in Seq(Addresses)
  BY EmptySeq
<1>3. Failures[e] \in {Failures[x] : x \in DOMAIN Failures}
  OBVIOUS
<1> QED BY <1>1, <1>2, <1>3 DEF Results

\* What Fail leaves behind
LEMMA FailLemma ==
    ASSUME TypeOK, NEW error \in DOMAIN Failures, Fail(error)
    PROVE  /\ result' \in Results /\ result'.groups = <<>> /\ result'.outcome = None
           /\ pc' = "calculate"
<1>1. (IF ctx = "live" THEN error ELSE ctx) \in DOMAIN Failures
  BY FailureClasses DEF TypeOK
<1> QED BY <1>1, FailedResult DEF Fail

\* The relations of a page are a sequence of relations.
LEMMA PageIsSeq == \A p \in Pages : p.relations \in Seq(Relations)
<1> SUFFICES ASSUME NEW p \in Pages PROVE p.relations \in Seq(Relations)
  OBVIOUS
<1>1. PICK n \in 0 .. MaxPageRelations : p.relations \in [1 .. n -> Relations]
  BY DEF Pages
<1>2. n \in Nat
  BY PageBoundNat
<1> QED BY <1>1, <1>2, SeqDef

\* Every step keeps the types.
LEMMA TypeStep == Budget /\ TypeInv /\ [Next]_vars => TypeInv'
<1> SUFFICES ASSUME Budget, TypeInv, [Next]_vars PROVE TypeInv'
    OBVIOUS
<1> USE LimitsPositive
<1>1. Budget'
  BY BudgetStep
<1>2. page' \in 0 .. MaxPages /\ buffered' \in Nat /\ remaining' \in Nat
  BY <1>1 DEF Budget
<1>3. TypeOK /\ result \in Results
  BY DEF TypeInv, TypeOK, Results
<1>4. CASE Expire \/ Cancel \/ Ended \/ UNCHANGED vars
  BY <1>4 DEF Expire, Cancel, Ended, vars, Searching, TypeInv, TypeOK
<1>5. ASSUME NEW enabled \in BOOLEAN, NEW hasToken \in BOOLEAN, Begin(enabled, hasToken)
      PROVE  TypeInv'
  <2>1. result' \in Results
    <3>1. "other" \in DOMAIN Failures /\ Failures["other"] = "request_failed"
      BY DEF Failures
    <3>2. [NoResult EXCEPT !.failure = "request_failed"] \in Results
      BY <3>1, FailedResult
    <3> QED BY <1>3, <1>5, <3>2 DEF Begin
  <2> QED BY <1>5, <2>1 DEF Begin, ClaimsWithoutGroups, TypeInv, TypeOK, Results
<1>6. CASE SendRequest
  <2>1. result' \in Results /\ pc' \in {"waiting", "calculate"}
    BY <1>3, <1>6, FailLemma, FailureClasses DEF SendRequest, TypeOK
  <2> QED BY <1>2, <1>6, <2>1 DEF SendRequest, TypeInv, TypeOK, Results
<1>7. ASSUME NEW read, ReadFails(read) PROVE TypeInv'
  <2>1. result' \in Results /\ pc' = "calculate"
    BY <1>3, <1>7, FailLemma, FailureClasses DEF ReadFails, ResponseErrors
  <2> QED BY <1>2, <1>7, <2>1 DEF ReadFails, TypeInv, TypeOK, Results
<1>8. CASE Response
  <2>1. PICK read \in 0 .. remaining + 1 :
          \/ ReadFails(read)
          \/ ResponseTooLarge(read)
          \/ \E error \in ResponseErrors : ResponseFails(read, error)
          \/ \E p \in Pages : PageRead(read, p)
    BY <1>8 DEF Response, ReadLimit
  <2>2. Consume(read).remaining \in 0 .. MaxBytes
    BY <2>1, <1>3 DEF Consume, TypeOK
  <2>3. CASE ResponseTooLarge(read)
    <3>1. result' \in Results /\ pc' = "calculate"
      BY <1>3, <2>3, FailLemma, FailureClasses DEF ResponseTooLarge
    <3> QED BY <1>2, <2>2, <2>3, <3>1 DEF ResponseTooLarge, TypeInv, TypeOK, Results
  <2>4. ASSUME NEW error \in ResponseErrors, ResponseFails(read, error) PROVE TypeInv'
    <3>1. result' \in Results /\ pc' = "calculate"
      BY <1>3, <2>4, FailLemma, FailureClasses DEF ResponseFails
    <3> QED BY <1>2, <2>2, <2>4, <3>1 DEF ResponseFails, TypeInv, TypeOK, Results
  <2>5. ASSUME NEW p \in Pages, PageRead(read, p) PROVE TypeInv'
    <3>1. relations' \in Seq(Relations) /\ served' \in Seq(Relations)
      BY <1>3, <2>5, PageIsSeq, ConcatProperties DEF PageRead, AddPage, TypeOK
    <3>2. result' \in Results /\ pc' \in {"gate", "search", "calculate"}
      BY <1>3, <2>5, FailedResult, FailureClasses DEF PageRead
    <3>3. pc' = "gate" => Len(relations') <= MaxRelations
      <4>1. Len(relations') \in Nat
        BY <3>1, LenProperties
      <4>2. pc' = "gate" => ~(Len(relations') > MaxRelations)
        BY <2>5 DEF PageRead, PageOutcome
      <4> QED BY <4>1, <4>2
    <3>4. Ungated.done <= Len(relations')
      BY <3>1, LenProperties DEF Ungated
    <3>5. complete' \in BOOLEAN
      BY <2>5 DEF PageRead
    <3> QED BY <1>2, <2>2, <2>5, <3>1, <3>2, <3>3, <3>4, <3>5
            DEF PageRead, TypeInv, TypeOK, Results
  <2> QED BY <1>7, <2>1, <2>3, <2>4, <2>5
<1>9. CASE GateNext
  <2>1. /\ gated \in [done : 0 .. MaxRelations, groups : Seq(Addresses), rejected : SUBSET Gates]
        /\ Len(relations) \in Nat /\ Len(relations) <= MaxRelations
        /\ gated.done < Len(relations)
    BY <1>9, LenProperties DEF GateNext, TypeInv, TypeOK
  <2> DEFINE r == relations[gated.done + 1]
  <2>2. r \in Relations
    BY <2>1, ElementOfSeq DEF TypeInv, TypeOK
  <2>3. r.id \in Addresses /\ r.namespace \in BOOLEAN /\ r.discussionForum \in BOOLEAN
    BY <2>2, RelationShape
  <2>4. ToLower(r.id) \in Addresses
    BY <2>3 DEF ToLower, Addresses, Spellings
  <2>5. Gate(r) \in Gates \cup {"passed"}
    BY DEF Gate, Gates
  <2> HIDE DEF r
  <2>6. GateRelation(gated, r).groups \in Seq(Addresses)
    BY <2>1, <2>4, AppendProperties DEF GateRelation
  <2>7. GateRelation(gated, r).rejected \in SUBSET Gates
    BY <2>1, <2>5 DEF GateRelation
  <2>8. GateRelation(gated, r).done \in 0 .. MaxRelations /\ GateRelation(gated, r).done <= Len(relations)
    BY <2>1 DEF GateRelation
  <2>9. gated' = GateRelation(gated, r)
    BY <1>9 DEF GateNext, r
  <2>10. gated' \in [done : 0 .. MaxRelations, groups : Seq(Addresses), rejected : SUBSET Gates]
    BY <2>6, <2>7, <2>8, <2>9 DEF GateRelation
  <2> QED BY <1>9, <2>8, <2>9, <2>10 DEF GateNext, TypeInv, TypeOK
<1>10. CASE GateRelations
  <2>1. result' \in Results
    BY <1>3, <1>10 DEF GateRelations, OutcomeOf, Outcomes, Results, TypeOK
  <2> QED BY <1>10, <2>1 DEF GateRelations, TypeInv, TypeOK, Results
<1>11. ASSUME NEW ruleGroups, CalculateUser(ruleGroups) PROVE TypeInv'
  <2> DEFINE groups == IF result.groups = <<>> THEN rawClaims ELSE ToSet(result.groups)
  <2>1. ToSet(result.groups) \subseteq Addresses
    BY <1>3, ElementOfSeq, LenProperties DEF ToSet, Results
  <2>2. RolesFor(groups) \subseteq Groups \cup {"email"}
    BY <1>3, <2>1 DEF RolesFor, TypeOK, Addresses
  <2>3. roles' \subseteq Groups \cup {"email"} /\ groupTrait' \subseteq Addresses
    BY <1>3, <1>11, <2>1, <2>2 DEF CalculateUser, GroupTrait, TypeOK
  <2> QED BY <1>11, <2>3 DEF CalculateUser, TypeInv, TypeOK
<1>12. CASE CalculateUserFails
  BY <1>12 DEF CalculateUserFails, TypeInv, TypeOK
<1> QED BY <1>4, <1>5, <1>6, <1>7, <1>8, <1>9, <1>10, <1>11, <1>12 DEF Next, Aborted

\* Types hold initially.
LEMMA TypeInit == Init => TypeInv
<1> SUFFICES ASSUME Init PROVE TypeInv
    OBVIOUS
<1>1. NoResult \in Results
  BY EmptySeq DEF NoResult, Results
<1>2. Ungated \in [done : 0 .. MaxRelations, groups : Seq(Addresses), rejected : SUBSET Gates]
  BY EmptySeq, LimitsPositive DEF Ungated
<1>3. relations \in Seq(Relations) /\ served \in Seq(Relations)
  BY EmptySeq DEF Init
<1>4. rawClaims \subseteq Addresses
  BY DEF Init
<1>5. TypeOK
  <2>1. page \in 0 .. MaxPages /\ remaining \in 0 .. MaxBytes /\ buffered \in Nat
    BY LimitsPositive DEF Init
  <2>2. emailRole \in BOOLEAN /\ complete \in BOOLEAN /\ roles = {} /\ groupTrait = {}
    BY DEF Init
  <2>3. result \in Results /\ gated = Ungated /\ pc = "claims" /\ ctx = "live"
    BY <1>1 DEF Init
  <2> QED BY <1>2, <1>3, <1>4, <2>1, <2>2, <2>3 DEF TypeOK, Results
<1> QED BY <1>5 DEF Init, TypeInv

\* The locals of the lookup, of gateRelations and of calculateUser keep their
\* types; in particular no more requests are sent than pages are allowed.
THEOREM TypeCorrect == Spec => []TypeOK
<1>1. TypeInv => TypeOK
  BY DEF TypeInv
<1> QED BY <1>1, BudgetInit, BudgetStep, TypeInit, TypeStep, PTL DEF Spec

-------------------------------------------------------------------------------
(* The result of a lookup *)

\* The groups of the first n relations that pass every gate
Passed(n) == {relations[i].id.group : i \in {j \in 1 .. n : Passes(relations[j])}}

\* The loop of gateRelations: its groups are those that passed so far, each once,
\* and its counters tell what was dropped so far.
GatedInv ==
    /\ IsFiniteSet(Passed(gated.done))
    /\ ToSet(gated.groups) = Lower(Passed(gated.done))
    /\ Len(gated.groups) = Cardinality(Passed(gated.done))
    /\ gated.rejected # {} <=> \E i \in 1 .. gated.done : ~Passes(relations[i])
    /\ "namespace" \in gated.rejected <=> \E i \in 1 .. gated.done : relations[i].namespace

\* Only a complete listing is gated, and until gateRelations returns there is no
\* result; the groups claim of the token is gone once the lookup begins.
ListingInv ==
    /\ relations = served
    /\ pc # "claims" => rawClaims = {}
    /\ pc \in {"claims", "search", "waiting", "gate"} => result = NoResult
    /\ pc = "gate" => complete /\ GatedInv
    /\ CompleteOrNothing
    /\ OutcomeMatchesListing
    /\ OnlyConfirmedGroupsCount
    /\ result.failure # None => result.outcome = None

\* Appending adds one element.
LEMMA ToSetAppend ==
    ASSUME NEW S, NEW s \in Seq(S), NEW e \in S
    PROVE  ToSet(Append(s, e)) = ToSet(s) \cup {e}
<1> DEFINE u == Append(s, e)
<1>1. /\ u \in Seq(S) /\ Len(u) = Len(s) + 1
      /\ \A i \in 1 .. Len(s) : u[i] = s[i]
      /\ u[Len(s) + 1] = e
  BY AppendProperties
<1>2. Len(s) \in Nat /\ DOMAIN s = 1 .. Len(s) /\ DOMAIN u = 1 .. Len(u)
  BY <1>1, LenProperties
<1> HIDE DEF u
<1>3. ToSet(u) \subseteq ToSet(s) \cup {e}
  BY <1>1, <1>2 DEF ToSet
<1>4. ToSet(s) \subseteq ToSet(u)
  BY <1>1, <1>2 DEF ToSet
<1>5. e \in ToSet(u)
  BY <1>1, <1>2 DEF ToSet
<1> QED BY <1>3, <1>4, <1>5 DEF u

\* What the gates of gateRelations say of a relation
LEMMA GateLemma ==
    ASSUME NEW r \in Relations
    PROVE  /\ Gate(r) = "passed" <=> Passes(r)
           /\ Gate(r) = "namespace" <=> r.namespace
           /\ ToLower(r.id) = [group |-> r.id.group, spelling |-> "lower"]
           /\ ToLower(r.id) \in Addresses
<1>1. r.id \in Addresses /\ r.namespace \in BOOLEAN /\ r.discussionForum \in BOOLEAN
  BY RelationShape
<1>2. ToLower(r.id) = [group |-> r.id.group, spelling |-> "lower"] /\ r.id.group \in Groups
  BY <1>1 DEF ToLower, Addresses
<1>3. Gate(r) = "passed" <=> Passes(r)
  BY <1>1, <1>2 DEF Gate, Passes
<1>4. Gate(r) = "namespace" <=> r.namespace
  BY <1>1 DEF Gate
<1> QED BY <1>2, <1>3, <1>4 DEF Addresses, Spellings

\* One more relation
LEMMA PassedStep ==
    ASSUME NEW n \in Nat
    PROVE  Passed(n + 1) = IF Passes(relations[n + 1])
                           THEN Passed(n) \cup {relations[n + 1].id.group} ELSE Passed(n)
<1>1. {j \in 1 .. n + 1 : Passes(relations[j])} =
        {j \in 1 .. n : Passes(relations[j])} \cup (IF Passes(relations[n + 1]) THEN {n + 1} ELSE {})
  OBVIOUS
<1> QED BY <1>1 DEF Passed

\* Before the first relation
LEMMA GatedStart == gated = Ungated => GatedInv
<1> SUFFICES ASSUME gated = Ungated PROVE GatedInv
    OBVIOUS
<1>1. gated.done = 0 /\ gated.groups = <<>> /\ gated.rejected = {}
  BY DEF Ungated
<1>2. Passed(0) = {}
  BY DEF Passed
<1>3. IsFiniteSet(Passed(0)) /\ Cardinality(Passed(0)) = 0
  BY <1>2, FS_EmptySet
<1>4. ToSet(<<>>) = {} /\ Len(<<>>) = 0
  BY DEF ToSet
<1>5. Lower(Passed(0)) = {}
  BY <1>2 DEF Lower
<1>6. ~\E i \in 1 .. 0 : TRUE
  OBVIOUS
<1> QED BY <1>1, <1>3, <1>4, <1>5, <1>6 DEF GatedInv

\* A pass of the loop keeps what is known of its groups and of its counters.
LEMMA GatedStep ==
    ASSUME TypeInv, GatedInv, GateNext
    PROVE  GatedInv'
<1> DEFINE n == gated.done
           r == relations[n + 1]
           P == Passed(n)
<1>1. /\ gated \in [done : 0 .. MaxRelations, groups : Seq(Addresses), rejected : SUBSET Gates]
      /\ n \in Nat /\ n + 1 \in 1 .. Len(relations)
      /\ relations' = relations /\ gated' = GateRelation(gated, r)
  BY LimitsPositive, LenProperties DEF GateNext, TypeInv, TypeOK
<1>2. r \in Relations
  BY <1>1, ElementOfSeq DEF TypeInv, TypeOK
<1>3. /\ Gate(r) = "passed" <=> Passes(r)
      /\ Gate(r) = "namespace" <=> r.namespace
      /\ ToLower(r.id) = [group |-> r.id.group, spelling |-> "lower"]
      /\ ToLower(r.id) \in Addresses
  BY <1>2, GateLemma
<1>4. gated'.done = n + 1
  BY <1>1 DEF GateRelation
<1>5. Passed(n + 1) = IF Passes(r) THEN P \cup {r.id.group} ELSE P
  BY <1>1, PassedStep
<1>6. \A i \in 1 .. n + 1 : i \in 1 .. n \/ i = n + 1
  BY <1>1
<1> DEFINE Q == Passed(n + 1)
           g == r.id.group
           low == ToLower(r.id)
<1>7. /\ IsFiniteSet(P) /\ Len(gated.groups) = Cardinality(P)
      /\ ToSet(gated.groups) = Lower(P)
  BY DEF GatedInv
<1>8. low \in ToSet(gated.groups) <=> g \in P
  BY <1>3, <1>7 DEF Lower
<1>9. /\ IsFiniteSet(Q)
      /\ ToSet(gated'.groups) = Lower(Q)
      /\ Len(gated'.groups) = Cardinality(Q)
  <2>1. CASE Passes(r) /\ g \notin P
    <3>1. gated'.groups = Append(gated.groups, low)
      BY <1>1, <1>3, <1>8, <2>1 DEF GateRelation
    <3>2. gated.groups \in Seq(Addresses) /\ Len(gated.groups) \in Nat
      BY <1>1, LenProperties
    <3>3. /\ ToSet(gated'.groups) = ToSet(gated.groups) \cup {low}
          /\ Len(gated'.groups) = Len(gated.groups) + 1
      BY <1>3, <3>1, <3>2, ToSetAppend, AppendProperties
    <3>4. Q = P \cup {g}
      BY <1>5, <2>1
    <3>5. IsFiniteSet(Q) /\ Cardinality(Q) = Cardinality(P) + 1
      BY <1>7, <2>1, <3>4, FS_AddElement
    <3>6. Lower(Q) = Lower(P) \cup {[group |-> g, spelling |-> "lower"]}
      BY <3>4 DEF Lower
    <3> QED BY <1>3, <1>7, <3>3, <3>5, <3>6
  <2>2. CASE ~(Passes(r) /\ g \notin P)
    <3>1. gated'.groups = gated.groups
      BY <1>1, <1>3, <1>8, <2>2 DEF GateRelation
    <3>2. Q = P
      BY <1>5, <2>2
    <3> QED BY <1>7, <3>1, <3>2
  <2> QED BY <2>1, <2>2
<1>10. gated'.rejected = IF Passes(r) THEN gated.rejected ELSE gated.rejected \cup {Gate(r)}
  BY <1>1, <1>3 DEF GateRelation
<1>11. gated'.rejected # {} <=> \E i \in 1 .. n + 1 : ~Passes(relations[i])
  <2>1. gated.rejected # {} <=> \E i \in 1 .. n : ~Passes(relations[i])
    BY DEF GatedInv
  <2>2. CASE Passes(r)
    BY <1>1, <1>6, <1>10, <2>1, <2>2
  <2>3. CASE ~Passes(r)
    <3>1. gated'.rejected # {}
      BY <1>10, <2>3
    <3>2. n + 1 \in 1 .. n + 1
      BY <1>1
    <3> QED BY <2>3, <3>1, <3>2
  <2> QED BY <2>2, <2>3
<1>12. "namespace" \in gated'.rejected <=> \E i \in 1 .. n + 1 : relations[i].namespace
  <2>1. "namespace" \in gated.rejected <=> \E i \in 1 .. n : relations[i].namespace
    BY DEF GatedInv
  <2> HIDE DEF n
  <2> QED BY <1>1, <1>3, <1>6, <1>10, <2>1 DEF Passes
<1>13. Passed(gated.done)' = Q
  BY <1>1, <1>4 DEF Passed, Passes
<1>14. \A i \in 1 .. gated'.done : Passes(relations'[i]) = Passes(relations[i])
  BY <1>1
<1> QED BY <1>1, <1>4, <1>9, <1>11, <1>12, <1>13, <1>14 DEF GatedInv

\* After the last relation the groups that passed are those Google confirms.
LEMMA PassedAll ==
    ASSUME TypeOK, relations = served, complete
    PROVE  /\ Passed(Len(relations)) = Confirmed
           /\ (\E i \in 1 .. Len(relations) : ~Passes(relations[i])) <=> \E r \in ToSet(served) : ~Passes(r)
           /\ (\E i \in 1 .. Len(relations) : relations[i].namespace) <=> \E r \in ToSet(served) : r.namespace
<1>1. DOMAIN served = 1 .. Len(relations)
  BY LenProperties DEF TypeOK
<1>2. Confirmed = {r.id.group : r \in {q \in ToSet(served) : Passes(q)}}
  BY DEF Confirmed
<1> QED BY <1>1, <1>2 DEF Passed, ToSet

\* Every step keeps the listing, what is read of it, and what comes of it.
LEMMA ListingStep == TypeInv /\ ListingInv /\ [Next]_vars => ListingInv'
<1> SUFFICES ASSUME TypeInv, ListingInv, [Next]_vars PROVE ListingInv'
    OBVIOUS
<1> USE NoneIsNoOutcome
\* A lookup that has no result yet, or that has failed
<1>1. ASSUME relations' = served', pc' # "user", pc' # "gate", pc' # "claims" => rawClaims' = {},
             pc' \in {"claims", "search", "waiting"} => result' = NoResult,
             result'.groups = <<>>, result'.outcome = None
      PROVE  ListingInv'
  BY <1>1 DEF ListingInv, CompleteOrNothing, OutcomeMatchesListing, OnlyConfirmedGroupsCount
<1>2. NoResult.groups = <<>> /\ NoResult.outcome = None
  BY DEF NoResult
<1>3. relations = served /\ (pc # "claims" => rawClaims = {})
      /\ (pc \in {"claims", "search", "waiting", "gate"} => result = NoResult)
  BY DEF ListingInv
<1>4. TypeOK
  BY DEF TypeInv
<1>5. CASE Expire \/ Cancel
  BY <1>1, <1>2, <1>3, <1>5 DEF Expire, Cancel, Searching
<1>6. CASE Ended \/ UNCHANGED vars
  <2>1. UNCHANGED vars
    BY <1>6 DEF Ended
  <2>2. GatedInv' = GatedInv
    BY <2>1 DEF vars, GatedInv, Passed
  <2>3. Confirmed' = Confirmed /\ ConfirmedAddresses' = ConfirmedAddresses
    BY <2>1 DEF vars, Confirmed, ConfirmedAddresses
  <2>4. CompleteOrNothing' /\ OutcomeMatchesListing' /\ OnlyConfirmedGroupsCount'
    BY <2>1, <2>3 DEF vars, ListingInv, CompleteOrNothing, OutcomeMatchesListing,
                      OnlyConfirmedGroupsCount
  <2> QED BY <2>1, <2>2, <2>4 DEF vars, ListingInv
<1>7. ASSUME NEW enabled \in BOOLEAN, NEW hasToken \in BOOLEAN, Begin(enabled, hasToken)
      PROVE  ListingInv'
  <2>1. /\ pc = "claims" /\ pc' \in {"search", "calculate"} /\ rawClaims' = {}
        /\ UNCHANGED <<relations, served>>
        /\ result' = result \/ (pc' = "calculate" /\ result' = [NoResult EXCEPT !.failure = "request_failed"])
    BY <1>7 DEF Begin, ClaimsWithoutGroups
  <2>2. [NoResult EXCEPT !.failure = "request_failed"].groups = <<>>
        /\ [NoResult EXCEPT !.failure = "request_failed"].outcome = None
    BY DEF NoResult
  <2> QED BY <1>1, <1>2, <1>3, <2>1, <2>2
<1>8. ASSUME NEW error \in DOMAIN Failures, Fail(error), pc # "claims",
             UNCHANGED <<relations, served, rawClaims>>
      PROVE  ListingInv'
  BY <1>1, <1>3, <1>4, <1>8, FailLemma
<1>9. CASE SendRequest
  <2>1. CASE ctx = "live"
    BY <1>1, <1>2, <1>3, <1>9, <2>1 DEF SendRequest
  <2>2. CASE ctx # "live"
    <3>1. ctx \in DOMAIN Failures
      BY <1>4, <2>2, FailureClasses DEF TypeOK
    <3> QED BY <1>8, <1>9, <2>2, <3>1 DEF SendRequest
  <2> QED BY <2>1, <2>2
<1>10. ASSUME NEW read, ReadFails(read) PROVE ListingInv'
  BY <1>8, <1>10, FailureClasses DEF ReadFails, ResponseErrors
<1>11. CASE Response
  <2>1. PICK read \in 0 .. ReadLimit :
          \/ ReadFails(read)
          \/ ResponseTooLarge(read)
          \/ \E error \in ResponseErrors : ResponseFails(read, error)
          \/ \E p \in Pages : PageRead(read, p)
    BY <1>11 DEF Response
  <2>2. CASE ResponseTooLarge(read)
    BY <1>8, <2>2, FailureClasses DEF ResponseTooLarge
  <2>3. ASSUME NEW error \in ResponseErrors, ResponseFails(read, error) PROVE ListingInv'
    BY <1>8, <2>3, FailureClasses DEF ResponseFails
  <2>4. ASSUME NEW p \in Pages, PageRead(read, p) PROVE ListingInv'
    <3>1. /\ pc = "waiting" /\ relations' = served' /\ rawClaims' = {}
          /\ gated' = gated /\ complete' = ~p.more
      BY <1>3, <2>4 DEF PageRead, AddPage
    <3>2. CASE PageOutcome(p) = "search"
      BY <1>1, <1>2, <1>3, <2>4, <3>1, <3>2 DEF PageRead
    <3>3. CASE PageOutcome(p) = "gate"
      <4>1. pc' = "gate" /\ result' = NoResult /\ complete'
        BY <1>3, <2>4, <3>1, <3>3 DEF PageRead, PageOutcome
      <4>2. (gated = Ungated)'
        BY <3>1 DEF TypeInv, Ungated
      <4>3. GatedInv'
        BY <4>2, GatedStart, PTL
      <4>4. result'.outcome = None /\ result'.groups = <<>> /\ result'.failure = None
        BY <4>1 DEF NoResult
      <4> QED BY <3>1, <4>1, <4>3, <4>4
              DEF ListingInv, CompleteOrNothing, OutcomeMatchesListing, OnlyConfirmedGroupsCount
    <3>4. CASE PageOutcome(p) \in {"relationLimit", "pageLimit"}
      <4>1. result' = [NoResult EXCEPT !.failure = Failures[PageOutcome(p)]] /\ pc' = "calculate"
        BY <2>4, <3>4 DEF PageRead
      <4>2. result'.groups = <<>> /\ result'.outcome = None
        BY <3>4, <4>1, FailureClasses, FailedResult
      <4> QED BY <1>1, <3>1, <4>1, <4>2
    <3> QED BY <3>2, <3>3, <3>4 DEF PageOutcome
  <2> QED BY <1>10, <2>1, <2>2, <2>3, <2>4
<1>12. CASE GateNext
  <2>1. GatedInv'
    BY <1>12, GatedStep DEF GateNext, ListingInv
  <2>2. result'.outcome = None /\ result'.groups = <<>> /\ result'.failure = None /\ result' = NoResult
    BY <1>3, <1>12 DEF GateNext, NoResult
  <2> QED BY <1>3, <1>12, <2>1, <2>2 DEF GateNext, ListingInv, CompleteOrNothing,
                              OutcomeMatchesListing, OnlyConfirmedGroupsCount
<1>13. CASE GateRelations
  <2>1. /\ pc = "gate" /\ pc' = "calculate" /\ complete /\ GatedInv
        /\ gated.done = Len(relations)
        /\ UNCHANGED <<relations, served, complete, rawClaims>>
        /\ result' = [groups |-> gated.groups, outcome |-> OutcomeOf, failure |-> None]
    BY <1>13 DEF GateRelations, ListingInv
  <2>2. result'.groups = gated.groups /\ result'.outcome = OutcomeOf /\ result'.failure = None
    BY <2>1
  <2>3. OutcomeOf \in Outcomes /\ OutcomeOf # None
    BY DEF OutcomeOf, Outcomes
  <2>4. /\ Passed(Len(relations)) = Confirmed
        /\ (\E i \in 1 .. Len(relations) : ~Passes(relations[i])) <=> \E r \in ToSet(served) : ~Passes(r)
        /\ (\E i \in 1 .. Len(relations) : relations[i].namespace) <=> \E r \in ToSet(served) : r.namespace
    BY <1>3, <1>4, <2>1, PassedAll
  <2>5. Confirmed' = Confirmed /\ ConfirmedAddresses' = ConfirmedAddresses
    BY <2>1 DEF Confirmed, ConfirmedAddresses
  <2>6. CompleteOrNothing'
    BY <2>1, <2>2, <2>3, <2>4, <2>5 DEF CompleteOrNothing, GatedInv, ConfirmedAddresses
  <2>7. OutcomeMatchesListing'
    <3> DEFINE external == \E r \in ToSet(served) : r.namespace
               dropped == \E r \in ToSet(served) : ~Passes(r)
    <3>1. ("namespace" \in gated.rejected <=> external) /\ (gated.rejected # {} <=> dropped)
      BY <2>1, <2>4 DEF GatedInv
    <3>2. served = <<>> => ~external /\ ~dropped
      BY DEF ToSet
    <3>3. external => dropped
      BY DEF Passes
    <3>4. served' = served
      BY <2>1
    <3> HIDE DEF external, dropped
    <3>5. /\ OutcomeOf = "no_groups_visible" <=> served = <<>>
          /\ OutcomeOf = "namespace_rejected" <=> external
          /\ OutcomeOf = "filtered" <=> dropped /\ ~external
      BY <1>3, <3>1, <3>2, <3>3 DEF OutcomeOf
    <3> QED BY <2>2, <3>4, <3>5 DEF OutcomeMatchesListing, external, dropped
  <2> QED BY <1>3, <2>1, <2>2, <2>6, <2>7 DEF ListingInv, OnlyConfirmedGroupsCount
<1>14. ASSUME NEW ruleGroups, CalculateUser(ruleGroups) PROVE ListingInv'
  <2>1. /\ pc = "calculate" /\ pc' \in {"user", "denied"}
        /\ UNCHANGED <<relations, served, complete, rawClaims, result>>
    BY <1>14 DEF CalculateUser
  <2>2. Confirmed' = Confirmed /\ ConfirmedAddresses' = ConfirmedAddresses
    BY <2>1 DEF Confirmed, ConfirmedAddresses
  <2>3. CompleteOrNothing' /\ OutcomeMatchesListing'
    BY <2>1, <2>2 DEF ListingInv, CompleteOrNothing, OutcomeMatchesListing
  <2> DEFINE groups == IF result.groups = <<>> THEN rawClaims ELSE ToSet(result.groups)
  <2>4. groups \subseteq ConfirmedAddresses /\ ToSet(result.groups) \subseteq ConfirmedAddresses
    <3>1. ToSet(<<>>) = {}
      BY DEF ToSet
    <3> QED BY <1>3, <2>1, <3>1 DEF ListingInv, CompleteOrNothing
  <2>5. result.failure # None => groups = {} /\ ToSet(result.groups) = {}
    <3>1. ToSet(<<>>) = {}
      BY DEF ToSet
    <3> QED BY <1>3, <2>1, <3>1 DEF ListingInv, CompleteOrNothing
  <2>6. pc' = "user" => roles' = RolesFor(groups) /\ roles' # {} /\ groupTrait' = ToSet(result.groups)
    BY <1>14 DEF CalculateUser, GroupTrait
  <2> HIDE DEF groups
  <2>7. RolesFor(groups) \subseteq (Confirmed \cap Mapped) \cup {"email"}
    BY <2>4 DEF RolesFor, ConfirmedAddresses, Lower
  <2>8. groups = {} => RolesFor(groups) \subseteq {"email"}
    BY DEF RolesFor
  <2>9. OnlyConfirmedGroupsCount'
    BY <2>1, <2>2, <2>4, <2>5, <2>6, <2>7, <2>8 DEF OnlyConfirmedGroupsCount
  <2> QED BY <1>3, <2>1, <2>3, <2>9 DEF ListingInv
<1>15. CASE CalculateUserFails
  <2>1. /\ pc = "calculate" /\ pc' = "denied"
        /\ UNCHANGED <<relations, served, complete, rawClaims, result>>
    BY <1>15 DEF CalculateUserFails
  <2>2. Confirmed' = Confirmed /\ ConfirmedAddresses' = ConfirmedAddresses
    BY <2>1 DEF Confirmed, ConfirmedAddresses
  <2> QED BY <1>3, <2>1, <2>2 DEF ListingInv, CompleteOrNothing, OutcomeMatchesListing,
                                  OnlyConfirmedGroupsCount
<1> QED BY <1>5, <1>6, <1>7, <1>9, <1>10, <1>11, <1>12, <1>13, <1>14, <1>15 DEF Next, Aborted

\* Nothing is listed initially.
LEMMA ListingInit == Init => ListingInv
BY NoneIsNoOutcome DEF Init, NoResult, ListingInv, CompleteOrNothing, OutcomeMatchesListing,
       OnlyConfirmedGroupsCount

\* For listings of any length and pages of any size, lookupGroups returns exactly
\* the groups of a complete listing that pass the gates of gateRelations, each
\* once, or no group at all.
THEOREM FailsClosed == Spec => []CompleteOrNothing
<1>1. ListingInv => CompleteOrNothing
  BY DEF ListingInv
<1> QED BY <1>1, BudgetInit, BudgetStep, TypeInit, TypeStep, ListingInit, ListingStep, PTL DEF Spec

\* The outcome gateRelations reports to the audit log tells an empty listing,
\* dropped relations and foreign namespaces apart, for every listing.
THEOREM OutcomesTrue == Spec => []OutcomeMatchesListing
<1>1. ListingInv => OutcomeMatchesListing
  BY DEF ListingInv
<1> QED BY <1>1, BudgetInit, BudgetStep, TypeInit, TypeStep, ListingInit, ListingStep, PTL DEF Spec

\* Only groups that Google has confirmed in a complete listing reach the roles
\* and the groups trait that calculateUser gives to a user.
THEOREM OnlyConfirmedGroups == Spec => []OnlyConfirmedGroupsCount
<1>1. ListingInv => OnlyConfirmedGroupsCount
  BY DEF ListingInv
<1> QED BY <1>1, BudgetInit, BudgetStep, TypeInit, TypeStep, ListingInit, ListingStep, PTL DEF Spec
================================================================================
