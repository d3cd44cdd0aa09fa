------------------------------ MODULE GroupLookup ------------------------------
(***************************************************************************)
(* The group lookup of one login (lib/googleoidc/groups.go) and what       *)
(* calculateUser makes of it: pages of group relations are read from Cloud *)
(* Identity under a byte budget, a page limit, a relation limit and a      *)
(* timeout, gated, and turned into roles and the groups trait of the user. *)
(*                                                                         *)
(* Cloud Identity is the environment: any page, any body length, any error *)
(* or no answer at all. The lookup runs beside the timer of its context    *)
(* and beside a browser that may go away.                                  *)
(***************************************************************************)
EXTENDS Naturals, Sequences, SequencesExt

CONSTANTS
    Groups,             \* group addresses, up to the case of their letters
    Relations,          \* the relations Google may return
    Malformed,          \* groups whose address fails validGroupAddress
    Foreign,            \* groups outside the Workspace domains of the connector
    Mapped,             \* groups the connector maps to roles
    MaxPages,           \* groupLookupMaxPages
    MaxRelations,       \* groupLookupMaxRelations
    MaxBytes,           \* groupLookupMaxBytes
    MaxPageRelations,   \* bound on the relations of one response
    None

\* An address as it is spelled. The domains and the role mappings of a connector
\* are compared with lower-cased addresses.
Spellings == {"lower", "mixed"}
Addresses == [group : Groups, spelling : Spellings]

ASSUME RelationShape ==
    Relations \subseteq [id : Addresses, namespace : BOOLEAN, discussionForum : BOOLEAN]
ASSUME LimitsPositive ==
    MaxPages \in Nat \ {0} /\ MaxRelations \in Nat /\ MaxBytes \in Nat
ASSUME PageBoundNat == MaxPageRelations \in Nat

VARIABLES
    pc,         \* where the callback is
    ctx,        \* the context of the lookup
    page,       \* the requests sent so far
    relations,  \* searchGroups' relations
    remaining,  \* byteBudget.remaining
    gated,      \* the loop of gateRelations: relations done, groups, rejections
    result,     \* groupLookupResult
    rawClaims,  \* the groups claim of the login, a set of addresses
    emailRole,  \* whether a mapping of the email claim grants a role
    roles,      \* roles of the user: a group, or "email"
    groupTrait, \* the groups trait of the user
    served,     \* history: the relations Google returned
    complete,   \* history: Google has returned its last page
    buffered    \* history: bytes of response bodies held in memory

vars == <<pc, ctx, page, relations, remaining, gated, result, rawClaims, emailRole, roles,
          groupTrait, served, complete, buffered>>

\* gateRelations before its first relation
Ungated == [done |-> 0, groups |-> <<>>, rejected |-> {}]

NoResult == [groups |-> <<>>, outcome |-> None, failure |-> None]
Outcomes == {"succeeded", "no_groups_visible", "filtered", "namespace_rejected"}
ASSUME NoneIsNoOutcome == None \notin Outcomes

\* classifyGroupFailure: what searchGroups returned, as an audit class. A 403 is
\* split by the reason Google gave.
Failures ==
    [budget |-> "response_too_large", pageLimit |-> "page_limit_exceeded",
     relationLimit |-> "relation_limit_exceeded", body |-> "invalid_response",
     json |-> "invalid_response", redirect |-> "request_failed",
     deadline |-> "timeout", canceled |-> "canceled",
     unauthorized |-> "unauthenticated", scope |-> "insufficient_scope",
     licence |-> "unsupported_edition", apiOff |-> "api_not_enabled",
     forbidden |-> "permission_denied", tooMany |-> "rate_limited",
     server |-> "unavailable", other |-> "request_failed"]
\* The errors a response Google has answered in full may carry.
ResponseErrors == {"body", "json", "redirect", "unauthorized", "scope", "licence",
                   "apiOff", "forbidden", "tooMany", "server", "other"}

\* Pages: at most MaxPageRelations relations, and whether a token for more follows.
Pages == [relations : UNION {[1 .. n -> Relations] : n \in 0 .. MaxPageRelations},
          more : BOOLEAN]

Init ==
    /\ pc = "claims"
    /\ ctx = "live"
    /\ page = 0
    /\ relations = <<>>
    /\ remaining = MaxBytes
    /\ gated = Ungated
    /\ result = NoResult
    /\ rawClaims \in {{}, Addresses}    \* a token may carry a groups claim
    /\ emailRole \in BOOLEAN
    /\ roles = {}
    /\ groupTrait = {}
    /\ served = <<>>
    /\ complete = FALSE
    /\ buffered = 0

-------------------------------------------------------------------------------
(* The environment: the timer of context.WithTimeout, and the browser *)

Searching == pc \in {"search", "waiting"}

Expire_Never ==
    /\ Searching /\ ctx = "live" /\ FALSE
    /\ ctx' = "deadline"
    /\ UNCHANGED <<pc, page, relations, remaining, result, rawClaims, gated, emailRole, roles,
                   groupTrait, served, complete, buffered>>

\* groupLookupTimeout has passed.
Expire ==
    /\ Searching /\ ctx = "live"
    /\ ctx' = "deadline"
    /\ UNCHANGED <<pc, page, relations, remaining, result, rawClaims, gated, emailRole, roles,
                   groupTrait, served, complete, buffered>>

Cancel ==
    /\ Searching /\ ctx = "live"
    /\ ctx' = "canceled"
    /\ UNCHANGED <<pc, page, relations, remaining, result, rawClaims, gated, emailRole, roles,
                   groupTrait, served, complete, buffered>>

-------------------------------------------------------------------------------
(* lookupGroups and searchGroups *)

ClaimsWithoutGroups_Kept(claims) == claims

\* validateCallback deletes the groups claim of the token.
ClaimsWithoutGroups(claims) == {}

\* Not enabled: no lookup. Enabled: lookupGroups, which asks nothing of Google
\* without an access token.
Begin(enabled, hasToken) ==
    /\ pc = "claims"
    /\ rawClaims' = ClaimsWithoutGroups(rawClaims)
    /\ pc' = IF enabled /\ hasToken THEN "search" ELSE "calculate"
    /\ result' = IF enabled /\ ~hasToken
                 THEN [NoResult EXCEPT !.failure = "request_failed"] ELSE result
    /\ UNCHANGED <<ctx, page, relations, remaining, gated, emailRole, roles, groupTrait,
                   served, complete, buffered>>

\* The HTTP client reports the error of a context that is done before any other;
\* lookupGroups turns an error of searchGroups into a result without groups.
Fail(error) ==
    /\ result' = [NoResult EXCEPT !.failure =
                    Failures[IF ctx = "live" THEN error ELSE ctx]]
    /\ pc' = "calculate"

SendRequest ==
    /\ pc = "search"
    /\ \/ /\ ctx = "live"
          /\ page' = page + 1
          /\ pc' = "waiting"
          /\ UNCHANGED result
       \/ /\ ctx # "live"
          /\ Fail(ctx)
          /\ UNCHANGED page
    /\ UNCHANGED <<ctx, relations, remaining, rawClaims, gated, emailRole, roles, groupTrait,
                   served, complete, buffered>>

\* No answer, or a body that breaks off: what was read until then is dropped.
ReadFails(read) ==
    /\ pc = "waiting"
    /\ buffered' = buffered + read
    /\ Fail("body")
    /\ UNCHANGED <<ctx, page, relations, remaining, rawClaims, gated, emailRole, roles,
                   groupTrait, served, complete>>

\* The request ends when its context does.
Aborted == ctx # "live" /\ ReadFails(0)

ReadLimit_PerResponse == MaxBytes + 1

\* io.LimitReader: one byte more than the budget has left.
ReadLimit == remaining + 1

\* byteBudget.consume
Consume(read) ==
    IF read > remaining THEN [ok |-> FALSE, remaining |-> 0]
    ELSE [ok |-> TRUE, remaining |-> remaining - read]

AddPage(p) == relations \o p.relations

\* The body of an answer has been read and does not fit the budget.
ResponseTooLarge(read) ==
    /\ pc = "waiting"
    /\ ~Consume(read).ok
    /\ remaining' = Consume(read).remaining
    /\ buffered' = buffered + read
    /\ Fail("budget")
    /\ UNCHANGED <<ctx, page, relations, rawClaims, gated, emailRole, roles, groupTrait,
                   served, complete>>

\* An error status, a redirect, or a body that is no list of relations.
ResponseFails(read, error) ==
    /\ pc = "waiting"
    /\ Consume(read).ok
    /\ remaining' = Consume(read).remaining
    /\ buffered' = buffered + read
    /\ Fail(error)
    /\ UNCHANGED <<ctx, page, relations, rawClaims, gated, emailRole, roles, groupTrait,
                   served, complete>>

LastPage_OffByOne == page = MaxPages + 1

LastPage == page = MaxPages

PageOutcome_AcceptPartial(p) ==
    IF Len(AddPage(p)) > MaxRelations THEN "relationLimit"
    ELSE IF ~p.more \/ LastPage THEN "gate"
    ELSE "search"

\* What searchGroups does after a page, in the order of its checks.
PageOutcome(p) ==
    IF Len(AddPage(p)) > MaxRelations THEN "relationLimit"
    ELSE IF ~p.more THEN "gate"
    ELSE IF LastPage THEN "pageLimit"
    ELSE "search"

PageRead(read, p) ==
    /\ pc = "waiting"
    /\ Consume(read).ok
    /\ remaining' = Consume(read).remaining
    /\ buffered' = buffered + read
    /\ relations' = AddPage(p)
    /\ served' = served \o p.relations
    /\ complete' = ~p.more
    /\ \/ /\ PageOutcome(p) \in {"gate", "search"}
          /\ pc' = PageOutcome(p)
          /\ UNCHANGED result
       \/ /\ PageOutcome(p) \in {"relationLimit", "pageLimit"}
          \* found after the request, so the context does not matter
          /\ result' = [NoResult EXCEPT !.failure = Failures[PageOutcome(p)]]
          /\ pc' = "calculate"
    /\ UNCHANGED <<ctx, page, rawClaims, gated, emailRole, roles, groupTrait>>

Response ==
    \E read \in 0 .. ReadLimit :
        \/ ReadFails(read)
        \/ ResponseTooLarge(read)
        \/ \E error \in ResponseErrors : ResponseFails(read, error)
        \/ \E p \in Pages : PageRead(read, p)

-------------------------------------------------------------------------------
(* gateRelations *)

\* strings.ToLower
ToLower(id) == [id EXCEPT !.spelling = "lower"]

Gates == {"namespace", "label", "syntax", "domain"}

\* The first gate a relation fails, in the order of gateRelations' checks.
Gate(r) ==
    IF r.namespace THEN "namespace"
    ELSE IF ~r.discussionForum THEN "label"
    ELSE IF r.id.group \in Malformed THEN "syntax"
    ELSE IF ToLower(r.id).group \in Foreign THEN "domain"
    ELSE "passed"

\* One relation: counted by the gate that drops it, or added under its
\* lower-cased address unless that address is there already.
GateRelation(g, r) ==
    [done |-> g.done + 1,
     groups |-> IF Gate(r) = "passed" /\ ToLower(r.id) \notin ToSet(g.groups)
                THEN Append(g.groups, ToLower(r.id)) ELSE g.groups,
     rejected |-> IF Gate(r) = "passed" THEN g.rejected ELSE g.rejected \cup {Gate(r)}]

\* One pass of the loop
GateNext ==
    /\ pc = "gate"
    /\ gated.done < Len(relations)
    /\ gated' = GateRelation(gated, relations[gated.done + 1])
    /\ UNCHANGED <<pc, ctx, page, relations, remaining, result, rawClaims, emailRole,
                   roles, groupTrait, served, complete, buffered>>

OutcomeOf_EmptyFirst ==
    IF gated.groups = <<>> THEN "no_groups_visible"
    ELSE IF "namespace" \in gated.rejected THEN "namespace_rejected"
    ELSE IF gated.rejected # {} THEN "filtered"
    ELSE "succeeded"

OutcomeOf ==
    IF "namespace" \in gated.rejected THEN "namespace_rejected"
    ELSE IF gated.rejected # {} THEN "filtered"
    ELSE IF relations = <<>> THEN "no_groups_visible"
    ELSE "succeeded"

\* gateRelations returns.
GateRelations ==
    /\ pc = "gate"
    /\ gated.done = Len(relations)
    /\ result' = [groups |-> gated.groups, outcome |-> OutcomeOf, failure |-> None]
    /\ pc' = "calculate"
    /\ UNCHANGED <<ctx, page, relations, remaining, gated, rawClaims, emailRole, roles,
                   groupTrait, served, complete, buffered>>

-------------------------------------------------------------------------------
(* calculateUser *)

\* TraitsToRoles: the mappings of the email and of the groups claim. A value
\* that matches a mapping only up to case earns a warning and no role.
RolesFor(groups) ==
    {g \in Mapped : [group |-> g, spelling |-> "lower"] \in groups}
        \cup (IF emailRole THEN {"email"} ELSE {})

\* A login rule may rewrite every trait; the groups trait is set back.
GroupTrait(ruleGroups) == ToSet(result.groups)

CalculateUser(ruleGroups) ==
    /\ pc = "calculate"
    /\ LET groups == IF result.groups = <<>> THEN rawClaims ELSE ToSet(result.groups) IN
       \/ /\ RolesFor(groups) # {}
          /\ roles' = RolesFor(groups)
          /\ groupTrait' = GroupTrait(ruleGroups)
          /\ pc' = "user"
       \/ /\ RolesFor(groups) = {}
          /\ pc' = "denied"
          /\ UNCHANGED <<roles, groupTrait>>
    /\ UNCHANGED <<ctx, page, relations, remaining, result, rawClaims, gated, emailRole,
                   served, complete, buffered>>

\* usernameFromClaims, the login rules or FetchRoles fail.
CalculateUserFails ==
    /\ pc = "calculate"
    /\ pc' = "denied"
    /\ UNCHANGED <<ctx, page, relations, remaining, result, rawClaims, gated, emailRole, roles,
                   groupTrait, served, complete, buffered>>

\* The callback has ended.
Ended == pc \in {"user", "denied"} /\ UNCHANGED vars

-------------------------------------------------------------------------------

Next ==
    \/ Expire \/ Cancel
    \/ \E enabled, hasToken \in BOOLEAN : Begin(enabled, hasToken)
    \/ SendRequest \/ Aborted \/ Response \/ GateNext \/ GateRelations
    \/ \E ruleGroups \in {{}, Addresses} : CalculateUser(ruleGroups)
    \/ CalculateUserFails \/ Ended

Lookup == SendRequest \/ Aborted \/ GateNext \/ GateRelations

\* The timer of the context fires, and the goroutine of the lookup runs. Google
\* may stay silent for ever.
Fairness ==
    /\ WF_vars(Expire)
    /\ WF_vars(Lookup)
    /\ WF_vars(\E enabled, hasToken \in BOOLEAN : Begin(enabled, hasToken))
    /\ WF_vars(\E ruleGroups \in {{}, Addresses} : CalculateUser(ruleGroups))

Spec == Init /\ [][Next]_vars
FairSpec == Spec /\ Fairness

-------------------------------------------------------------------------------
(* Properties *)

\* The locals of the lookup and its result keep their types.
TypeOK ==
    /\ pc \in {"claims", "search", "waiting", "gate", "calculate", "user", "denied"}
    /\ ctx \in {"live", "deadline", "canceled"}
    /\ page \in 0 .. MaxPages
    /\ relations \in Seq(Relations)
    /\ remaining \in 0 .. MaxBytes
    /\ gated \in [done : 0 .. MaxRelations, groups : Seq(Addresses), rejected : SUBSET Gates]
    /\ result \in [groups : Seq(Addresses), outcome : Outcomes \cup {None},
                   failure : {Failures[e] : e \in DOMAIN Failures} \cup {None}]
    /\ rawClaims \subseteq Addresses
    /\ emailRole \in BOOLEAN
    /\ roles \subseteq Groups \cup {"email"}
    /\ groupTrait \subseteq Addresses
    /\ served \in Seq(Relations)
    /\ complete \in BOOLEAN
    /\ buffered \in Nat

\* The budget is one for the whole lookup: however many pages are read and
\* wherever a read breaks off, all bodies together hold at most one byte more.
BufferBounded == buffered <= MaxBytes + 1

\* A Google group of Google's own namespace, well-formed, in a Workspace domain.
Passes(r) ==
    ~r.namespace /\ r.discussionForum /\ r.id.group \notin Malformed \cup Foreign

\* The groups Google confirms, once its listing is complete.
Confirmed ==
    IF complete THEN {r.id.group : r \in {q \in ToSet(served) : Passes(q)}} ELSE {}

\* The addresses of groups as a trait holds them
Lower(groups) == {[group |-> g, spelling |-> "lower"] : g \in groups}

ConfirmedAddresses == Lower(Confirmed)

\* lookupGroups fails closed: a result without a failure holds exactly the
\* groups of the complete listing, each once; a part of a listing grants nothing.
CompleteOrNothing ==
    /\ result.outcome # None => /\ complete
                                /\ ToSet(result.groups) = ConfirmedAddresses
                                /\ Len(result.groups) = Cardinality(Confirmed)
    /\ result.outcome = None => result.groups = <<>>

\* The class in the audit log tells an operator the truth about the listing:
\* an empty tenant, dropped relations and foreign namespaces are told apart.
OutcomeMatchesListing ==
    result.outcome # None =>
        LET external == \E r \in ToSet(served) : r.namespace
            dropped == \E r \in ToSet(served) : ~Passes(r)
        IN /\ result.outcome = "no_groups_visible" <=> served = <<>>
           /\ result.outcome = "namespace_rejected" <=> external
           /\ result.outcome = "filtered" <=> dropped /\ ~external

\* A user carries a groups trait, and roles of group mappings, only for groups
\* Google has confirmed in a complete listing: neither a groups claim in the
\* token nor a login rule adds one.
OnlyConfirmedGroupsCount ==
    pc = "user" => /\ groupTrait \subseteq ConfirmedAddresses
                   /\ roles \subseteq (Confirmed \cap Mapped) \cup {"email"}
                   /\ result.failure # None => groupTrait = {} /\ roles = {"email"}

\* The callback comes to an end although Google never answers.
LookupEnds == <>(pc \in {"user", "denied"})
================================================================================
