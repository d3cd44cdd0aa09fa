------------------------------- MODULE OIDCLogin -------------------------------
(***************************************************************************)
(* The Google Workspace login of lib/googleoidc: createAuthRequest stores  *)
(* the secrets of a login in the cluster backend, Google asks a person for *)
(* consent, and any number of callbacks, racing on any number of Auth      *)
(* Service goroutines, run validateCallback on a state token and a code.   *)
(*                                                                         *)
(* Every access to the backend, and every call to Google, is a step of its *)
(* own: time passes and other callbacks run between two of them.  A        *)
(* backend item is represented by its expiry time, 0 when there is none.   *)
(***************************************************************************)
EXTENDS Naturals

CONSTANTS
    States,         \* state tokens: one for each login that is ever started
    Callbacks,      \* callback requests that ever reach the Auth Service
    Browsers,
    Accounts,       \* Google accounts
    Domains,        \* Google Workspace domains
    HostedDomain,   \* the hd claim of an account, None for a personal one
    EmailDomain,    \* the domain of the email claim of an account
    TTL,            \* defaults.OIDCAuthRequestTTL
    MaxTime,        \* bound on the clock
    None

ASSUME TTLPositive == TTL \in Nat \ {0}
ASSUME MaxTimeNat == MaxTime \in Nat
ASSUME NoneFresh == None \notin Callbacks \cup Domains

VARIABLES
    now,        \* the clock of the cluster
    phase,      \* how far createAuthRequest got for each state token
    request,    \* the OIDCAuthRequest of each login, with its nonce
    nonceExp,   \* expiry of the "nonce" item of each state token
    reqExp,     \* expiry of the stored auth request
    usedExp,    \* expiry of the "used" marker
    allowed,    \* domain allow-list of the connector, {} when it is deleted
    grants,     \* authorization codes Google has issued
    spent,      \* codes Google has exchanged for tokens
    pc,         \* where each callback is in validateCallback
    cb,         \* what each callback carries and has read so far
    sessions,   \* credentials the Auth Service has issued
    cookies,    \* web sessions a browser holds
    consents,   \* history: which account consented to which login
    winner,     \* history: the first callback to write a state's used marker
    sent,       \* history: the callbacks that presented a code to Google
    offered     \* history: domains allowed at some time since the lookup

store == <<nonceExp, reqExp, usedExp>>
google == <<grants, spent>>
history == <<consents, winner, sent, offered>>
issued == <<sessions, cookies>>
callback == <<pc, cb>>
vars == <<now, phase, request, store, allowed, google, callback, issued, history>>

-------------------------------------------------------------------------------
(* Data *)

\* The two login modes createAuthRequest lets through.  The SSO test flow is
\* refused for every connector spec: the connector it builds has no labels,
\* and so no domain allow-list.
Modes == {"web", "console"}

Requests == [browser : Browsers, mode : Modes, nonce : States,
             verifier : States, hint : SUBSET Domains]

\* A code stands for what Google remembers about it: who consented, and the
\* PKCE challenge and the nonce of the authorization URL.
Codes == [account : Accounts, challenge : States, nonce : States]

\* None is a code Google never issued.
Callback == [state : States, code : Codes \cup {None}, browser : Browsers,
             domains : SUBSET Domains]

Phases == {"new", "nonced", "open", "failed"}

\* Where a callback can be.  "found" to "identified" are points inside
\* validateCallback, "issued" is before the login event, "answered" is in the
\* proxy's finishCallback.
Running == {"found", "claimed", "resolved", "ready", "exchanged",
            "identified", "issued", "answered"}

NewRequestSecrets_Shared(s) ==
    LET k == CHOOSE x \in States : TRUE IN [nonce |-> k, verifier |-> k]

\* newRequestSecrets: fresh random values, so those of two logins differ.
NewRequestSecrets(s) == [nonce |-> s, verifier |-> s]

\* Backend.Get and Backend.Create see an item iff it has not expired.
Live(exp) == now < exp

Expiry_SignSlip == now - TTL

\* The expiry every item of a login is written with.
Expiry == now + TTL

Init ==
    /\ now = 0
    /\ phase = [s \in States |-> "new"]
    /\ request = [s \in States |-> None]
    /\ nonceExp = [s \in States |-> 0]
    /\ reqExp = [s \in States |-> 0]
    /\ usedExp = [s \in States |-> 0]
    /\ allowed \in SUBSET Domains
    /\ grants = {}
    /\ spent = {}
    /\ pc = [p \in Callbacks |-> "idle"]
    /\ cb = [p \in Callbacks |-> None]
    /\ sessions = {}
    /\ cookies = {}
    /\ consents = {}
    /\ winner = [s \in States |-> None]
    /\ sent = {}
    /\ offered = [p \in Callbacks |-> {}]

-------------------------------------------------------------------------------
(* Environment: the clock, the administrator of the connector, Google *)

Tick ==
    /\ now < MaxTime
    /\ now' = now + 1
    /\ UNCHANGED <<phase, request, store, allowed, google, callback, issued, history>>

\* Create, update, upsert (ds # {}) or delete (ds = {}) the connector.
\* ValidateConnector refuses one without an allow-list.
SetConnector(ds) ==
    /\ ds # allowed
    /\ allowed' = ds
    /\ offered' = [p \in Callbacks |->
                      IF pc[p] \in Running THEN offered[p] \cup ds ELSE offered[p]]
    /\ UNCHANGED <<now, phase, request, store, google, callback, issued,
                   consents, winner, sent>>

\* Google shows the authorization URL of login s to whoever opens it, and
\* issues a code when account a consents.
Consent(s, a) ==
    /\ phase[s] = "open"
    /\ LET code == [account |-> a, challenge |-> request[s].verifier,
                    nonce |-> request[s].nonce]
       IN  /\ code \notin grants
           /\ grants' = grants \cup {code}
    /\ consents' = consents \cup {[state |-> s, account |-> a]}
    /\ UNCHANGED <<now, phase, request, store, allowed, spent, callback, issued,
                   winner, sent, offered>>

-------------------------------------------------------------------------------
(* createAuthRequest *)

\* Up to and including PutNonce.  The connector is only needed to exist: its
\* domains go into the authorization URL as a hint.
PutNonce(s, b, m) ==
    /\ phase[s] = "new"
    /\ allowed # {}
    /\ ~Live(nonceExp[s])
    /\ phase' = [phase EXCEPT ![s] = "nonced"]
    /\ request' = [request EXCEPT ![s] =
                     [browser |-> b, mode |-> m, hint |-> allowed,
                      nonce |-> NewRequestSecrets(s).nonce,
                      verifier |-> NewRequestSecrets(s).verifier]]
    /\ nonceExp' = [nonceExp EXCEPT ![s] = Expiry]
    /\ UNCHANGED <<now, reqExp, usedExp, allowed, google, callback, issued, history>>

\* Services.CreateOIDCAuthRequest; the browser is redirected to Google.
CreateOIDCAuthRequest(s) ==
    /\ phase[s] = "nonced"
    /\ ~Live(reqExp[s])
    /\ phase' = [phase EXCEPT ![s] = "open"]
    /\ reqExp' = [reqExp EXCEPT ![s] = Expiry]
    /\ UNCHANGED <<now, request, nonceExp, usedExp, allowed, google, callback,
                   issued, history>>

\* The second write fails, or the process dies before it: the nonce stays.
CreateOIDCAuthRequestFails(s) ==
    /\ phase[s] = "nonced"
    /\ phase' = [phase EXCEPT ![s] = "failed"]
    /\ UNCHANGED <<now, request, store, allowed, google, callback, issued, history>>

-------------------------------------------------------------------------------
(* validateCallback *)

\* Return from validateCallback with an error, whose class only the login event
\* tells, if it can be emitted.
Fail(p) ==
    /\ pc' = [pc EXCEPT ![p] = "done"]
    /\ UNCHANGED issued

\* A callback that only reads or calls Google leaves all of this alone.
Quiet == UNCHANGED <<now, phase, request, store, allowed, google, history>>

\* A callback is refused before any claim: it has no code, or an error from Google,
\* its state token has no live request, or the lookup fails.
RejectCallback(p) ==
    /\ pc[p] = "idle"
    /\ Fail(p)
    /\ Quiet
    /\ UNCHANGED cb

\* GetOIDCAuthRequest: a callback with state token s and some code, sent by
\* browser b.  The route is unauthenticated, so the two need not belong together.
GetOIDCAuthRequest(p, s, code, b) ==
    /\ pc[p] = "idle"
    /\ Live(reqExp[s])
    /\ pc' = [pc EXCEPT ![p] = "found"]
    /\ cb' = [cb EXCEPT ![p] = [state |-> s, code |-> code, browser |-> b,
                                domains |-> {}]]
    /\ offered' = [offered EXCEPT ![p] = allowed]
    /\ UNCHANGED <<now, phase, request, store, allowed, google, issued,
                   consents, winner, sent>>

WriteUsed_ShortTTL(p) ==
    LET s == cb[p].state IN
    /\ usedExp' = [usedExp EXCEPT ![s] = now + 1]
    /\ winner' = [winner EXCEPT ![s] = IF @ = None THEN p ELSE @]

\* The marker is written: its expiry, and who was first.
WriteUsed(p) ==
    LET s == cb[p].state IN
    /\ usedExp' = [usedExp EXCEPT ![s] = Expiry]
    /\ winner' = [winner EXCEPT ![s] = IF @ = None THEN p ELSE @]

\* StateStore.Claim is one atomic Create.
Claim(p) ==
    /\ pc[p] = "found"
    /\ ~Live(usedExp[cb[p].state])
    /\ WriteUsed(p)
    /\ pc' = [pc EXCEPT ![p] = "claimed"]
    /\ UNCHANGED <<now, phase, request, nonceExp, reqExp, allowed, google, cb, issued, consents, sent, offered>>

ClaimReplayed(p) ==
    /\ pc[p] = "found"
    /\ Live(usedExp[cb[p].state])
    /\ Fail(p)
    /\ Quiet
    /\ UNCHANGED cb

\* The backend reports another error; the marker may have been written or not.
ClaimFails(p) ==
    /\ pc[p] = "found"
    /\ \/ UNCHANGED <<usedExp, winner>>
       \/ /\ ~Live(usedExp[cb[p].state])
          /\ WriteUsed(p)
    /\ Fail(p)
    /\ UNCHANGED <<now, phase, request, nonceExp, reqExp, allowed, google, cb,
                   consents, sent, offered>>

ResolvedDomains_AtStart(p) == request[cb[p].state].hint

\* getConnector and WorkspaceDomains: read again from the backend, never taken
\* from the login's start.
ResolvedDomains(p) == allowed

GetConnector(p) ==
    /\ pc[p] = "claimed"
    /\ ResolvedDomains(p) # {}
    /\ pc' = [pc EXCEPT ![p] = "resolved"]
    /\ cb' = [cb EXCEPT ![p].domains = ResolvedDomains(p)]
    /\ UNCHANGED issued
    /\ Quiet

GetConnectorFails(p) ==
    /\ pc[p] = "claimed"
    /\ Fail(p)
    /\ Quiet
    /\ UNCHANGED cb

\* StateStore.Nonce.
Nonce(p) ==
    /\ pc[p] = "resolved"
    /\ Live(nonceExp[cb[p].state])
    /\ pc' = [pc EXCEPT ![p] = "ready"]
    /\ UNCHANGED <<cb, issued>>
    /\ Quiet

NonceFails(p) ==
    /\ pc[p] = "resolved"
    /\ Fail(p)
    /\ Quiet
    /\ UNCHANGED cb

\* RedirectURLForProxy refuses the connector's URL, or discovery fails.
ProviderConfigFails(p) ==
    /\ pc[p] = "ready"
    /\ Fail(p)
    /\ Quiet
    /\ UNCHANGED cb

\* Google accepts a code once, from whoever knows the verifier of its challenge.
Redeemable(code, verifier) ==
    /\ code \in grants \ spent
    /\ code.challenge = verifier

\* config.Exchange: the code is presented with the verifier of the request.
Exchange(p) ==
    /\ pc[p] = "ready"
    /\ Redeemable(cb[p].code, request[cb[p].state].verifier)
    /\ spent' = spent \cup {cb[p].code}
    /\ sent' = sent \cup {p}
    /\ pc' = [pc EXCEPT ![p] = "exchanged"]
    /\ UNCHANGED <<now, phase, request, store, allowed, grants, cb,
                   issued, consents, winner, offered>>

\* Google refuses, or the call times out: the code may be spent all the same.
ExchangeFails(p) ==
    /\ pc[p] = "ready"
    /\ sent' = sent \cup {p}
    /\ \/ spent' = spent
       \/ /\ Redeemable(cb[p].code, request[cb[p].state].verifier)
          /\ spent' = spent \cup {cb[p].code}
    /\ Fail(p)
    /\ UNCHANGED <<now, phase, request, store, allowed, grants, cb, consents,
                   winner, offered>>

\* CheckHostedDomain and CheckEmailDomain: both domains are allow-listed.
CheckIdentityClaims(a, domains) ==
    /\ HostedDomain[a] \in domains
    /\ EmailDomain[a] \in domains

\* ValidateToken with the stored nonce, then checkIdentityClaims.
ValidateToken(p) ==
    /\ pc[p] = "exchanged"
    /\ cb[p].code.nonce = request[cb[p].state].nonce
    /\ CheckIdentityClaims(cb[p].code.account, cb[p].domains)
    /\ pc' = [pc EXCEPT ![p] = "identified"]
    /\ UNCHANGED <<cb, issued>>
    /\ Quiet

\* A bad token, a claim that is missing or out of time, or a domain gate.
ValidateTokenFails(p) ==
    /\ pc[p] = "exchanged"
    /\ Fail(p)
    /\ Quiet
    /\ UNCHANGED cb

\* calculateUser, createUser (module UserBinding), the login hooks, and
\* makeAuthResponse, which creates the web session or the certificates.
MakeAuthResponse(p) ==
    /\ pc[p] = "identified"
    /\ sessions' = sessions \cup {[state |-> cb[p].state, callback |-> p,
                                   account |-> cb[p].code.account]}
    /\ pc' = [pc EXCEPT ![p] = "issued"]
    /\ UNCHANGED <<cb, cookies>>
    /\ Quiet

MakeAuthResponseFails(p) ==
    /\ pc[p] = "identified"
    /\ Fail(p)
    /\ Quiet
    /\ UNCHANGED cb

\* ValidateOIDCAuthCallback returns to the proxy, whether the success event could
\* be emitted or not.
EmitLoginEvent(p) ==
    /\ pc[p] = "issued"
    /\ pc' = [pc EXCEPT ![p] = "answered"]
    /\ UNCHANGED <<cb, issued>>
    /\ Quiet

VerifyToken_Off(p) == TRUE

\* SSOSetWebSessionAndRedirectURL compares the CSRF token of the login with
\* the cookie of the browser that sent the callback.
VerifyToken(p) == request[cb[p].state].browser = cb[p].browser

\* The proxy's finishCallback.  A web login sets the session cookie before it
\* checks the redirect URL; a console login answers through that URL.
FinishCallback(p) ==
    /\ pc[p] = "answered"
    /\ pc' = [pc EXCEPT ![p] = "done"]
    /\ \/ /\ request[cb[p].state].mode = "web"
          /\ VerifyToken(p)
          /\ cookies' = cookies \cup {[browser |-> cb[p].browser, callback |-> p]}
       \/ /\ request[cb[p].state].mode = "web" => ~VerifyToken(p)
          /\ UNCHANGED cookies
    /\ UNCHANGED <<cb, sessions>>
    /\ Quiet

\* The Auth Service process dies or the request is cancelled, between any two
\* steps.
Crash(p) ==
    /\ pc[p] \in Running
    /\ Fail(p)
    /\ Quiet
    /\ UNCHANGED cb

-------------------------------------------------------------------------------

\* One step of callback p inside the Auth Service or the proxy.
Step(p) ==
    \/ Claim(p) \/ ClaimReplayed(p) \/ ClaimFails(p)
    \/ GetConnector(p) \/ GetConnectorFails(p)
    \/ Nonce(p) \/ NonceFails(p)
    \/ ProviderConfigFails(p) \/ Exchange(p) \/ ExchangeFails(p)
    \/ ValidateToken(p) \/ ValidateTokenFails(p)
    \/ MakeAuthResponse(p) \/ MakeAuthResponseFails(p)
    \/ EmitLoginEvent(p) \/ FinishCallback(p)

Login(s) ==
    \/ \E b \in Browsers, m \in Modes : PutNonce(s, b, m)
    \/ CreateOIDCAuthRequest(s)
    \/ CreateOIDCAuthRequestFails(s)
    \/ \E a \in Accounts : Consent(s, a)

Receive(p) ==
    \/ RejectCallback(p)
    \/ \E s \in States, code \in grants \cup {None}, b \in Browsers :
          GetOIDCAuthRequest(p, s, code, b)

Next ==
    \/ Tick
    \/ \E ds \in SUBSET Domains : SetConnector(ds)
    \/ \E s \in States : Login(s)
    \/ \E p \in Callbacks : Receive(p) \/ Step(p) \/ Crash(p)

Spec == Init /\ [][Next]_vars

-------------------------------------------------------------------------------
(* Properties *)

\* The shape of every variable: what createAuthRequest stores and what
\* validateCallback keeps in its locals.
TypeOK ==
    /\ now \in Nat
    /\ phase \in [States -> Phases]
    /\ request \in [States -> Requests \cup {None}]
    /\ nonceExp \in [States -> Nat]
    /\ reqExp \in [States -> Nat]
    /\ usedExp \in [States -> Nat]
    /\ allowed \subseteq Domains
    /\ grants \subseteq Codes
    /\ spent \subseteq grants
    /\ pc \in [Callbacks -> Running \cup {"idle", "done"}]
    /\ cb \in [Callbacks -> Callback \cup {None}]
    /\ sessions \subseteq [state : States, callback : Callbacks, account : Accounts]
    /\ cookies \subseteq [browser : Browsers, callback : Callbacks]
    /\ consents \subseteq [state : States, account : Accounts]
    /\ winner \in [States -> Callbacks \cup {None}]
    /\ sent \subseteq Callbacks
    /\ offered \in [Callbacks -> SUBSET Domains]

\* A state token is single-use: only the callback that was first to write its
\* used marker ever presents a code to Google for it.  A first callback that
\* fails, crashes, or whose marker expires while another one is stalled before
\* its claim, burns the login (StateStore.Claim, StateStore.Nonce).
OnlyFirstClaimExchanges ==
    \A p \in sent : winner[cb[p].state] = p

\* Credentials of a login go to an account that consented to that very login,
\* whatever codes and state tokens callbacks combine (PKCE and the nonce).
LoginBinding ==
    \A x \in sessions : [state |-> x.state, account |-> x.account] \in consents

\* The account whose web session a browser gets has consented to a login that this
\* very browser started, whatever codes, state tokens and callbacks of several
\* logins are mixed up on the way (PKCE, the nonce, and the CSRF check of
\* finishCallback together).
SessionOfOwnLogin ==
    \A c \in cookies : \E s \in States, x \in sessions :
        /\ x.callback = c.callback
        /\ phase[s] # "new"
        /\ request[s].browser = c.browser
        /\ [state |-> s, account |-> x.account] \in consents

\* Credentials go only to an account whose hosted and email domains the
\* connector allowed at some time after the callback came in, never on the
\* strength of an allow-list that was replaced before it (getConnector).
DomainPolicy ==
    \A x \in sessions :
        {HostedDomain[x.account], EmailDomain[x.account]} \subseteq offered[x.callback]
================================================================================
