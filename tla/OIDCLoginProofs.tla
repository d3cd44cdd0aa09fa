---------------------------- MODULE OIDCLoginProofs ----------------------------
(***************************************************************************)
(* For every number of logins, callbacks, browsers and accounts, and every *)
(* TTL: the variables keep their types, a state token is single-use, and   *)
(* credentials and web sessions go only to the account, the browser and    *)
(* the domains they belong to.                                             *)
(***************************************************************************)
EXTENDS OIDCLogin, TLAPS

\* What type correctness needs to be inductive: a login that was started has a
\* stored request, a running callback has read one, and a callback past the
\* exchange holds a code Google issued.
TypeInv ==
    /\ TypeOK
    /\ \A s \in States : phase[s] # "new" => request[s] \in Requests
    /\ \A p \in Callbacks : pc[p] \in Running => cb[p] \in Callback
    /\ \A p \in Callbacks : pc[p] \in {"exchanged", "identified"} => cb[p].code \in Codes

\* Types hold initially.
LEMMA TypeInit == Init => TypeInv
BY DEF Init, TypeInv, TypeOK, Phases, Running

\* Every step keeps the types.
LEMMA TypeStep == TypeInv /\ [Next]_vars => TypeInv'
<1> SUFFICES ASSUME TypeInv, [Next]_vars PROVE TypeInv'
    OBVIOUS
<1> USE TTLPositive DEF TypeInv, TypeOK
<1>1. CASE Tick
  BY <1>1 DEF Tick, store, google, callback, issued, history
<1>2. ASSUME NEW ds \in SUBSET Domains, SetConnector(ds) PROVE TypeInv'
  BY <1>2 DEF SetConnector, store, google, callback, issued
<1>3. ASSUME NEW s \in States, Login(s) PROVE TypeInv'
  <2>1. ASSUME NEW b \in Browsers, NEW m \in Modes, PutNonce(s, b, m) PROVE TypeInv'
    <3>1. [browser |-> b, mode |-> m, hint |-> allowed,
           nonce |-> NewRequestSecrets(s).nonce,
           verifier |-> NewRequestSecrets(s).verifier] \in Requests
      BY DEF Requests, NewRequestSecrets
    <3> QED BY <2>1, <3>1 DEF PutNonce, Expiry, Phases, google, callback, issued, history
  <2>2. CASE CreateOIDCAuthRequest(s)
    BY <2>2 DEF CreateOIDCAuthRequest, Expiry, Phases, google, callback, issued, history
  <2>3. CASE CreateOIDCAuthRequestFails(s)
    BY <2>3 DEF CreateOIDCAuthRequestFails, Phases, store, google, callback, issued, history
  <2>4. ASSUME NEW a \in Accounts, Consent(s, a) PROVE TypeInv'
    <3>1. request[s] \in Requests
      BY <2>4 DEF Consent
    <3>2. [account |-> a, challenge |-> request[s].verifier,
           nonce |-> request[s].nonce] \in Codes
      BY <3>1 DEF Requests, Codes
    <3> QED BY <2>4, <3>2 DEF Consent, store, callback, issued
  <2> QED BY <1>3, <2>1, <2>2, <2>3, <2>4 DEF Login
<1>4. ASSUME NEW p \in Callbacks, Receive(p) PROVE TypeInv'
  <2>1. CASE RejectCallback(p)
    BY <2>1 DEF RejectCallback, Fail, Quiet, store, google, issued, history, Running
  <2>2. ASSUME NEW s \in States, NEW code \in grants \cup {None}, NEW b \in Browsers,
               GetOIDCAuthRequest(p, s, code, b)
        PROVE TypeInv'
    <3>1. [state |-> s, code |-> code, browser |-> b, domains |-> {}] \in Callback
      BY DEF Callback
    <3> QED BY <2>2, <3>1 DEF GetOIDCAuthRequest, store, google, issued, Running
  <2> QED BY <1>4, <2>1, <2>2 DEF Receive
<1>5. ASSUME NEW p \in Callbacks, Step(p) PROVE TypeInv'
  <2> USE DEF Running
  <2>1. CASE Claim(p)
    BY <2>1 DEF Claim, WriteUsed, Expiry, google, issued, Callback
  <2>2. CASE ClaimFails(p)
    BY <2>2 DEF ClaimFails, WriteUsed, Expiry, Fail, issued, google, Callback
  <2>3. CASE GetConnector(p)
    <3>1. cb[p] \in Callback
      BY <2>3 DEF GetConnector
    <3>2. [cb[p] EXCEPT !.domains = allowed] \in Callback
      BY <3>1 DEF Callback
    <3>3. cb' = [cb EXCEPT ![p] = [cb[p] EXCEPT !.domains = allowed]]
      BY <2>3 DEF GetConnector, ResolvedDomains
    <3> QED BY <2>3, <3>2, <3>3 DEF GetConnector, Quiet, store, google, issued, history
  <2>4. CASE Exchange(p)
    BY <2>4 DEF Exchange, Redeemable, store, issued
  <2>5. CASE ExchangeFails(p)
    BY <2>5 DEF ExchangeFails, Redeemable, Fail, issued, store
  <2>6. CASE MakeAuthResponse(p)
    <3>1. [state |-> cb[p].state, callback |-> p, account |-> cb[p].code.account]
             \in [state : States, callback : Callbacks, account : Accounts]
      BY <2>6 DEF MakeAuthResponse, Callback, Codes
    <3> QED BY <2>6, <3>1 DEF MakeAuthResponse, Quiet, store, google, history
  <2>7. CASE FinishCallback(p)
    <3>1. [browser |-> cb[p].browser, callback |-> p]
             \in [browser : Browsers, callback : Callbacks]
      BY <2>7 DEF FinishCallback, Callback
    <3> QED BY <2>7, <3>1 DEF FinishCallback, Quiet, store, google, history
  <2>8. CASE Nonce(p) \/ ValidateToken(p) \/ EmitLoginEvent(p)
    BY <2>8 DEF Nonce, ValidateToken, EmitLoginEvent, Quiet, store, google, issued, history
  <2>9. CASE \/ ClaimReplayed(p) \/ GetConnectorFails(p) \/ NonceFails(p)
             \/ ProviderConfigFails(p) \/ ValidateTokenFails(p) \/ MakeAuthResponseFails(p)
    BY <2>9 DEF ClaimReplayed, GetConnectorFails, NonceFails, ProviderConfigFails,
                ValidateTokenFails, MakeAuthResponseFails, Fail, issued, Quiet, store, google, history
  <2> QED BY <1>5, <2>1, <2>2, <2>3, <2>4, <2>5, <2>6, <2>7, <2>8, <2>9 DEF Step
<1>6. ASSUME NEW p \in Callbacks, Crash(p) PROVE TypeInv'
  BY <1>6 DEF Crash, Fail, issued, Quiet, store, google, history, Running
<1>7. CASE UNCHANGED vars
  BY <1>7 DEF vars, store, google, callback, issued, history
<1> QED BY <1>1, <1>2, <1>3, <1>4, <1>5, <1>6, <1>7 DEF Next

\* The variables of a login keep their types: what createAuthRequest stores and
\* what validateCallback reads back always fit together.
THEOREM TypeCorrect == Spec => []TypeOK
<1>1. TypeInv => TypeOK
  BY DEF TypeInv
<1> QED BY <1>1, TypeInit, TypeStep, PTL DEF Spec

-------------------------------------------------------------------------------
(* Single use *)

\* Callbacks that have read the nonce, and those that only hold the claim.
PastNonce == {"ready", "exchanged", "identified", "issued", "answered"}
PastClaim == {"claimed", "resolved"}

\* The strengthening of OnlyFirstClaimExchanges: a marker outlives the nonce of
\* its login, so whoever claims after the first callback finds the nonce dead.
SingleUse ==
    /\ \A s \in States : nonceExp[s] <= now + TTL
    /\ \A s \in States : Live(reqExp[s]) => phase[s] = "open"
    /\ \A p \in Callbacks : pc[p] \in Running => phase[cb[p].state] = "open"
    /\ \A s \in States : winner[s] # None =>
           phase[s] = "open" /\ nonceExp[s] <= usedExp[s]
    /\ \A p \in Callbacks : pc[p] \in PastClaim =>
           winner[cb[p].state] = p \/ nonceExp[cb[p].state] <= now
    /\ \A p \in Callbacks : pc[p] \in PastNonce => winner[cb[p].state] = p
    /\ \A p \in sent : /\ pc[p] \notin {"idle", "found"} \cup PastClaim
                       /\ cb[p] \in Callback
                       /\ winner[cb[p].state] = p

\* No callback runs initially.
LEMMA SingleUseInit == Init => SingleUse
BY TTLPositive DEF Init, SingleUse, Running, PastNonce, PastClaim, Live

\* Every step keeps the strengthening.
LEMMA SingleUseStep == TypeInv /\ SingleUse /\ [Next]_vars => SingleUse'
<1> SUFFICES ASSUME TypeInv, SingleUse, [Next]_vars PROVE SingleUse'
    OBVIOUS
<1> USE TTLPositive, NoneFresh DEF TypeInv, TypeOK, Running, PastNonce, PastClaim
<1>1. CASE Tick
  BY <1>1 DEF SingleUse, Live, Tick, store, google, callback, issued, history, Callback
<1>2. ASSUME NEW ds \in SUBSET Domains, SetConnector(ds) PROVE SingleUse'
  BY <1>2 DEF SingleUse, Live, SetConnector, store, google, callback, issued
<1>3. ASSUME NEW s \in States, Login(s) PROVE SingleUse'
  <2>1. ASSUME NEW b \in Browsers, NEW m \in Modes, PutNonce(s, b, m) PROVE SingleUse'
    BY <2>1 DEF SingleUse, Live, PutNonce, Expiry, google, callback, issued, history, Callback
  <2>2. CASE CreateOIDCAuthRequest(s)
    BY <2>2 DEF SingleUse, Live, CreateOIDCAuthRequest, Expiry, google, callback, issued, history, Callback
  <2>3. CASE CreateOIDCAuthRequestFails(s)
    BY <2>3 DEF SingleUse, Live, CreateOIDCAuthRequestFails, store, google, callback, issued, history, Callback
  <2>4. ASSUME NEW a \in Accounts, Consent(s, a) PROVE SingleUse'
    BY <2>4 DEF SingleUse, Live, Consent, store, callback, issued
  <2> QED BY <1>3, <2>1, <2>2, <2>3, <2>4 DEF Login
<1>4. ASSUME NEW p \in Callbacks, Receive(p) PROVE SingleUse'
  <2>1. CASE RejectCallback(p)
    BY <2>1 DEF SingleUse, Live, RejectCallback, Fail, issued, Quiet, store, google, history
  <2>2. ASSUME NEW s \in States, NEW code \in grants \cup {None}, NEW b \in Browsers,
               GetOIDCAuthRequest(p, s, code, b)
        PROVE SingleUse'
    BY <2>2 DEF SingleUse, Live, GetOIDCAuthRequest, store, google, issued, Callback
  <2> QED BY <1>4, <2>1, <2>2 DEF Receive
<1>5. ASSUME NEW p \in Callbacks, Step(p) PROVE SingleUse'
  <2>1. ASSUME pc[p] = "found", ~Live(usedExp[cb[p].state]), WriteUsed(p),
               UNCHANGED <<now, phase, nonceExp, reqExp, cb, sent>>,
               \/ pc' = [pc EXCEPT ![p] = "claimed"]
               \/ pc' = [pc EXCEPT ![p] = "done"]
        PROVE SingleUse'
    <3> DEFINE t == cb[p].state
    <3>1. cb[p] \in Callback /\ t \in States /\ phase[t] = "open"
      BY <2>1 DEF SingleUse, Callback
    <3>2. usedExp' = [usedExp EXCEPT ![t] = now + TTL]
      BY <2>1 DEF WriteUsed, Expiry
    <3>3. winner' = [winner EXCEPT ![t] = IF winner[t] = None THEN p ELSE winner[t]]
      BY <2>1 DEF WriteUsed
    <3>4. winner'[t] = p \/ nonceExp[t] <= now
      BY <2>1, <3>1, <3>3 DEF SingleUse, Live
    <3> HIDE DEF t
    <3>5. \A s \in States : winner'[s] # None =>
             phase[s] = "open" /\ nonceExp[s] <= usedExp'[s]
      BY <3>1, <3>2, <3>3 DEF SingleUse
    <3>6. \A s \in States : winner[s] # None => winner'[s] = winner[s]
      BY <3>1, <3>3
    <3>7. \A q \in Callbacks \ {p} : pc[q] \in PastClaim =>
             winner'[cb[q].state] = q \/ nonceExp[cb[q].state] <= now
      BY <3>6 DEF SingleUse, Callback
    <3>8. \A q \in Callbacks : pc[q] \in PastNonce \/ q \in sent => winner'[cb[q].state] = q
      BY <3>6 DEF SingleUse, Callback
    <3> QED BY <2>1, <3>1, <3>4, <3>5, <3>7, <3>8 DEF SingleUse, Live, t
  <2>2. CASE Claim(p)
    BY <2>1, <2>2 DEF Claim
  <2>3. CASE ClaimFails(p)
    <3>1. CASE UNCHANGED <<usedExp, winner>>
      BY <2>3, <3>1 DEF SingleUse, Live, ClaimFails, Fail, issued
    <3> QED BY <2>1, <2>3, <3>1 DEF ClaimFails, Fail, issued
  <2>4. CASE GetConnector(p)
    <3>1. cb[p] \in Callback
      BY <2>4 DEF GetConnector
    <3>2. \A q \in Callbacks : cb[q] \in Callback => cb'[q] \in Callback /\ cb'[q].state = cb[q].state
      <4>1. cb' = [cb EXCEPT ![p] = [cb[p] EXCEPT !.domains = allowed]]
        BY <2>4 DEF GetConnector, ResolvedDomains
      <4>2. [cb[p] EXCEPT !.domains = allowed] \in Callback
        BY <3>1 DEF Callback
      <4>3. [cb[p] EXCEPT !.domains = allowed].state = cb[p].state
        BY <3>1 DEF Callback
      <4> QED BY <4>1, <4>2, <4>3
    <3>3. UNCHANGED <<now, phase, nonceExp, reqExp, usedExp, winner, sent>>
          /\ pc' = [pc EXCEPT ![p] = "resolved"] /\ pc[p] = "claimed"
      BY <2>4 DEF GetConnector, Quiet, store, history
    <3> QED BY <3>2, <3>3 DEF SingleUse, Live
  <2>5. CASE Nonce(p)
    BY <2>5 DEF SingleUse, Live, Nonce, Quiet, store, google, issued, history, Callback
  <2>6. CASE Exchange(p) \/ ExchangeFails(p)
    BY <2>6 DEF SingleUse, Live, Exchange, ExchangeFails, Fail, store, issued
  <2>7. CASE ValidateToken(p) \/ MakeAuthResponse(p) \/ EmitLoginEvent(p) \/ FinishCallback(p)
    BY <2>7 DEF SingleUse, Live, ValidateToken, MakeAuthResponse, EmitLoginEvent,
                FinishCallback, Quiet, store, google, issued, history
  <2>8. CASE \/ ClaimReplayed(p) \/ GetConnectorFails(p) \/ NonceFails(p)
             \/ ProviderConfigFails(p) \/ ValidateTokenFails(p) \/ MakeAuthResponseFails(p)
    BY <2>8 DEF SingleUse, Live, ClaimReplayed, GetConnectorFails, NonceFails,
                ProviderConfigFails, ValidateTokenFails, MakeAuthResponseFails, Fail, issued,
                Quiet, store, google, history
  <2> QED BY <1>5, <2>2, <2>3, <2>4, <2>5, <2>6, <2>7, <2>8 DEF Step
<1>6. ASSUME NEW p \in Callbacks, Crash(p) PROVE SingleUse'
  BY <1>6 DEF SingleUse, Live, Crash, Fail, issued, Quiet, store, google, history
<1>7. CASE UNCHANGED vars
  BY <1>7 DEF SingleUse, Live, vars, store, google, callback, issued, history
<1> QED BY <1>1, <1>2, <1>3, <1>4, <1>5, <1>6, <1>7 DEF Next

\* A state token is single-use, for every TTL and every number of callbacks:
\* only the callback that wrote the first used marker (StateStore.Claim)
\* presents a code to Google, even after that marker has expired.
THEOREM StateIsSingleUse == Spec => []OnlyFirstClaimExchanges
<1>1. TypeInv /\ SingleUse => OnlyFirstClaimExchanges
  BY DEF SingleUse, OnlyFirstClaimExchanges
<1> QED BY <1>1, TypeInit, TypeStep, SingleUseInit, SingleUseStep, PTL DEF Spec

-------------------------------------------------------------------------------
(* Whom a login's credentials go to *)

\* The strengthening of LoginBinding.  The secrets of a login are its own; the
\* challenge of a code names the login its account consented to; and a code
\* that passed the exchange answers the challenge of the callback's own login.
BindingInv ==
    /\ \A s \in States : phase[s] # "new" => request[s].nonce = s /\ request[s].verifier = s
    /\ \A c \in grants : [state |-> c.challenge, account |-> c.account] \in consents
    /\ \A p \in Callbacks : pc[p] \in {"exchanged", "identified"} =>
           cb[p].code \in grants /\ cb[p].code.challenge = cb[p].state
    /\ LoginBinding

\* The credentials that callback p issued for its login
IssuedBy(p) == \E x \in sessions : x.callback = p /\ x.state = cb[p].state

\* The strengthening of SessionOfOwnLogin: a callback in the proxy's hands has
\* issued credentials of its own login, and one that set a cookie is over, so
\* neither what it read nor the request of its login changes again.
DeliveryInv ==
    /\ \A p \in Callbacks : pc[p] \in {"issued", "answered"} => IssuedBy(p)
    /\ \A c \in cookies : /\ pc[c.callback] = "done"
                          /\ cb[c.callback] \in Callback
                          /\ phase[cb[c.callback].state] = "open"
                          /\ request[cb[c.callback].state].browser = c.browser
                          /\ IssuedBy(c.callback)

\* The strengthening of DomainPolicy: whatever a running callback can still read
\* or has read was on offer while it ran, and a callback that was identified
\* passed both domain gates of what it read.
PolicyInv ==
    /\ \A p \in Callbacks : pc[p] \in Running =>
           allowed \subseteq offered[p] /\ cb[p].domains \subseteq offered[p]
    /\ \A p \in Callbacks : pc[p] = "identified" =>
           CheckIdentityClaims(cb[p].code.account, cb[p].domains)
    /\ \A x \in sessions : pc[x.callback] \in {"issued", "answered", "done"}
    /\ DomainPolicy

\* Reading the connector again changes the domains of one callback only.
LEMMA GetConnectorWrites ==
    ASSUME TypeInv, NEW p \in Callbacks, GetConnector(p)
    PROVE  /\ cb[p] \in Callback /\ cb'[p] \in Callback /\ cb'[p].domains = allowed
           /\ \A q \in Callbacks \ {p} : cb'[q] = cb[q]
           /\ cb'[p].state = cb[p].state /\ cb'[p].code = cb[p].code
<1>1. cb[p] \in Callback /\ allowed \in SUBSET Domains
  BY DEF GetConnector, TypeInv, TypeOK, Running
<1>2. cb' = [cb EXCEPT ![p] = [cb[p] EXCEPT !.domains = allowed]]
  BY DEF GetConnector, ResolvedDomains
<1> DEFINE n == [cb[p] EXCEPT !.domains = allowed]
<1>3. n \in Callback /\ n.domains = allowed /\ n.state = cb[p].state /\ n.code = cb[p].code
  BY <1>1 DEF Callback
<1> HIDE DEF n
<1> QED BY <1>1, <1>2, <1>3 DEF TypeInv, TypeOK, n

\* Every step keeps the binding of codes, requests and sessions to a login.
LEMMA BindingStep == TypeInv /\ SingleUse /\ BindingInv /\ [Next]_vars => BindingInv'
<1> SUFFICES ASSUME TypeInv, SingleUse, BindingInv, [Next]_vars PROVE BindingInv'
    OBVIOUS
<1> USE DEF TypeInv, TypeOK, Running, BindingInv, LoginBinding
<1>1. CASE Tick
  BY <1>1 DEF Tick, store, google, callback, issued, history
<1>2. ASSUME NEW ds \in SUBSET Domains, SetConnector(ds) PROVE BindingInv'
  BY <1>2 DEF SetConnector, store, google, callback, issued
<1>3. ASSUME NEW s \in States, Login(s) PROVE BindingInv'
  <2>1. ASSUME NEW b \in Browsers, NEW m \in Modes, PutNonce(s, b, m) PROVE BindingInv'
    BY <2>1 DEF PutNonce, NewRequestSecrets, google, callback, issued, history
  <2>2. CASE CreateOIDCAuthRequest(s) \/ CreateOIDCAuthRequestFails(s)
    BY <2>2 DEF CreateOIDCAuthRequest, CreateOIDCAuthRequestFails, store, google,
                callback, issued, history
  <2>3. ASSUME NEW a \in Accounts, Consent(s, a) PROVE BindingInv'
    <3> DEFINE c == [account |-> a, challenge |-> s, nonce |-> s]
    <3>1. grants' = grants \cup {c} /\ c.challenge = s /\ c.account = a
      BY <2>3 DEF Consent
    <3> HIDE DEF c
    <3> QED BY <2>3, <3>1 DEF Consent, store, callback, issued
  <2> QED BY <1>3, <2>1, <2>2, <2>3 DEF Login
<1>4. ASSUME NEW p \in Callbacks, Receive(p) PROVE BindingInv'
  BY <1>4 DEF Receive, RejectCallback, GetOIDCAuthRequest, Fail, Quiet,
              store, google, issued, history
<1>5. ASSUME NEW p \in Callbacks, Step(p) PROVE BindingInv'
  <2>1. CASE Claim(p) \/ ClaimFails(p)
    BY <2>1 DEF Claim, ClaimFails, WriteUsed, Fail, google, issued
  <2>2. CASE GetConnector(p)
    BY <2>2, GetConnectorWrites DEF GetConnector, Quiet, google, issued, history
  <2>3. CASE Exchange(p)
    <3>1. cb[p] \in Callback
      BY <2>3 DEF Exchange
    <3>2. request[cb[p].state].verifier = cb[p].state
      BY <2>3, <3>1 DEF Exchange, Callback, SingleUse
    <3> QED BY <2>3, <3>2 DEF Exchange, Redeemable, store, issued
  <2>4. CASE MakeAuthResponse(p)
    <3> DEFINE x == [state |-> cb[p].state, callback |-> p, account |-> cb[p].code.account]
    <3>1. [state |-> x.state, account |-> x.account] \in consents
      BY <2>4 DEF MakeAuthResponse
    <3>2. sessions' = sessions \cup {x}
      BY <2>4 DEF MakeAuthResponse
    <3> HIDE DEF x
    <3> QED BY <2>4, <3>1, <3>2 DEF MakeAuthResponse, Quiet, google, history
  <2>5. CASE \/ Nonce(p) \/ ExchangeFails(p) \/ ValidateToken(p) \/ EmitLoginEvent(p)
             \/ FinishCallback(p)
    BY <2>5 DEF Nonce, ExchangeFails, ValidateToken, EmitLoginEvent, FinishCallback, Fail,
                Quiet, store, google, issued, history
  <2>6. CASE \/ ClaimReplayed(p) \/ GetConnectorFails(p) \/ NonceFails(p)
             \/ ProviderConfigFails(p) \/ ValidateTokenFails(p) \/ MakeAuthResponseFails(p)
    BY <2>6 DEF ClaimReplayed, GetConnectorFails, NonceFails, ProviderConfigFails,
                ValidateTokenFails, MakeAuthResponseFails, Fail, issued, Quiet, google, history
  <2> QED BY <1>5, <2>1, <2>2, <2>3, <2>4, <2>5, <2>6 DEF Step
<1>6. ASSUME NEW p \in Callbacks, Crash(p) PROVE BindingInv'
  BY <1>6 DEF Crash, Fail, issued, Quiet, google, history
<1>7. CASE UNCHANGED vars
  BY <1>7 DEF vars, google, callback, issued, history
<1> QED BY <1>1, <1>2, <1>3, <1>4, <1>5, <1>6, <1>7 DEF Next

\* Every step keeps what cookies rest on.
LEMMA DeliveryStep == TypeInv /\ SingleUse /\ DeliveryInv /\ [Next]_vars => DeliveryInv'
<1> SUFFICES ASSUME TypeInv, SingleUse, DeliveryInv, [Next]_vars PROVE DeliveryInv'
    OBVIOUS
<1> USE DEF TypeInv, TypeOK, Running, DeliveryInv, IssuedBy, Callback
<1>1. CASE Tick
  BY <1>1 DEF Tick, callback, issued
<1>2. ASSUME NEW ds \in SUBSET Domains, SetConnector(ds) PROVE DeliveryInv'
  BY <1>2 DEF SetConnector, callback, issued
<1>3. ASSUME NEW s \in States, Login(s) PROVE DeliveryInv'
  <2>1. \A r \in States : phase[r] = "open" => phase'[r] = "open" /\ request'[r] = request[r]
    BY <1>3 DEF Login, PutNonce, CreateOIDCAuthRequest, CreateOIDCAuthRequestFails, Consent
  <2>2. UNCHANGED <<pc, cb, cookies, sessions>>
    BY <1>3 DEF Login, PutNonce, CreateOIDCAuthRequest, CreateOIDCAuthRequestFails, Consent,
                callback, issued
  <2> QED BY <2>1, <2>2
<1>4. ASSUME NEW p \in Callbacks, Receive(p) PROVE DeliveryInv'
  BY <1>4 DEF Receive, RejectCallback, GetOIDCAuthRequest, Fail, Quiet, issued
<1>5. ASSUME NEW p \in Callbacks, Step(p) PROVE DeliveryInv'
  <2>1. CASE Claim(p) \/ ClaimFails(p)
    <3>1. CASE Claim(p)
      BY <3>1 DEF Claim, WriteUsed, Fail, issued
    <3>2. CASE ClaimFails(p)
      BY <3>2 DEF ClaimFails, WriteUsed, Fail, issued
    <3> QED BY <2>1, <3>1, <3>2
  <2>2. CASE GetConnector(p)
    BY <2>2, GetConnectorWrites DEF GetConnector, Quiet, issued
  <2>3. CASE FinishCallback(p)
    <3> DEFINE c == [browser |-> cb[p].browser, callback |-> p]
    <3>1. c.callback = p /\ c.browser = cb[p].browser
      OBVIOUS
    <3>2. /\ IssuedBy(p) /\ cb[p] \in Callback /\ phase[cb[p].state] = "open"
          /\ pc' = [pc EXCEPT ![p] = "done"]
          /\ UNCHANGED <<cb, phase, request, sessions>>
      BY <2>3 DEF FinishCallback, Quiet, SingleUse
    <3>3. \/ cookies' = cookies \cup {c} /\ request[cb[p].state].browser = cb[p].browser
          \/ cookies' = cookies
      BY <2>3 DEF FinishCallback, VerifyToken
    <3> HIDE DEF c
    <3> QED BY <3>1, <3>2, <3>3
  <2>4. CASE MakeAuthResponse(p)
    <3> DEFINE x == [state |-> cb[p].state, callback |-> p, account |-> cb[p].code.account]
    <3>1. x.callback = p /\ x.state = cb[p].state
      OBVIOUS
    <3>2. /\ sessions' = sessions \cup {x} /\ pc[p] = "identified"
          /\ pc' = [pc EXCEPT ![p] = "issued"] /\ UNCHANGED <<cb, cookies, phase, request>>
      BY <2>4 DEF MakeAuthResponse, Quiet
    <3> HIDE DEF x
    <3> QED BY <3>1, <3>2
  <2>5. CASE Nonce(p) \/ Exchange(p) \/ ExchangeFails(p) \/ ValidateToken(p) \/ EmitLoginEvent(p)
    BY <2>5 DEF Nonce, Exchange, ExchangeFails, ValidateToken, EmitLoginEvent, Fail, Quiet, issued
  <2>6. CASE \/ ClaimReplayed(p) \/ GetConnectorFails(p) \/ NonceFails(p)
             \/ ProviderConfigFails(p) \/ ValidateTokenFails(p) \/ MakeAuthResponseFails(p)
    BY <2>6 DEF ClaimReplayed, GetConnectorFails, NonceFails, ProviderConfigFails,
                ValidateTokenFails, MakeAuthResponseFails, Fail, issued, Quiet
  <2> QED BY <1>5, <2>1, <2>2, <2>3, <2>4, <2>5, <2>6 DEF Step
<1>6. ASSUME NEW p \in Callbacks, Crash(p) PROVE DeliveryInv'
  BY <1>6 DEF Crash, Fail, issued, Quiet
<1>7. CASE UNCHANGED vars
  BY <1>7 DEF vars, callback, issued
<1> QED BY <1>1, <1>2, <1>3, <1>4, <1>5, <1>6, <1>7 DEF Next

\* Every step keeps the domains a callback relies on among those on offer.
LEMMA PolicyStep == TypeInv /\ PolicyInv /\ [Next]_vars => PolicyInv'
<1> SUFFICES ASSUME TypeInv, PolicyInv, [Next]_vars PROVE PolicyInv'
    OBVIOUS
<1> USE DEF TypeInv, TypeOK, Running, PolicyInv, DomainPolicy, CheckIdentityClaims
<1>1. CASE Tick
  BY <1>1 DEF Tick, callback, issued, history
<1>2. ASSUME NEW ds \in SUBSET Domains, SetConnector(ds) PROVE PolicyInv'
  <2>1. \A p \in Callbacks : offered[p] \subseteq offered'[p]
    BY <1>2 DEF SetConnector
  <2>2. \A p \in Callbacks : pc[p] \in Running => ds \subseteq offered'[p]
    BY <1>2 DEF SetConnector
  <2> QED BY <1>2, <2>1, <2>2 DEF SetConnector, callback, issued
<1>3. ASSUME NEW s \in States, Login(s) PROVE PolicyInv'
  BY <1>3 DEF Login, PutNonce, CreateOIDCAuthRequest, CreateOIDCAuthRequestFails, Consent,
              callback, issued, history
<1>4. ASSUME NEW p \in Callbacks, Receive(p) PROVE PolicyInv'
  <2>1. CASE RejectCallback(p)
    BY <2>1 DEF RejectCallback, Fail, issued, Quiet, history
  <2>2. CASE \E s \in States, code \in grants \cup {None}, b \in Browsers :
                 GetOIDCAuthRequest(p, s, code, b)
    BY <2>2 DEF GetOIDCAuthRequest, issued
  <2> QED BY <1>4, <2>1, <2>2 DEF Receive
<1>5. ASSUME NEW p \in Callbacks, Step(p) PROVE PolicyInv'
  <2>1. CASE Claim(p) \/ ClaimFails(p)
    <3>1. CASE Claim(p)
      BY <3>1 DEF Claim, WriteUsed, Fail, issued
    <3>2. CASE ClaimFails(p)
      BY <3>2 DEF ClaimFails, WriteUsed, Fail, issued
    <3> QED BY <2>1, <3>1, <3>2
  <2>2. CASE GetConnector(p)
    <3>1. /\ cb[p] \in Callback /\ cb'[p].domains = allowed
          /\ \A q \in Callbacks \ {p} : cb'[q] = cb[q]
          /\ cb'[p].code = cb[p].code
      BY <2>2, GetConnectorWrites
    <3>2. /\ pc[p] = "claimed" /\ pc' = [pc EXCEPT ![p] = "resolved"]
          /\ UNCHANGED <<sessions, allowed, offered>>
      BY <2>2 DEF GetConnector, Quiet, issued, history
    <3> QED BY <3>1, <3>2
  <2>3. CASE MakeAuthResponse(p)
    <3> DEFINE x == [state |-> cb[p].state, callback |-> p, account |-> cb[p].code.account]
    <3>1. x.callback = p /\ x.account = cb[p].code.account
      OBVIOUS
    <3>2. {HostedDomain[cb[p].code.account], EmailDomain[cb[p].code.account]} \subseteq offered[p]
      BY <2>3 DEF MakeAuthResponse
    <3>3. sessions' = sessions \cup {x}
      BY <2>3 DEF MakeAuthResponse
    <3> HIDE DEF x
    <3> QED BY <2>3, <3>1, <3>2, <3>3 DEF MakeAuthResponse, Quiet, history
  <2>4. CASE \/ Nonce(p) \/ Exchange(p) \/ ExchangeFails(p) \/ ValidateToken(p)
             \/ EmitLoginEvent(p) \/ FinishCallback(p)
    BY <2>4 DEF Nonce, Exchange, ExchangeFails, ValidateToken, EmitLoginEvent, FinishCallback,
                Fail, Quiet, issued, history
  <2>5. CASE \/ ClaimReplayed(p) \/ GetConnectorFails(p) \/ NonceFails(p)
             \/ ProviderConfigFails(p) \/ ValidateTokenFails(p) \/ MakeAuthResponseFails(p)
    BY <2>5 DEF ClaimReplayed, GetConnectorFails, NonceFails, ProviderConfigFails,
                ValidateTokenFails, MakeAuthResponseFails, Fail, issued, Quiet, history
  <2> QED BY <1>5, <2>1, <2>2, <2>3, <2>4, <2>5 DEF Step
<1>6. ASSUME NEW p \in Callbacks, Crash(p) PROVE PolicyInv'
  BY <1>6 DEF Crash, Fail, issued, Quiet, history
<1>7. CASE UNCHANGED vars
  BY <1>7 DEF vars, callback, issued, history
<1> QED BY <1>1, <1>2, <1>3, <1>4, <1>5, <1>6, <1>7 DEF Next

\* Nothing is granted, issued or delivered initially.
LEMMA LoginInit == Init => BindingInv /\ DeliveryInv /\ PolicyInv
BY DEF Init, Running, BindingInv, LoginBinding, DeliveryInv, PolicyInv, DomainPolicy

\* Credentials of a login go to an account that consented to that login, for any
\* mix of codes and state tokens in any number of callbacks: the verifier stored
\* with the state token only redeems codes of that login (config.Exchange).
THEOREM CredentialsToConsenter == Spec => []LoginBinding
<1>1. BindingInv => LoginBinding
  BY DEF BindingInv
<1> QED BY <1>1, TypeInit, TypeStep, SingleUseInit, SingleUseStep, LoginInit, BindingStep, PTL DEF Spec

\* The account whose web session a browser gets has consented to a login that this
\* browser started: what PKCE ties to a login (config.Exchange) and what the CSRF
\* check ties to a browser (finishCallback) meet in the state token.
THEOREM SessionsToStarter == Spec => []SessionOfOwnLogin
<1>1. TypeInv /\ BindingInv /\ DeliveryInv => SessionOfOwnLogin
  <2> SUFFICES ASSUME TypeInv, BindingInv, DeliveryInv, NEW c \in cookies
               PROVE  \E s \in States, x \in sessions :
                        /\ x.callback = c.callback
                        /\ phase[s] # "new"
                        /\ request[s].browser = c.browser
                        /\ [state |-> s, account |-> x.account] \in consents
    BY DEF SessionOfOwnLogin
  <2>1. PICK x \in sessions : x.callback = c.callback /\ x.state = cb[c.callback].state
    BY DEF DeliveryInv, IssuedBy
  <2>2. x.state \in States /\ phase[x.state] # "new" /\ request[x.state].browser = c.browser
    BY <2>1 DEF DeliveryInv, Callback
  <2>3. [state |-> x.state, account |-> x.account] \in consents
    BY DEF BindingInv, LoginBinding
  <2> QED BY <2>1, <2>2, <2>3
<1> QED BY <1>1, TypeInit, TypeStep, SingleUseInit, SingleUseStep, LoginInit, BindingStep,
           DeliveryStep, PTL DEF Spec

\* Credentials go only to an account both of whose domains the connector allowed
\* at some time while its callback ran (getConnector, checkIdentityClaims),
\* however often the allow-list is replaced.
THEOREM DomainsEnforced == Spec => []DomainPolicy
<1>1. PolicyInv => DomainPolicy
  BY DEF PolicyInv
<1> QED BY <1>1, TypeInit, TypeStep, LoginInit, PolicyStep, PTL DEF Spec
================================================================================
