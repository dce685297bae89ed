------------------------------- MODULE Tokens -------------------------------
(***************************************************************************)
(* The three credential caches: OidcTokenCache (synchrotron-kube/src/      *)
(* oidc.rs, oidc_http.rs), ExecCredentialCache (exec.rs) and the GitHub App*)
(* TokenCache (synchrotron-git/src/github_app.rs, github_app_http.rs).     *)
(*                                                                         *)
(* All three read the clock, take an async mutex, return the cached token  *)
(* if it is fresh at the time read, and otherwise run an exchange while    *)
(* they hold the mutex and store its result.  What differs is the seed     *)
(* (only OIDC starts with a token), whether the exchange is retried (not   *)
(* for a subprocess) and whether it consumes a refresh token (only OIDC).  *)
(*                                                                         *)
(* The issuer and the network are external.  A refresh token is a number:  *)
(* the issuer accepts the one it gave out last, and gives out a new one    *)
(* when it rotates.  Times are ticks.                                      *)
(***************************************************************************)
EXTENDS Naturals

CONSTANTS
  TokenCallers,    \* tasks that ask for a token
  Lifetime,        \* expires_in of an issued token
  RefreshBefore,   \* refresh_before
  MaxAttempts,     \* max_attempts of the exchange
  MaxTime,         \* bound of the clock
  MaxExchanges     \* bound: exchanges the issuer answers

ASSUME TokensAssumption ==
  /\ Lifetime \in Nat /\ RefreshBefore \in Nat /\ MaxAttempts \in Nat \ {0}
  /\ MaxTime \in Nat /\ MaxExchanges \in Nat
  /\ "free" \notin TokenCallers

Flavours == {"oidc", "exec", "github"}
Nothing == [id |-> 0, refresh |-> 0, expires |-> 0]

VARIABLES
  flavour,    \* which of the caches this is
  clock,      \* wall clock
  cached,     \* the token behind the mutex, Nothing when there is none
  tokenLock,  \* the caller that holds the mutex, or "free"
  tokenCall,  \* caller -> where its call is, the time it read, its attempt, its result
  issuer,     \* external: tokens issued, the refresh token it accepts
  responseLost  \* history: an exchange the issuer did was not seen by the cache

tokenVars == <<flavour, clock, cached, tokenLock, tokenCall, issuer, responseLost>>

NoCall == [pc |-> "idle", now |-> 0, since |-> 0, attempt |-> 0, body |-> Nothing,
           got |-> Nothing]

TokensInit ==
  /\ flavour \in Flavours
  /\ clock = 0
  /\ cached = IF flavour = "oidc" THEN [id |-> 1, refresh |-> 1, expires |-> Lifetime] ELSE Nothing
  /\ tokenLock = "free"
  /\ tokenCall = [c \in TokenCallers |-> NoCall]
  /\ issuer = [issued |-> 1, accepts |-> 1]
  /\ responseLost = FALSE

Advance ==
  /\ clock < MaxTime
  /\ clock' = clock + 1
  /\ UNCHANGED <<flavour, cached, tokenLock, tokenCall, issuer, responseLost>>

\* is_fresh: checked_sub gives no deadline when the margin exceeds the time.
IsFresh(t, now) == t # Nothing /\ t.expires >= RefreshBefore /\ now < t.expires - RefreshBefore

\* get: SystemTime::now() is read before the mutex is asked for.
TokenGet(c) ==
  /\ tokenCall[c].pc = "idle"
  /\ tokenCall' = [tokenCall EXCEPT ![c] = [NoCall EXCEPT !.pc = "lock", !.now = clock]]
  /\ UNCHANGED <<flavour, clock, cached, tokenLock, issuer, responseLost>>

TokenLocked(c) ==
  /\ tokenCall[c].pc = "lock" /\ tokenLock = "free"
  /\ IF IsFresh(cached, tokenCall[c].now)
     THEN /\ tokenCall' = [tokenCall EXCEPT ![c].pc = "done", ![c].got = cached]
          /\ UNCHANGED tokenLock
     ELSE /\ tokenLock' = c
          /\ tokenCall' = [tokenCall EXCEPT ![c].pc = "prepare"]
  /\ UNCHANGED <<flavour, clock, cached, issuer, responseLost>>

\* Before the exchange OIDC looks its token endpoint up, over the network or in the discovery
\* cache, and reads the clock; GitHub signs a JWT; a plugin is started.  Failing here ends the
\* call (TokenRefused).
Prepared(c) ==
  /\ tokenCall[c].pc = "prepare"
  /\ tokenCall' = [tokenCall EXCEPT ![c].pc = "exchange", ![c].since = clock, ![c].attempt = 1]
  /\ UNCHANGED <<flavour, clock, cached, tokenLock, issuer, responseLost>>

TokenEndpoint(c) == flavour = "oidc" /\ Prepared(c)
MintJwt(c) == flavour = "github" /\ Prepared(c)
SpawnPlugin(c) == flavour = "exec" /\ Prepared(c)

\* The issuer does the exchange: an OIDC one if it accepts the refresh token, which it may
\* rotate; refresh() keeps the current one when the response has none.
Issued(rotates) ==
  [issued |-> issuer.issued + 1,
   accepts |-> IF flavour = "oidc" /\ rotates THEN issuer.accepts + 1 ELSE issuer.accepts]

Accepts == flavour = "oidc" => cached.refresh = issuer.accepts

Exchanged(c, rotates, expires) ==
  /\ tokenCall[c].pc = "exchange" /\ Accepts /\ issuer.issued < MaxExchanges
  /\ issuer' = Issued(rotates)
  /\ tokenCall' = [tokenCall EXCEPT ![c].pc = "store",
       ![c].body = [id |-> issuer'.issued, refresh |-> issuer'.accepts, expires |-> expires]]
  /\ UNCHANGED <<flavour, clock, cached, tokenLock, responseLost>>

\* OIDC counts the lifetime from before its attempts.
Refreshed(c, rotates) ==
  flavour = "oidc" /\ Exchanged(c, rotates, tokenCall[c].since + Lifetime)

\* GitHub says when the token expires.
Exchange(c) == flavour = "github" /\ Exchanged(c, FALSE, clock + Lifetime)

\* An exec plugin may say so or not, and its token is then never fresh.
ExpiresAt(stamped) == IF stamped THEN clock + Lifetime ELSE 0
PluginOutput(c, stamped) == flavour = "exec" /\ Exchanged(c, FALSE, ExpiresAt(stamped))

\* A 5xx, a 429 or no answer: try again, up to max_attempts; a subprocess is run once.
Retry(c) ==
  IF flavour # "exec" /\ tokenCall[c].attempt < MaxAttempts
  THEN /\ tokenCall' = [tokenCall EXCEPT ![c].attempt = @ + 1]
       /\ UNCHANGED tokenLock
  ELSE /\ tokenCall' = [tokenCall EXCEPT ![c] = [NoCall EXCEPT !.pc = "failed"]]
       /\ tokenLock' = "free"

TokenUnanswered(c) ==
  /\ tokenCall[c].pc = "exchange"
  /\ Retry(c)
  /\ UNCHANGED <<flavour, clock, cached, issuer, responseLost>>

\* The issuer did the exchange and the answer was lost.
TokenAnswerLost(c, rotates) ==
  /\ tokenCall[c].pc = "exchange" /\ Accepts /\ issuer.issued < MaxExchanges
  /\ issuer' = Issued(rotates)
  /\ responseLost' = TRUE
  /\ Retry(c)
  /\ UNCHANGED <<flavour, clock, cached>>

\* A refused exchange, a malformed answer, an empty refresh token or token.
TokenRefused(c) ==
  /\ tokenCall[c].pc \in {"prepare", "exchange", "store"}
  /\ tokenCall' = [tokenCall EXCEPT ![c] = [NoCall EXCEPT !.pc = "failed"]]
  /\ tokenLock' = "free"
  /\ responseLost' = (responseLost \/ tokenCall[c].pc = "store")
  /\ UNCHANGED <<flavour, clock, cached, issuer>>

\* mutant: the rotated refresh token is not kept
StoredUnrotated(t) == [t EXCEPT !.refresh = cached.refresh]
StoredToken(t) == t

TokenStore(c) ==
  /\ tokenCall[c].pc = "store"
  /\ cached' = StoredToken(tokenCall[c].body)
  /\ tokenCall' = [tokenCall EXCEPT ![c].pc = "done", ![c].got = cached']
  /\ tokenLock' = "free"
  /\ UNCHANGED <<flavour, clock, issuer, responseLost>>

\* The caller is dropped at an await: the guard goes with it.
TokenCancelled(c) ==
  /\ tokenCall[c].pc \in {"lock", "prepare", "exchange", "store"}
  /\ tokenCall' = [tokenCall EXCEPT ![c] = NoCall]
  /\ tokenLock' = IF tokenLock = c THEN "free" ELSE tokenLock
  /\ responseLost' = (responseLost \/ tokenCall[c].pc = "store")
  /\ UNCHANGED <<flavour, clock, cached, issuer>>

TokenReturn(c) ==
  /\ tokenCall[c].pc \in {"done", "failed"}
  /\ tokenCall' = [tokenCall EXCEPT ![c] = NoCall]
  /\ UNCHANGED <<flavour, clock, cached, tokenLock, issuer, responseLost>>

TokensNext ==
  \/ Advance
  \/ \E c \in TokenCallers :
       \/ TokenGet(c) \/ TokenLocked(c) \/ TokenUnanswered(c) \/ TokenRefused(c)
       \/ TokenEndpoint(c) \/ MintJwt(c) \/ SpawnPlugin(c) \/ Exchange(c)
       \/ TokenStore(c) \/ TokenCancelled(c) \/ TokenReturn(c)
       \/ \E rotates \in BOOLEAN :
            TokenAnswerLost(c, rotates) \/ Refreshed(c, rotates)
       \/ \E stamped \in BOOLEAN : PluginOutput(c, stamped)

TokensSpec == TokensInit /\ [][TokensNext]_tokenVars

-----------------------------------------------------------------------------
\* "After a refresh the rotated refresh token is persisted for the next exchange": as long as
\* no answer was lost, the issuer still accepts the cached refresh token, so no interleaving
\* of callers, retries, failures and cancellations locks the cluster out; and a caller gets
\* the cached token while it was fresh when the caller asked, or the one it fetched itself.
RefreshTokenCurrent ==
  /\ flavour = "oidc" /\ ~responseLost /\ (\A c \in TokenCallers : tokenCall[c].pc # "store")
       => cached.refresh = issuer.accepts
  /\ \A c \in TokenCallers : tokenCall[c].pc = "done" =>
       \/ IsFresh(tokenCall[c].got, tokenCall[c].now)
       \/ tokenCall[c].got = tokenCall[c].body
=============================================================================
