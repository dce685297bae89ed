----------------------------- MODULE AccessProofs -----------------------------
(***************************************************************************)
(* Proofs about the small stores the server keeps: the registry of         *)
(* cluster monitors, the token caches, the host keys, the configuration    *)
(* and the cache of rendered manifests.  Each is independent of the others *)
(* and has its own inductive invariant.                                    *)
(***************************************************************************)
EXTENDS ClusterRegistry, Tokens, HostKeys, Configuration, Rendering, SequenceTheorems,
        WellFoundedInduction, TLAPS

-----------------------------------------------------------------------------
(* The cluster registry.                                                   *)

Handle == (1 .. MaxMonitors) \cup {NoMonitor}
RegistryCall == [pc : {"idle", "connect", "insert", "using"},
                 name : ClusterNames \cup {NoMonitor}, handle : Handle]

RegistryTypes ==
  /\ monitors \in [ClusterNames -> Handle]
  /\ regCall \in [RegCallers -> RegistryCall]
  /\ spawned \in 0 .. MaxMonitors

\* A monitor somebody holds a handle to has its probe task.
HandledRuns == \A m \in 1 .. MaxMonitors : Handled(m) => m \in probers

RegistryInv == RegistryTypes /\ HandledRuns

\* What every step of the registry does to an entry that is there.
EntryKept ==
  \A n \in ClusterNames : monitors[n] # NoMonitor => monitors'[n] \in {monitors[n], NoMonitor}

LEMMA RegistryStarts == RegistryInit => RegistryInv
  <1> SUFFICES ASSUME RegistryInit PROVE RegistryInv
    OBVIOUS
  <1>1. RegistryTypes
    BY RegistryAssumption DEF RegistryInit, RegistryTypes, Handle, RegistryCall, IdleCall
  <1>2. HandledRuns
    BY RegistryAssumption DEF RegistryInit, HandledRuns, Handled, IdleCall
  <1> QED BY <1>1, <1>2 DEF RegistryInv

LEMMA RegistryStep ==
  RegistryInv /\ [RegistryNext]_registryVars => RegistryInv' /\ EntryKept
  <1> SUFFICES ASSUME RegistryInv, [RegistryNext]_registryVars PROVE RegistryInv' /\ EntryKept
    OBVIOUS
  <1> USE RegistryAssumption DEF RegistryInv, RegistryTypes, Handle, RegistryCall, IdleCall
  <1>1. ASSUME NEW c \in RegCallers, NEW n \in ClusterNames, RegisterCheck(c, n)
        PROVE RegistryInv' /\ EntryKept
    BY <1>1 DEF RegisterCheck, EntryKept, HandledRuns, Handled
  <1>2. ASSUME NEW c \in RegCallers, NEW n \in ClusterNames, GetMonitor(c, n)
        PROVE RegistryInv' /\ EntryKept
    BY <1>2 DEF GetMonitor, EntryKept, HandledRuns, Handled
  <1>3. ASSUME NEW c \in RegCallers, NEW n \in ClusterNames, Deregister(c, n)
        PROVE RegistryInv' /\ EntryKept
    BY <1>3 DEF Deregister, EntryKept, HandledRuns, Handled
  <1>4. ASSUME NEW c \in RegCallers, RegisterConnect(c)
        PROVE RegistryInv' /\ EntryKept
    <2>1. RegistryTypes' /\ EntryKept
      <3>1. spawned + 1 \in 1 .. MaxMonitors /\ spawned' = spawned + 1
        BY <1>4 DEF RegisterConnect
      <3>2. regCall' = [regCall EXCEPT ![c] = [regCall[c] EXCEPT !.pc = "insert", !.handle = spawned + 1]]
        BY <1>4 DEF RegisterConnect
      <3>3. [regCall[c] EXCEPT !.pc = "insert", !.handle = spawned + 1] \in RegistryCall
        BY <3>1
      <3>4. regCall' \in [RegCallers -> RegistryCall]
        BY <3>2, <3>3
      <3> QED BY <1>4, <3>1, <3>4 DEF RegisterConnect, EntryKept
    <2>2. ASSUME NEW m \in 1 .. MaxMonitors, Handled(m)' PROVE m \in probers'
      <3>1. CASE m = spawned + 1
        BY <1>4, <3>1 DEF RegisterConnect
      <3>2. CASE m # spawned + 1
        <4>1. \A d \in RegCallers : regCall'[d].handle = m => regCall[d].handle = m
          BY <1>4, <3>2 DEF RegisterConnect
        <4> QED BY <1>4, <2>2, <4>1 DEF RegisterConnect, HandledRuns, Handled
      <3> QED BY <3>1, <3>2
    <2> QED BY <2>1, <2>2 DEF HandledRuns
  <1>5. ASSUME NEW c \in RegCallers, RegisterConnectFails(c)
        PROVE RegistryInv' /\ EntryKept
    BY <1>5 DEF RegisterConnectFails, EntryKept, HandledRuns, Handled
  <1>6. ASSUME NEW c \in RegCallers, RegisterInsert(c)
        PROVE RegistryInv' /\ EntryKept
    BY <1>6 DEF RegisterInsert, InsertIfAbsent, DropUnhandled, EntryKept, HandledRuns, Handled
  <1>7. ASSUME NEW c \in RegCallers, DropHandle(c)
        PROVE RegistryInv' /\ EntryKept
    BY <1>7 DEF DropHandle, DropUnhandled, EntryKept, HandledRuns, Handled
  <1>8. CASE UNCHANGED registryVars
    BY <1>8 DEF registryVars, EntryKept, HandledRuns, Handled
  <1> QED BY <1>1, <1>2, <1>3, <1>4, <1>5, <1>6, <1>7, <1>8 DEF RegistryNext

\* The registry's invariant: whatever calls of register, get and deregister overlap, the map
\* and every caller hold handles of running monitors only.
THEOREM RegistryInvariant == RegistrySpec => []RegistryInv
  BY RegistryStarts, RegistryStep, PTL DEF RegistrySpec

\* register never swaps a monitor: an entry of the map is only ever removed, and the probe
\* task of whatever the map or a caller holds keeps running, for any number of clusters,
\* callers and monitors.
THEOREM RegistrySwapsNothing == RegistrySpec => RegistryNeverSwaps
  <1>1. RegistryInv /\ [RegistryNext]_registryVars
          => [\A n \in ClusterNames : monitors[n] # NoMonitor =>
               /\ monitors'[n] \in {monitors[n], NoMonitor}
               /\ \A m \in 1 .. MaxMonitors : Handled(m)' => m \in probers']_registryVars
    BY RegistryStep DEF RegistryInv, EntryKept, HandledRuns
  <1> QED BY <1>1, RegistryInvariant, PTL DEF RegistrySpec, RegistryNeverSwaps

-----------------------------------------------------------------------------
(* The token caches.  The exchange runs under the mutex, so at most one     *)
(* caller is between the issuer's answer and the store; the refresh token   *)
(* the issuer accepts is the cached one, or the one this caller carries.    *)

Token == [id : Nat, refresh : Nat, expires : Nat]
Holding == {"prepare", "exchange", "store"}
TokenCall == [pc : Holding \cup {"idle", "lock", "done", "failed"},
              now : Nat, since : Nat, attempt : Nat, body : Token, got : Token]

TokenTypes ==
  /\ clock \in Nat
  /\ cached \in Token
  /\ tokenCall \in [TokenCallers -> TokenCall]
  /\ issuer \in [issued : Nat, accepts : Nat]
  /\ responseLost \in BOOLEAN

OneHolder == \A c \in TokenCallers : tokenCall[c].pc \in Holding => tokenLock = c

RefreshAccepted ==
  flavour = "oidc" /\ responseLost = FALSE =>
    /\ (\A c \in TokenCallers : tokenCall[c].pc # "store") => cached.refresh = issuer.accepts
    /\ \A c \in TokenCallers : tokenCall[c].pc = "store" =>
         tokenCall[c].body.refresh = issuer.accepts

GotFresh ==
  \A c \in TokenCallers : tokenCall[c].pc = "done" =>
    \/ IsFresh(tokenCall[c].got, tokenCall[c].now)
    \/ tokenCall[c].got = tokenCall[c].body

TokensInv == TokenTypes /\ OneHolder /\ RefreshAccepted /\ GotFresh

LEMMA TokensStart == TokensInit => TokensInv
  <1> SUFFICES ASSUME TokensInit PROVE TokensInv
    OBVIOUS
  <1> USE DEF TokensInit, NoCall, Nothing
  <1>1. TokenTypes
    BY TokensAssumption DEF TokenTypes, Token, TokenCall, Holding
  <1>2. OneHolder
    BY DEF OneHolder, Holding
  <1>3. RefreshAccepted
    BY DEF RefreshAccepted
  <1>4. GotFresh
    BY DEF GotFresh
  <1> QED BY <1>1, <1>2, <1>3, <1>4 DEF TokensInv

\* A step of one caller c that leaves its call as t.
LEMMA CallStepTypes ==
  ASSUME TokenTypes, NEW c \in TokenCallers, NEW t \in TokenCall,
         tokenCall' = [tokenCall EXCEPT ![c] = t],
         clock' \in Nat, cached' \in Token, issuer' \in [issued : Nat, accepts : Nat],
         responseLost' \in BOOLEAN
  PROVE  TokenTypes'
  BY DEF TokenTypes

LEMMA CallStepHolder ==
  ASSUME TokenTypes, OneHolder, NEW c \in TokenCallers, NEW t \in TokenCall,
         tokenCall' = [tokenCall EXCEPT ![c] = t],
         t.pc \in Holding => tokenLock' = c,
         \/ tokenLock' = tokenLock
         \/ tokenLock \in {c, "free"}
  PROVE  OneHolder'
  BY TokensAssumption DEF OneHolder, TokenTypes

LEMMA CallStepFresh ==
  ASSUME TokenTypes, GotFresh, NEW c \in TokenCallers, NEW t \in TokenCall,
         tokenCall' = [tokenCall EXCEPT ![c] = t],
         t.pc = "done" => IsFresh(t.got, t.now) \/ t.got = t.body
  PROVE  GotFresh'
  BY DEF GotFresh, TokenTypes, IsFresh

\* A step of a call that does not touch the tokens: it neither enters nor leaves the store.
LEMMA CallStepQuiet ==
  ASSUME TokenTypes, RefreshAccepted, NEW c \in TokenCallers, NEW t \in TokenCall,
         tokenCall' = [tokenCall EXCEPT ![c] = t], t.pc # "store", tokenCall[c].pc # "store",
         UNCHANGED <<flavour, cached, issuer, responseLost>>
  PROVE  RefreshAccepted'
  <1>1. \A d \in TokenCallers : (tokenCall'[d].pc = "store" <=> tokenCall[d].pc = "store")
                               /\ (tokenCall[d].pc = "store" => tokenCall'[d] = tokenCall[d])
    BY DEF TokenTypes
  <1> QED BY <1>1 DEF RefreshAccepted

\* While a caller holds the mutex in an exchange, nobody is about to store.
LEMMA NobodyStores ==
  ASSUME OneHolder, NEW c \in TokenCallers, tokenCall[c].pc \in {"prepare", "exchange"}
  PROVE  \A d \in TokenCallers : tokenCall[d].pc # "store"
  BY DEF OneHolder, Holding

LEMMA GetStep ==
  ASSUME TokensInv, NEW c \in TokenCallers, TokenGet(c) PROVE TokensInv'
  <1> DEFINE t == [NoCall EXCEPT !.pc = "lock", !.now = clock]
  <1>1. /\ t \in TokenCall /\ t.pc = "lock"
        /\ tokenCall' = [tokenCall EXCEPT ![c] = t]
    BY DEF TokenGet, TokensInv, TokenTypes, TokenCall, Token, Holding, NoCall, Nothing
  <1> HIDE DEF t
  <1> USE DEF TokensInv, TokenGet
  <1>2. TokenTypes'
    BY <1>1, CallStepTypes DEF TokenTypes
  <1>3. OneHolder'
    BY <1>1, CallStepHolder DEF Holding
  <1>4. RefreshAccepted'
    BY <1>1, CallStepQuiet
  <1>5. GotFresh'
    BY <1>1, CallStepFresh
  <1> QED BY <1>2, <1>3, <1>4, <1>5

LEMMA LockedStep ==
  ASSUME TokensInv, NEW c \in TokenCallers, TokenLocked(c) PROVE TokensInv'
  <1> USE DEF TokensInv
  <1>1. CASE IsFresh(cached, tokenCall[c].now)
    <2> DEFINE t == [tokenCall[c] EXCEPT !.pc = "done", !.got = cached]
    <2>1. /\ t \in TokenCall /\ t.pc = "done" /\ t.got = cached /\ t.now = tokenCall[c].now
          /\ tokenCall' = [tokenCall EXCEPT ![c] = t]
      BY <1>1 DEF TokenLocked, TokenTypes, TokenCall
    <2>2. tokenCall[c].pc = "lock" /\ UNCHANGED <<flavour, clock, cached, issuer, responseLost, tokenLock>>
      BY <1>1 DEF TokenLocked
    <2> HIDE DEF t
    <2>3. TokenTypes'
      BY <2>1, <2>2, CallStepTypes DEF TokenTypes
    <2>4. OneHolder'
      BY <2>1, <2>2, CallStepHolder DEF Holding
    <2>5. RefreshAccepted'
      BY <2>1, <2>2, CallStepQuiet
    <2>6. GotFresh'
      BY <1>1, <2>1, CallStepFresh
    <2> QED BY <2>3, <2>4, <2>5, <2>6
  <1>2. CASE ~ IsFresh(cached, tokenCall[c].now)
    <2> DEFINE t == [tokenCall[c] EXCEPT !.pc = "prepare"]
    <2>1. /\ t \in TokenCall /\ t.pc = "prepare"
          /\ tokenCall' = [tokenCall EXCEPT ![c] = t]
      BY <1>2 DEF TokenLocked, TokenTypes, TokenCall, Holding
    <2>2. /\ tokenCall[c].pc = "lock" /\ UNCHANGED <<flavour, clock, cached, issuer, responseLost>>
          /\ tokenLock = "free" /\ tokenLock' = c
      BY <1>2 DEF TokenLocked
    <2> HIDE DEF t
    <2>3. TokenTypes'
      BY <2>1, <2>2, CallStepTypes DEF TokenTypes
    <2>4. OneHolder'
      BY <2>1, <2>2, CallStepHolder
    <2>5. RefreshAccepted'
      BY <2>1, <2>2, CallStepQuiet
    <2>6. GotFresh'
      BY <2>1, CallStepFresh
    <2> QED BY <2>3, <2>4, <2>5, <2>6
  <1> QED BY <1>1, <1>2

LEMMA PreparedStep ==
  ASSUME TokensInv, NEW c \in TokenCallers, Prepared(c) PROVE TokensInv'
  <1> DEFINE t == [tokenCall[c] EXCEPT !.pc = "exchange", !.since = clock, !.attempt = 1]
  <1>1. /\ t \in TokenCall /\ t.pc = "exchange"
        /\ tokenCall' = [tokenCall EXCEPT ![c] = t]
    BY DEF Prepared, TokensInv, TokenTypes, TokenCall, Holding
  <1>2. tokenLock = c
    BY DEF Prepared, TokensInv, OneHolder, Holding
  <1> HIDE DEF t
  <1> USE DEF TokensInv, Prepared
  <1>3. TokenTypes'
    BY <1>1, CallStepTypes DEF TokenTypes
  <1>4. OneHolder'
    BY <1>1, <1>2, CallStepHolder
  <1>5. RefreshAccepted'
    BY <1>1, CallStepQuiet
  <1>6. GotFresh'
    BY <1>1, CallStepFresh
  <1> QED BY <1>3, <1>4, <1>5, <1>6

LEMMA ExchangedStep ==
  ASSUME TokensInv, NEW c \in TokenCallers, NEW rotates \in BOOLEAN, NEW expires \in Nat,
         Exchanged(c, rotates, expires)
  PROVE  TokensInv'
  <1> DEFINE b == [id |-> issuer'.issued, refresh |-> issuer'.accepts, expires |-> expires]
             t == [tokenCall[c] EXCEPT !.pc = "store", !.body = b]
  <1> USE DEF TokensInv
  <1>0. issuer' \in [issued : Nat, accepts : Nat]
    BY DEF Exchanged, Issued, TokenTypes
  <1>1. /\ t \in TokenCall /\ t.pc = "store" /\ t.body.refresh = issuer'.accepts
        /\ tokenCall' = [tokenCall EXCEPT ![c] = t]
    BY <1>0 DEF Exchanged, TokenTypes, TokenCall, Holding, Token
  <1>2. tokenLock = c /\ UNCHANGED <<flavour, clock, cached, tokenLock, responseLost>>
    BY DEF Exchanged, OneHolder, Holding
  <1>3. \A d \in TokenCallers : tokenCall[d].pc # "store"
    BY NobodyStores DEF Exchanged
  <1> HIDE DEF t
  <1>4. TokenTypes'
    BY <1>0, <1>1, <1>2, CallStepTypes DEF TokenTypes
  <1>5. OneHolder'
    BY <1>1, <1>2, CallStepHolder
  <1>6. RefreshAccepted'
    BY <1>1, <1>3 DEF RefreshAccepted, TokenTypes
  <1>7. GotFresh'
    BY <1>1, CallStepFresh
  <1> QED BY <1>4, <1>5, <1>6, <1>7

\* What Retry leaves the call as: one attempt further, or failed with the mutex released.
LEMMA RetryCall ==
  ASSUME TokensInv, NEW c \in TokenCallers, tokenCall[c].pc = "exchange", Retry(c)
  PROVE  \E t \in TokenCall :
           /\ tokenCall' = [tokenCall EXCEPT ![c] = t]
           /\ \/ t.pc = "exchange" /\ tokenLock' = tokenLock
              \/ t.pc = "failed" /\ tokenLock' = "free"
  <1> USE DEF TokensInv, TokenTypes, TokenCall, Retry
  <1>1. CASE flavour # "exec" /\ tokenCall[c].attempt < MaxAttempts
    <2> DEFINE t == [tokenCall[c] EXCEPT !.attempt = @ + 1]
    <2>1. t \in TokenCall /\ t.pc = "exchange" /\ tokenCall' = [tokenCall EXCEPT ![c] = t]
      BY <1>1
    <2> QED BY <1>1, <2>1
  <1>2. CASE ~ (flavour # "exec" /\ tokenCall[c].attempt < MaxAttempts)
    <2> DEFINE t == [NoCall EXCEPT !.pc = "failed"]
    <2>1. t \in TokenCall /\ t.pc = "failed"
      BY DEF NoCall, Nothing, Token
    <2> QED BY <1>2, <2>1
  <1> QED BY <1>1, <1>2

LEMMA RetryStep ==
  ASSUME TokensInv, NEW c \in TokenCallers, tokenCall[c].pc = "exchange", Retry(c),
         clock' \in Nat, cached' \in Token, issuer' \in [issued : Nat, accepts : Nat],
         responseLost' \in BOOLEAN
  PROVE  TokenTypes' /\ OneHolder' /\ GotFresh'
  <1> USE DEF TokensInv
  <1>1. PICK t \in TokenCall :
           /\ tokenCall' = [tokenCall EXCEPT ![c] = t]
           /\ \/ t.pc = "exchange" /\ tokenLock' = tokenLock
              \/ t.pc = "failed" /\ tokenLock' = "free"
    BY RetryCall
  <1>2. tokenLock = c
    BY DEF OneHolder, Holding
  <1>3. TokenTypes'
    BY <1>1, CallStepTypes
  <1>4. OneHolder'
    BY <1>1, <1>2, CallStepHolder DEF Holding
  <1>5. GotFresh'
    BY <1>1, CallStepFresh
  <1> QED BY <1>3, <1>4, <1>5

LEMMA UnansweredStep ==
  ASSUME TokensInv, NEW c \in TokenCallers, TokenUnanswered(c) PROVE TokensInv'
  <1>1. TokenTypes' /\ OneHolder' /\ GotFresh'
    BY RetryStep DEF TokenUnanswered, TokensInv, TokenTypes
  <1>2. PICK t \in TokenCall : /\ tokenCall' = [tokenCall EXCEPT ![c] = t]
                               /\ t.pc \in {"exchange", "failed"}
    BY RetryCall DEF TokenUnanswered
  <1>3. RefreshAccepted'
    BY <1>2, CallStepQuiet DEF TokenUnanswered, TokensInv
  <1> QED BY <1>1, <1>3 DEF TokensInv

LEMMA AnswerLostStep ==
  ASSUME TokensInv, NEW c \in TokenCallers, NEW rotates \in BOOLEAN, TokenAnswerLost(c, rotates)
  PROVE  TokensInv'
  <1>1. issuer' \in [issued : Nat, accepts : Nat]
    BY DEF TokenAnswerLost, Issued, TokensInv, TokenTypes
  <1>2. TokenTypes' /\ OneHolder' /\ GotFresh'
    BY <1>1, RetryStep DEF TokenAnswerLost, TokensInv, TokenTypes
  <1>3. RefreshAccepted'
    BY DEF TokenAnswerLost, RefreshAccepted
  <1> QED BY <1>2, <1>3 DEF TokensInv

\* A call that ends without a token: refused, cancelled or returned.
LEMMA EndStep ==
  ASSUME TokensInv, NEW c \in TokenCallers, NEW t \in TokenCall, t.pc \in {"idle", "failed"},
         tokenCall' = [tokenCall EXCEPT ![c] = t],
         tokenLock' = tokenLock \/ (tokenLock = c /\ tokenLock' = "free"),
         tokenCall[c].pc = "store" => responseLost' = TRUE,
         tokenCall[c].pc # "store" => responseLost' = responseLost,
         UNCHANGED <<flavour, clock, cached, issuer>>
  PROVE  TokensInv'
  <1> USE DEF TokensInv
  <1>1. TokenTypes'
    BY CallStepTypes DEF TokenTypes
  <1>2. OneHolder'
    BY CallStepHolder DEF Holding
  <1>3. RefreshAccepted'
    <2>1. CASE tokenCall[c].pc = "store"
      BY <2>1 DEF RefreshAccepted
    <2>2. CASE tokenCall[c].pc # "store"
      BY <2>2, CallStepQuiet
    <2> QED BY <2>1, <2>2
  <1>4. GotFresh'
    BY CallStepFresh
  <1> QED BY <1>1, <1>2, <1>3, <1>4

LEMMA EndedCalls == NoCall \in TokenCall /\ [NoCall EXCEPT !.pc = "failed"] \in TokenCall
  BY DEF NoCall, Nothing, TokenCall, Token

LEMMA RefusedStep ==
  ASSUME TokensInv, NEW c \in TokenCallers, TokenRefused(c) PROVE TokensInv'
  <1>1. tokenLock = c
    BY DEF TokenRefused, TokensInv, OneHolder, Holding
  <1> DEFINE t == [NoCall EXCEPT !.pc = "failed"]
  <1>2. t \in TokenCall /\ t.pc = "failed"
    BY EndedCalls DEF NoCall
  <1>3. tokenCall' = [tokenCall EXCEPT ![c] = t]
    BY DEF TokenRefused
  <1>4. /\ tokenCall[c].pc = "store" => responseLost' = TRUE
        /\ tokenCall[c].pc # "store" => responseLost' = responseLost
    <2> responseLost \in BOOLEAN
      BY DEF TokensInv, TokenTypes
    <2> QED BY Zenon DEF TokenRefused
  <1> HIDE DEF t
  <1> QED BY <1>1, <1>2, <1>3, <1>4, EndStep DEF TokenRefused

LEMMA CancelledStep ==
  ASSUME TokensInv, NEW c \in TokenCallers, TokenCancelled(c) PROVE TokensInv'
  <1>1. NoCall.pc = "idle"
    BY DEF NoCall
  <1>2. /\ tokenCall[c].pc = "store" => responseLost' = TRUE
        /\ tokenCall[c].pc # "store" => responseLost' = responseLost
    <2> responseLost \in BOOLEAN
      BY DEF TokensInv, TokenTypes
    <2> QED BY Zenon DEF TokenCancelled
  <1>3. tokenLock' = tokenLock \/ (tokenLock = c /\ tokenLock' = "free")
    BY DEF TokenCancelled
  <1> QED BY <1>1, <1>2, <1>3, EndedCalls, EndStep DEF TokenCancelled

LEMMA ReturnStep ==
  ASSUME TokensInv, NEW c \in TokenCallers, TokenReturn(c) PROVE TokensInv'
  <1>1. NoCall.pc = "idle"
    BY DEF NoCall
  <1> QED BY <1>1, EndedCalls, EndStep DEF TokenReturn

LEMMA StoreStep ==
  ASSUME TokensInv, NEW c \in TokenCallers, TokenStore(c) PROVE TokensInv'
  <1> DEFINE t == [tokenCall[c] EXCEPT !.pc = "done", !.got = tokenCall[c].body]
  <1> USE DEF TokensInv
  <1>1. tokenCall[c].pc = "store" /\ tokenLock = c
    BY DEF TokenStore, OneHolder, Holding
  <1>2. /\ t \in TokenCall /\ t.pc = "done" /\ t.got = t.body
        /\ tokenCall' = [tokenCall EXCEPT ![c] = t]
        /\ cached' = tokenCall[c].body /\ cached' \in Token
    BY DEF TokenStore, StoredToken, TokenTypes, TokenCall
  <1> HIDE DEF t
  <1>3. TokenTypes'
    BY <1>2, CallStepTypes DEF TokenStore, TokenTypes
  <1>4. OneHolder'
    BY <1>1, <1>2, CallStepHolder DEF TokenStore, Holding
  <1>5. RefreshAccepted'
    <2>1. \A d \in TokenCallers : tokenCall'[d].pc # "store"
      BY <1>1, <1>2 DEF OneHolder, Holding, TokenTypes
    <2> QED BY <1>1, <1>2, <2>1 DEF RefreshAccepted, TokenStore
  <1>6. GotFresh'
    BY <1>2, CallStepFresh
  <1> QED BY <1>3, <1>4, <1>5, <1>6

LEMMA TokensStep == TokensInv /\ [TokensNext]_tokenVars => TokensInv'
  <1> SUFFICES ASSUME TokensInv, [TokensNext]_tokenVars PROVE TokensInv'
    OBVIOUS
  <1>1. CASE Advance
    BY <1>1 DEF Advance, TokensInv, TokenTypes, OneHolder, RefreshAccepted, GotFresh, IsFresh
  <1>2. CASE UNCHANGED tokenVars
    BY <1>2 DEF tokenVars, TokensInv, TokenTypes, OneHolder, RefreshAccepted, GotFresh, IsFresh
  <1>3. ASSUME NEW c \in TokenCallers, TokenEndpoint(c) \/ MintJwt(c) \/ SpawnPlugin(c)
        PROVE TokensInv'
    BY <1>3, PreparedStep DEF TokenEndpoint, MintJwt, SpawnPlugin
  <1>4. ASSUME NEW c \in TokenCallers, Exchange(c) PROVE TokensInv'
    <2>1. clock + Lifetime \in Nat
      BY TokensAssumption DEF TokensInv, TokenTypes
    <2> QED BY <1>4, <2>1, ExchangedStep DEF Exchange
  <1>5. ASSUME NEW c \in TokenCallers, NEW rotates \in BOOLEAN, Refreshed(c, rotates)
        PROVE TokensInv'
    <2>1. tokenCall[c].since + Lifetime \in Nat
      BY TokensAssumption DEF TokensInv, TokenTypes, TokenCall
    <2> QED BY <1>5, <2>1, ExchangedStep DEF Refreshed
  <1>6. ASSUME NEW c \in TokenCallers, NEW stamped \in BOOLEAN, PluginOutput(c, stamped)
        PROVE TokensInv'
    <2>1. ExpiresAt(stamped) \in Nat
      BY TokensAssumption DEF TokensInv, TokenTypes, ExpiresAt
    <2> QED BY <1>6, <2>1, ExchangedStep DEF PluginOutput
  <1> QED
    BY <1>1, <1>2, <1>3, <1>4, <1>5, <1>6, GetStep, LockedStep, UnansweredStep, RefusedStep,
       StoreStep, CancelledStep, ReturnStep, AnswerLostStep DEF TokensNext

\* The token caches' invariant: one caller at a time exchanges, and the refresh token the
\* issuer accepts is in the cache or in that caller's hands.
THEOREM TokensInvariant == TokensSpec => []TokensInv
  BY TokensStart, TokensStep, PTL DEF TokensSpec

\* get of the OIDC, exec and GitHub caches: for any number of callers, attempts and exchanges
\* the persisted refresh token is the one the issuer accepts unless an answer was lost, and
\* nobody is handed a token that was not fresh when asked for, but for one just fetched.
THEOREM RefreshTokenKept == TokensSpec => []RefreshTokenCurrent
  <1>1. TokensInv => RefreshTokenCurrent
    BY DEF TokensInv, RefreshAccepted, GotFresh, RefreshTokenCurrent
  <1> QED BY <1>1, TokensInvariant, PTL
-----------------------------------------------------------------------------
(* The known hosts.  Until a write fails half way or a line is written onto*)
(* another, the file and the loaded entries say the same, and unless       *)
(* checking is off every pinned key is one of them.                        *)

HostTypes ==
  /\ fileLines \in Seq(HostLine)
  /\ torn = TRUE => fileLines # <<>>
  /\ pinned \in [Hosts \X Ports \X KeyTypes -> SUBSET Keys]
  /\ contacts \in Nat
  /\ torn \in BOOLEAN /\ everTorn \in BOOLEAN /\ glued \in BOOLEAN

Intact == everTorn = FALSE /\ glued = FALSE

FileKnown == Intact => entriesKnown = Load

PinsRecorded ==
  Intact /\ mode # "No" =>
    \A h \in Hosts, p \in Ports, t \in KeyTypes : pinned[<<h, p, t>>] \subseteq RecordedFor(h, p, t)

HostKeysInv == HostTypes /\ FileKnown /\ PinsRecorded

LEMMA HostKeysStart == HostKeysInit => HostKeysInv
  <1> SUFFICES ASSUME HostKeysInit PROVE HostKeysInv
    OBVIOUS
  <1>1. HostTypes
    BY HostKeysAssumption DEF HostKeysInit, HostTypes
  <1>2. FileKnown
    BY DEF HostKeysInit, FileKnown
  <1>3. PinsRecorded
    BY DEF HostKeysInit, PinsRecorded
  <1> QED BY <1>1, <1>2, <1>3 DEF HostKeysInv

LEMMA LineForIsLine ==
  ASSUME NEW h \in Hosts, NEW p \in Ports, NEW t \in KeyTypes, NEW k \in Keys
  PROVE  /\ LineFor(h, p, t, k) \in HostLine
         /\ LineFor(h, p, t, k) # Garbage
         /\ LineFor(h, p, t, k).forms \cap HostLookupForms(h, p) # {}
  <1>1. CanonicalHostForm(h, p) \in HostForms /\ CanonicalHostForm(h, p) \in HostLookupForms(h, p)
    BY DEF CanonicalHostForm, HostForms, HostLookupForms
  <1>2. LineFor(h, p, t, k).forms = {CanonicalHostForm(h, p)} /\ Garbage.forms = {}
    BY DEF LineFor, Garbage
  <1>3. LineFor(h, p, t, k) \in HostLine
    BY <1>1 DEF LineFor, HostLine
  <1> QED BY <1>1, <1>2, <1>3

LEMMA DamagedIsLine ==
  ASSUME NEW l \in HostLine PROVE Damaged(l) \subseteq HostLine
  <1>1. CASE l = Garbage
    BY <1>1 DEF Damaged, ParseLine
  <1>2. CASE l # Garbage
    <2>1. l \in [forms : SUBSET HostForms, type : KeyTypes, key : Keys \cup {MixedKey}]
      BY <1>2 DEF HostLine
    <2>2. [l EXCEPT !.key = MixedKey] \in HostLine
      BY <2>1 DEF HostLine
    <2> QED BY <1>2, <2>2 DEF Damaged, ParseLine, HostLine
  <1> QED BY <1>1, <1>2

LEMMA AppendedLineType ==
  ASSUME fileLines \in Seq(HostLine), NEW l \in HostLine, NEW s \in AppendedLines(l),
         torn = TRUE => fileLines # <<>>
  PROVE  s \in Seq(HostLine) /\ s # <<>>
  <1> DEFINE n == Len(fileLines)
  <1>1. n \in Nat /\ fileLines \in [1 .. n -> HostLine]
    OBVIOUS
  <1>2. CASE torn = TRUE
    <2>1. n \in 1 .. n /\ fileLines[n] \in HostLine
      BY <1>1, <1>2
    <2>2. PICK d \in Damaged(fileLines[n]) : s = [fileLines EXCEPT ![n] = d]
      BY <1>2 DEF AppendedLines
    <2>3. d \in HostLine
      BY <2>1, <2>2, DamagedIsLine
    <2>4. s \in [1 .. n -> HostLine]
      BY <1>1, <2>2, <2>3
    <2> HIDE DEF n
    <2>5. s \in Seq(HostLine) /\ Len(s) = n
      BY <1>1, <2>4
    <2> QED BY <2>1, <2>5
  <1>3. CASE torn # TRUE
    <2>1. s = Append(fileLines, l)
      BY <1>3 DEF AppendedLines
    <2> QED BY <2>1
  <1> QED BY <1>2, <1>3

\* A match is a recorded key; an unknown host has none.
LEMMA VerifyRecorded ==
  ASSUME NEW h, NEW p, NEW t, NEW k
  PROVE  /\ Verify(h, p, t, k) = "Match" => k \in RecordedFor(h, p, t)
         /\ Verify(h, p, t, k) = "Unknown" => RecordedFor(h, p, t) = {}
  BY DEF Verify, RecordedFor

\* What is recorded stays recorded while entries are only added.
LEMMA RecordedGrows ==
  ASSUME NEW h, NEW p, NEW t, entriesKnown \subseteq entriesKnown'
  PROVE  RecordedFor(h, p, t) \subseteq RecordedFor(h, p, t)'
  BY DEF RecordedFor, EntriesFor

LEMMA PinKeeps ==
  ASSUME HostTypes, NEW h \in Hosts, NEW p \in Ports, NEW t \in KeyTypes, NEW k \in Keys,
         Pin(h, p, t, k)
  PROVE  /\ pinned' \in [Hosts \X Ports \X KeyTypes -> SUBSET Keys]
         /\ \A x \in Hosts \X Ports \X KeyTypes : pinned'[x] = pinned[x] \/ (x = <<h, p, t>> /\ pinned'[x] = {k})
  BY DEF Pin, HostTypes

LEMMA PinRecorded ==
  ASSUME HostTypes, PinsRecorded, NEW h \in Hosts, NEW p \in Ports, NEW t \in KeyTypes,
         NEW k \in Keys, Pin(h, p, t, k), UNCHANGED mode, Intact' => Intact,
         entriesKnown \subseteq entriesKnown',
         Intact /\ mode # "No" => k \in RecordedFor(h, p, t)'
  PROVE  PinsRecorded'
  <1> SUFFICES ASSUME Intact, mode # "No",
                      NEW g \in Hosts, NEW q \in Ports, NEW u \in KeyTypes
               PROVE  pinned'[<<g, q, u>>] \subseteq RecordedFor(g, q, u)'
    BY DEF PinsRecorded
  <1>1. pinned[<<g, q, u>>] \subseteq RecordedFor(g, q, u)'
    BY RecordedGrows DEF PinsRecorded
  <1>2. \/ pinned'[<<g, q, u>>] = pinned[<<g, q, u>>]
        \/ <<g, q, u>> = <<h, p, t>> /\ pinned'[<<g, q, u>>] = {k}
    BY PinKeeps
  <1> QED BY <1>1, <1>2

LEMMA KnownStep ==
  ASSUME HostKeysInv, NEW h \in Hosts, NEW p \in Ports, NEW t \in KeyTypes, NEW k \in Keys,
         CheckKnown(h, p, t, k)
  PROVE  HostKeysInv'
  <1> USE DEF HostKeysInv
  <1>1. UNCHANGED <<mode, everTorn, glued, torn, fileLines, entriesKnown>> /\ contacts' \in Nat
    BY DEF CheckKnown, Decide, HostTypes
  <1>2. FileKnown' /\ Intact' = Intact
    BY <1>1 DEF FileKnown, Load, Intact
  <1>3. CASE pinned' = pinned
    BY <1>1, <1>2, <1>3 DEF HostTypes, PinsRecorded, RecordedFor, EntriesFor
  <1>4. CASE pinned' # pinned
    <2>1. Pin(h, p, t, k) /\ (mode = "No" \/ Verify(h, p, t, k) = "Match")
      BY <1>4 DEF CheckKnown
    <2>2. mode # "No" => k \in RecordedFor(h, p, t)'
      BY <1>1, <2>1, VerifyRecorded, RecordedGrows
    <2>3. PinsRecorded'
      BY <1>1, <1>2, <2>1, <2>2, PinRecorded
    <2>4. HostTypes'
      BY <1>1, <2>1, PinKeeps DEF HostTypes
    <2> QED BY <1>2, <2>3, <2>4
  <1> QED BY <1>3, <1>4

LEMMA AppendsStep ==
  ASSUME HostKeysInv, NEW h \in Hosts, NEW p \in Ports, NEW t \in KeyTypes, NEW k \in Keys,
         CheckAppends(h, p, t, k)
  PROVE  HostKeysInv'
  <1> USE DEF HostKeysInv
  <1> DEFINE l == LineFor(h, p, t, k)
  <1>1. /\ UNCHANGED <<mode, everTorn>> /\ contacts' \in Nat /\ Pin(h, p, t, k)
        /\ entriesKnown' = entriesKnown \cup {l} /\ fileLines' \in AppendedLines(l)
        /\ torn' = FALSE /\ glued' = (glued \/ torn)
    BY DEF CheckAppends, AppendBoth, Decide, HostTypes
  <1>2. l \in HostLine /\ l # Garbage /\ l.forms \cap HostLookupForms(h, p) # {}
    BY LineForIsLine
  <1>3. l.type = t /\ l.key = k
    BY DEF LineFor
  <1> HIDE DEF l
  <1>4. k \in RecordedFor(h, p, t)'
    BY <1>1, <1>2, <1>3 DEF RecordedFor, EntriesFor
  <1>5. fileLines' \in Seq(HostLine) /\ fileLines' # <<>>
    BY <1>1, <1>2, AppendedLineType DEF HostTypes
  <1>6. (Intact' => Intact /\ torn = FALSE) /\ glued' \in BOOLEAN
    BY <1>1, Zenon DEF HostTypes, Intact
  <1>7. HostTypes'
    BY <1>1, <1>5, <1>6, PinKeeps DEF HostTypes
  <1>8. FileKnown'
    <2> SUFFICES ASSUME Intact, torn = FALSE PROVE entriesKnown' = Load'
      BY <1>1, <1>6 DEF FileKnown
    <2>1. fileLines' = Append(fileLines, l) /\ entriesKnown = Load /\ fileLines \in Seq(HostLine)
      BY <1>1 DEF AppendedLines, FileKnown, HostTypes
    <2>2. DOMAIN fileLines' = (DOMAIN fileLines) \cup {Len(fileLines) + 1}
      BY <2>1
    <2>3. {fileLines'[i] : i \in DOMAIN fileLines'} = {fileLines[i] : i \in DOMAIN fileLines} \cup {l}
      BY <2>1, <2>2
    <2> QED BY <1>1, <1>2, <2>1, <2>3 DEF Load, ParseLine
  <1>9. PinsRecorded'
    BY <1>1, <1>4, <1>6, PinRecorded
  <1> QED BY <1>7, <1>8, <1>9

LEMMA AppendFailsStep ==
  ASSUME HostKeysInv, NEW h \in Hosts, NEW p \in Ports, NEW t \in KeyTypes, NEW k \in Keys,
         CheckAppendFails(h, p, t, k)
  PROVE  HostKeysInv'
  <1> USE DEF HostKeysInv
  <1>1. UNCHANGED <<mode, entriesKnown, pinned, glued>> /\ contacts' \in Nat
    BY DEF CheckAppendFails, Decide, HostTypes
  <1>2. CASE UNCHANGED <<fileLines, torn, everTorn>>
    BY <1>1, <1>2 DEF HostTypes, FileKnown, PinsRecorded, RecordedFor, EntriesFor, Load, Intact
  <1>3. CASE /\ \E l \in Damaged(LineFor(h, p, t, k)) : fileLines' \in AppendedLines(l)
             /\ torn' = TRUE /\ everTorn' = TRUE
    <2>1. PICK l \in Damaged(LineFor(h, p, t, k)) : fileLines' \in AppendedLines(l)
      BY <1>3
    <2>2. l \in HostLine
      BY <2>1, LineForIsLine, DamagedIsLine
    <2>3. fileLines' \in Seq(HostLine) /\ fileLines' # <<>>
      BY <2>1, <2>2, AppendedLineType DEF HostTypes
    <2> QED BY <1>1, <1>3, <2>3 DEF HostTypes, FileKnown, PinsRecorded, Intact
  <1> QED BY <1>2, <1>3 DEF CheckAppendFails

LEMMA HostKeysStep == HostKeysInv /\ [HostKeysNext]_hostVars => HostKeysInv'
  <1> SUFFICES ASSUME HostKeysInv, [HostKeysNext]_hostVars PROVE HostKeysInv'
    OBVIOUS
  <1>1. CASE Reload
    BY <1>1 DEF Reload, HostKeysInv, HostTypes, FileKnown, PinsRecorded, RecordedFor, EntriesFor,
       Load, Intact
  <1>2. CASE UNCHANGED hostVars
    BY <1>2 DEF hostVars, HostKeysInv, HostTypes, FileKnown, PinsRecorded, RecordedFor, EntriesFor,
       Load, Intact
  <1> QED BY <1>1, <1>2, KnownStep, AppendsStep, AppendFailsStep DEF HostKeysNext

\* The host keys' invariant: as long as no write failed half way and none was glued to a line
\* without a newline, what the verifier looks up is what the file says, and every key it
\* accepted first is in it.
THEOREM HostKeysInvariant == HostKeysSpec => []HostKeysInv
  BY HostKeysStart, HostKeysStep, PTL DEF HostKeysSpec

\* HostVerifier::check trusts on first use and verifies ever after, for any hosts, ports, key
\* types and contents of the file, its last line with or without a newline, until a write
\* fails half way or is glued to a line without one.
THEOREM HostKeysTrusted == HostKeysSpec => HostKeysPinned
  <1> DEFINE A == mode # "No" /\ ~everTorn /\ ~glued => AcceptsAsPinned
  <1>1. HostKeysInv /\ [HostKeysNext]_hostVars => [A]_hostVars
    <2> SUFFICES ASSUME HostKeysInv, HostKeysNext, mode # "No", Intact,
                        verdict'.ok, contacts' > contacts
                 PROVE  AcceptsAsPinned
      BY DEF HostKeysInv, HostTypes, Intact, AcceptsAsPinned
    <2>1. contacts \in Nat
      BY DEF HostKeysInv, HostTypes
    <2>2. ~ Reload
      BY <2>1 DEF Reload
    <2>3. PICK h \in Hosts, p \in Ports, t \in KeyTypes, k \in Keys :
            CheckKnown(h, p, t, k) \/ CheckAppends(h, p, t, k) \/ CheckAppendFails(h, p, t, k)
      BY <2>2 DEF HostKeysNext
    <2>4. /\ verdict'.host = h /\ verdict'.port = p /\ verdict'.type = t /\ verdict'.key = k
      BY <2>3 DEF CheckKnown, CheckAppends, CheckAppendFails, Decide
    <2>5. pinned[<<h, p, t>>] \subseteq RecordedFor(h, p, t)
      BY DEF HostKeysInv, PinsRecorded
    <2>6. CASE CheckKnown(h, p, t, k)
      <3>1. Verify(h, p, t, k) = "Match"
        BY <2>6 DEF CheckKnown, Decide
      <3> QED BY <2>4, <2>5, <3>1, VerifyRecorded DEF AcceptsAsPinned
    <2>7. CASE CheckAppends(h, p, t, k)
      <3>1. RecordedFor(h, p, t) = {}
        BY <2>7, VerifyRecorded DEF CheckAppends
      <3> QED BY <2>4, <2>5, <3>1 DEF AcceptsAsPinned
    <2>8. CASE CheckAppendFails(h, p, t, k)
      BY <2>8 DEF CheckAppendFails, Decide
    <2> QED BY <2>3, <2>6, <2>7, <2>8
  <1> QED BY <1>1, HostKeysInvariant, PTL DEF HostKeysSpec, HostKeysPinned
-----------------------------------------------------------------------------
(* The configuration.  What reload has read and not stored is as good as   *)
(* what is active, and unless the file was edited or a signal is waiting it*)
(* is what the file says.                                                  *)

Runnable(c) ==
  /\ \A list \in {c.clusters, c.plugins} :
        \A i, j \in DOMAIN list : i # j => list[i].name # list[j].name
  /\ \A i \in DOMAIN c.clusters : c.clusters[i].in_cluster = (c.clusters[i].kubeconfig = Absent)
  /\ {c.polling[f] : f \in DOMAIN c.polling} \subseteq Nat \ {0}

LEMMA DistinctNames ==
  ASSUME NEW S, NEW list \in Seq(S), FreshNames(Field(list, "name"))
  PROVE  \A i, j \in DOMAIN list : i # j => list[i].name # list[j].name
  <1> SUFFICES ASSUME NEW i \in DOMAIN list, NEW j \in DOMAIN list, i # j
               PROVE  list[i].name # list[j].name
    OBVIOUS
  <1>1. DOMAIN list = 1 .. Len(list) /\ Len(list) \in Nat
    OBVIOUS
  <1>2. /\ DOMAIN Field(list, "name") = DOMAIN list
        /\ \A k \in DOMAIN list : Field(list, "name")[k] = list[k].name
    BY Zenon DEF Field
  <1>3. CASE i < j
    <2>1. i \in 1 .. j - 1
      BY <1>1, <1>3
    <2> QED BY <1>2, <2>1 DEF FreshNames, FirstUse
  <1>4. CASE j < i
    <2>1. j \in 1 .. i - 1
      BY <1>1, <1>4
    <2> QED BY <1>2, <2>1 DEF FreshNames, FirstUse
  <1> QED BY <1>1, <1>3, <1>4

Cluster == [name : STRING, in_cluster : BOOLEAN, kubeconfig : Optional(STRING)]
Plugin == [name : STRING]

LEMMA ConfigLists ==
  ASSUME NEW doc \in Document
  PROVE  Config(doc).clusters \in Seq(Cluster) /\ Config(doc).plugins \in Seq(Plugin)
  <1>1. doc.clusters \in Optional(Seq(Cluster)) /\ doc.plugins \in Optional(Seq(Plugin))
    BY DEF Document, Cluster, Plugin
  <1>2. Config(doc).clusters = Given(doc.clusters, <<>>) /\ Config(doc).plugins = Given(doc.plugins, <<>>)
    BY DEF Config
  <1> QED BY <1>1, <1>2 DEF Given, Optional

LEMMA OneWay ==
  ASSUME NEW in \in BOOLEAN, NEW absent \in BOOLEAN,
         ~ (in /\ ~ absent), ~ (~ in /\ absent)
  PROVE  in = absent
  OBVIOUS

LEMMA ConfigPolling ==
  ASSUME NEW doc \in Document, ValidatePolling(Polling(doc))
  PROVE  {Polling(doc)[f] : f \in DOMAIN Polling(doc)} \subseteq Nat \ {0}
  <1>1. /\ doc.repo_interval_seconds \in Optional(Nat)
        /\ doc.auto_heal_interval_seconds \in Optional(Nat)
    BY DEF Document
  <1>2. /\ Polling(doc).repo_interval_seconds \in Nat
        /\ Polling(doc).auto_heal_interval_seconds \in Nat
    BY <1>1 DEF Polling, Given, Optional
  <1>3. DOMAIN Polling(doc) = {"repo_interval_seconds", "auto_heal_interval_seconds"}
    BY DEF Polling
  <1> QED BY <1>2, <1>3 DEF ValidatePolling

LEMMA ValidRunnable ==
  ASSUME NEW doc \in Document, Validate(Config(doc)) PROVE Runnable(Config(doc))
  <1> DEFINE c == Config(doc)
  <1>1. c.clusters \in Seq(Cluster) /\ c.plugins \in Seq(Plugin)
    BY ConfigLists
  <1>2. /\ ValidateClusters(c.clusters) /\ ValidatePlugins(c.plugins) /\ ValidatePolling(c.polling)
    BY DEF Validate
  <1>3. c.polling = Polling(doc)
    BY DEF Config
  <1> HIDE DEF c
  <1>4. \A list \in {c.clusters, c.plugins} :
          \A i, j \in DOMAIN list : i # j => list[i].name # list[j].name
    BY <1>1, <1>2, DistinctNames DEF ValidateClusters, ValidatePlugins
  <1>5. ASSUME NEW i \in DOMAIN c.clusters
        PROVE  c.clusters[i].in_cluster = (c.clusters[i].kubeconfig = Absent)
    <2> DEFINE e == c.clusters[i]
               in == e.in_cluster
               a == e.kubeconfig = Absent
    <2>0. e \in Cluster
      BY <1>1, <1>5
    <2>1. in \in BOOLEAN
      <3> HIDE DEF e
      <3> QED BY <2>0, Zenon DEF Cluster
    <2>2. ~ (in /\ ~ a) /\ ~ (~ in /\ a)
      BY <1>2, <1>5, Zenon DEF ValidateClusters
    <2>3. a \in BOOLEAN
      OBVIOUS
    <2> HIDE DEF e, in, a
    <2>4. in = a
      BY <2>1, <2>2, <2>3, OneWay, Zenon
    <2> QED BY <2>4, Zenon DEF e, in, a
  <1>6. {c.polling[f] : f \in DOMAIN c.polling} \subseteq Nat \ {0}
    BY <1>2, <1>3, ConfigPolling
  <1> QED BY <1>4, <1>5, <1>6 DEF Runnable, c

LEMMA LoadedRunnable ==
  ASSUME NEW text \in ConfigTexts, LoadAndValidate(text) # Refused
  PROVE  Runnable(LoadAndValidate(text))
  <1>1. text \notin {Unreadable, Malformed} /\ Validate(Config(text))
        /\ LoadAndValidate(text) = Config(text)
    BY DEF LoadAndValidate
  <1>2. text \in Document
    BY <1>1, ConfigurationAssumption
  <1> QED BY <1>1, <1>2, ValidRunnable

LEMMA DefaultsRunnable == Runnable(Config(EmptyDoc))
  <1>1. EmptyDoc \in Document
    BY DEF EmptyDoc, Document, Optional
  <1> DEFINE c == Config(EmptyDoc)
  <1>2. /\ c.clusters = <<>> /\ c.repos = <<>> /\ c.plugins = <<>>
        /\ c.server = ServerSection(EmptyDoc)
        /\ c.polling = Polling(EmptyDoc) /\ c.timeouts = Timeouts(EmptyDoc)
    BY DEF Config, EmptyDoc, Given
  <1>3. ValidateServer(c.server)
    <2>1. /\ ServerSection(EmptyDoc).listen_addr = <<"0.0.0.0", "8484">>
          /\ ServerSection(EmptyDoc).db_path = "synchrotron.db"
      BY DEF ServerSection, EmptyDoc, Given
    <2>2. Len(<<"0.0.0.0", "8484">>) > 1
      OBVIOUS
    <2> QED BY <1>2, <2>1, <2>2 DEF ValidateServer
  <1>4. ValidateClusters(c.clusters) /\ ValidateRepos(c.repos) /\ ValidatePlugins(c.plugins)
    BY <1>2 DEF ValidateClusters, ValidateRepos, ValidatePlugins, FreshNames, Field
  <1>5. ValidatePolling(c.polling) /\ ValidateTimeouts(c.timeouts)
    BY <1>2 DEF Polling, Timeouts, EmptyDoc, Given, ValidatePolling, ValidateTimeouts
  <1>6. Validate(c)
    BY <1>3, <1>4, <1>5 DEF Validate
  <1> QED BY <1>1, <1>6, ValidRunnable

ConfigTypes == confFile \in ConfigTexts /\ hangup \in BOOLEAN /\ edited \in BOOLEAN

\* Nothing reloads while the process is down, and what is active or about to be can be run on.
ActiveRunnable ==
  /\ process = "down" => reloader = "none"
  /\ process # "down" => Runnable(handle)
  /\ reloader = "swap" => Runnable(loaded)

\* What the file says, unless it is refused.
Says(c) == LoadAndValidate(confFile) \in {Refused, c}

FileFollowed ==
  edited = FALSE =>
    /\ reloader = "starting" => Says(handle)
    /\ reloader = "waiting" /\ hangup = FALSE => Says(handle)
    /\ reloader = "swap" /\ hangup = FALSE => Says(loaded)

ConfigInv == ConfigTypes /\ ActiveRunnable /\ FileFollowed

LEMMA ConfigStart == ConfigInit => ConfigInv
  BY DEF ConfigInit, ConfigInv, ConfigTypes, ActiveRunnable, FileFollowed

LEMMA ConfigStep == ConfigInv /\ [ConfigNext]_configVars => ConfigInv'
  <1> SUFFICES ASSUME ConfigInv, [ConfigNext]_configVars PROVE ConfigInv'
    OBVIOUS
  <1> USE DEF ConfigInv, ConfigTypes, ActiveRunnable, FileFollowed, Says
  <1>1. CASE StartWithFile
    <2>1. Runnable(handle')
      BY <1>1, LoadedRunnable DEF StartWithFile
    <2> QED BY <1>1, <2>1 DEF StartWithFile
  <1>2. CASE StartWithDefaults
    <2>1. Runnable(handle')
      BY <1>2, DefaultsRunnable DEF StartWithDefaults
    <2> QED BY <1>2, <2>1 DEF StartWithDefaults
  <1>3. CASE ReadAtBoot
    BY <1>3 DEF ReadAtBoot
  <1>4. CASE InstallHandler
    BY <1>4 DEF InstallHandler
  <1>5. CASE EditFile
    BY <1>5 DEF EditFile
  <1>6. CASE HangupQueued
    BY <1>6 DEF HangupQueued
  <1>7. CASE HangupKills
    BY <1>7 DEF HangupKills
  <1>8. CASE ReloadRead
    <2>1. CASE LoadAndValidate(confFile) = Refused
      BY <1>8, <2>1 DEF ReloadRead
    <2>2. CASE LoadAndValidate(confFile) # Refused
      <3>1. Runnable(loaded')
        BY <1>8, <2>2, LoadedRunnable DEF ReloadRead
      <3> QED BY <1>8, <2>2, <3>1 DEF ReloadRead
    <2> QED BY <2>1, <2>2
  <1>9. CASE ReloadSwap
    BY <1>9 DEF ReloadSwap
  <1>10. CASE UNCHANGED configVars
    BY <1>10 DEF configVars
  <1> QED
    BY <1>1, <1>2, <1>3, <1>4, <1>5, <1>6, <1>7, <1>8, <1>9, <1>10 DEF ConfigNext

\* The configuration's invariant: validation holds of what is active and of what is about to
\* be, and a reload that saw the file last leaves what the file says.
THEOREM ConfigInvariant == ConfigSpec => []ConfigInv
  BY ConfigStart, ConfigStep, PTL DEF ConfigSpec

\* ConfigHandle::reload and main: the active configuration can always be run on, and follows
\* the file once the last signal is served, for any file contents, edits and signals.
THEOREM ConfigurationFollows == ConfigSpec => []ConfigFollowsFile
  <1>1. ConfigInv => ConfigFollowsFile
    BY DEF ConfigInv, ConfigTypes, ActiveRunnable, FileFollowed, Says, Runnable, ConfigFollowsFile
  <1> QED BY <1>1, ConfigInvariant, PTL

-----------------------------------------------------------------------------
(* The cache of rendered manifests.  Its loops (the byte trim, an          *)
(* invalidation, a warm-up, the sum of the bytes) are recursive functions; *)
(* LoopTrace, by a least counterexample, says that such a function follows *)
(* its recursion, and CountUp that what every step keeps the loop keeps.   *)

\* Induction up to n, for a set of the numbers that are good.
LEMMA CountUp ==
  ASSUME NEW n \in Nat, NEW S, 0 \in S, \A i \in 0 .. n - 1 : i \in S => i + 1 \in S
  PROVE  \A i \in 0 .. n : i \in S
  <1> DEFINE bad == {i \in 0 .. n : i \notin S}
  <1> SUFFICES ASSUME bad # {} PROVE FALSE
    OBVIOUS
  <1>1. bad \subseteq Nat
    OBVIOUS
  <1>2. PICK m \in bad : \A y \in bad : ~(<<y, m>> \in OpToRel(<, Nat))
    <2> HIDE DEF bad
    <2> QED BY <1>1, WFMin, NatLessThanWellFounded, Zenon
  <1>3. m \in 1 .. n /\ m - 1 \in 0 .. n - 1 /\ (m - 1) + 1 = m
    OBVIOUS
  <1>4. m - 1 \notin S
    BY <1>3
  <1>5. m - 1 \in bad /\ m - 1 \in Nat /\ m \in Nat /\ m - 1 < m
    BY <1>3, <1>4
  <1>6. <<m - 1, m>> \in OpToRel(<, Nat)
    <2> HIDE DEF bad
    <2> QED BY <1>5 DEF OpToRel
  <1> QED BY <1>2, <1>5, <1>6, Zenon

\* A loop of n steps, step i of which is the function G[i] on V, and its trace from v.
StepsIn(G, n, V) == n \in Nat /\ G \in [1 .. n -> [V -> V]]
TraceOf(f, G, n, V, v) ==
  f \in [0 .. n -> V] /\ f[0] = v /\ \A i \in 1 .. n : f[i] = G[i][f[i - 1]]

\* A loop has a trace, and the trace stays in a set the steps stay in.
LEMMA LoopTrace ==
  ASSUME NEW V, NEW v \in V, NEW n, NEW G, StepsIn(G, n, V)
  PROVE  \E f : TraceOf(f, G, n, V, v)
  <1> n \in Nat /\ G \in [1 .. n -> [V -> V]]
    BY DEF StepsIn
  <1> DEFINE Trace(f, k) == f[0] = v /\ \A i \in 1 .. k : f[i] = G[i][f[i - 1]]
             S == {k \in 0 .. n : \E f \in [0 .. k -> V] : Trace(f, k)}
  <1>1. 0 \in S
    <2>1. PICK f : f = [i \in 0 .. 0 |-> v]
      OBVIOUS
    <2>2. f \in [0 .. 0 -> V] /\ Trace(f, 0)
      BY <2>1
    <2> QED BY <2>2
  <1>2. ASSUME NEW k \in 0 .. n - 1, k \in S PROVE k + 1 \in S
    <2>1. PICK f \in [0 .. k -> V] : Trace(f, k)
      BY <1>2
    <2>2. PICK g : g = [i \in 0 .. k + 1 |-> IF i = k + 1 THEN G[k + 1][f[k]] ELSE f[i]]
      OBVIOUS
    <2>3. k \in 0 .. k /\ k + 1 \in 1 .. n /\ f[k] \in V
      OBVIOUS
    <2>4. G[k + 1] \in [V -> V]
      BY <2>3
    <2>5. G[k + 1][f[k]] \in V
      BY <2>3, <2>4
    <2>6. \A i \in 0 .. k : i \in 0 .. k + 1 /\ i # k + 1 /\ g[i] = f[i]
      BY <2>2
    <2>7. g \in [0 .. k + 1 -> V]
      <3>1. \A i \in 0 .. k + 1 : i = k + 1 \/ i \in 0 .. k
        OBVIOUS
      <3> QED BY <2>2, <2>5, <3>1
    <2>8. g[k + 1] = G[k + 1][f[k]]
      BY <2>2
    <2>9. Trace(g, k + 1)
      <3>1. g[0] = v
        BY <2>1, <2>6
      <3>2. ASSUME NEW i \in 1 .. k + 1 PROVE g[i] = G[i][g[i - 1]]
        <4>1. CASE i = k + 1
          <5>1. i - 1 = k /\ g[k] = f[k]
            BY <2>3, <2>6, <4>1
          <5> QED BY <2>8, <4>1, <5>1
        <4>2. CASE i \in 1 .. k
          <5>1. i \in 0 .. k /\ i - 1 \in 0 .. k
            BY <4>2
          <5>2. g[i] = f[i] /\ g[i - 1] = f[i - 1]
            BY <2>6, <5>1
          <5> QED BY <2>1, <4>2, <5>2
        <4> QED BY <4>1, <4>2
      <3> QED BY <3>1, <3>2
    <2>10. k + 1 \in 0 .. n
      BY <2>3
    <2> QED BY <2>7, <2>9, <2>10
  <1>3. n \in S
    <2> HIDE DEF S
    <2>1. n \in 0 .. n
      OBVIOUS
    <2> QED BY <1>1, <1>2, <2>1, CountUp
  <1> QED BY <1>3 DEF TraceOf

Entries == [key : CacheKeys \cup {NotRendering.key}, bytes : Nat]

\* f holds the sums of the prefixes of s.
SumsOf(s, f) ==
  f \in [0 .. Len(s) -> Nat] /\ f[0] = 0 /\ \A i \in 1 .. Len(s) : f[i] = f[i - 1] + s[i].bytes

LEMMA EntryBytes ==
  ASSUME NEW s \in Seq(Entries)
  PROVE  Len(s) \in Nat /\ \A i \in 1 .. Len(s) : s[i] \in Entries /\ s[i].bytes \in Nat
  <1>1. Len(s) \in Nat /\ \A i \in 1 .. Len(s) : s[i] \in Entries
    OBVIOUS
  <1>2. \A e \in Entries : e.bytes \in Nat
    BY DEF Entries
  <1> QED BY <1>1, <1>2

LEMMA BytesLaw ==
  ASSUME NEW s \in Seq(Entries)
  PROVE  \E f : SumsOf(s, f) /\ BytesOf(s) = f[Len(s)]
  <1> DEFINE sum[i \in 0 .. Len(s)] == IF i = 0 THEN 0 ELSE sum[i - 1] + s[i].bytes
  <1>1. BytesOf(s) = sum[Len(s)]
    BY Zenon DEF BytesOf
  <1>2. Len(s) \in Nat /\ \A i \in 1 .. Len(s) : s[i].bytes \in Nat
    BY EntryBytes
  <1>3. PICK G : G = [i \in 1 .. Len(s) |-> [x \in Nat |-> x + s[i].bytes]]
    OBVIOUS
  <1>4. G \in [1 .. Len(s) -> [Nat -> Nat]]
    BY <1>2, <1>3
  <1>5. PICK f \in [0 .. Len(s) -> Nat] : f[0] = 0 /\ \A i \in 1 .. Len(s) : f[i] = G[i][f[i - 1]]
    <2>1. 0 \in Nat /\ StepsIn(G, Len(s), Nat)
      BY <1>2, <1>4 DEF StepsIn
    <2>2. PICK f : TraceOf(f, G, Len(s), Nat, 0)
      BY <2>1, LoopTrace
    <2> QED BY <2>2 DEF TraceOf
  <1>6. \A i \in 0 .. Len(s) : f[i] = IF i = 0 THEN 0 ELSE f[i - 1] + s[i].bytes
    <2> SUFFICES ASSUME NEW i \in 1 .. Len(s) PROVE f[i] = f[i - 1] + s[i].bytes
      BY <1>2, <1>5
    <2>1. i - 1 \in 0 .. Len(s)
      BY <1>2
    <2>2. f[i - 1] \in Nat
      BY <2>1
    <2> QED BY <1>3, <1>5, <2>2
  <1>7. f = [i \in 0 .. Len(s) |-> IF i = 0 THEN 0 ELSE f[i - 1] + s[i].bytes]
    BY <1>6
  <1>8. sum = [i \in 0 .. Len(s) |-> IF i = 0 THEN 0 ELSE sum[i - 1] + s[i].bytes]
    BY <1>7, Zenon
  <1> HIDE DEF sum
  <1>9. sum[0] = 0 /\ \A i \in 1 .. Len(s) : sum[i] = sum[i - 1] + s[i].bytes
    BY <1>2, <1>8
  <1>10. \A i \in 0 .. Len(s) : sum[i] \in Nat
    <2> DEFINE S == {i \in 0 .. Len(s) : sum[i] \in Nat}
    <2>1. 0 \in S
      BY <1>2, <1>9
    <2>2. ASSUME NEW i \in 0 .. Len(s) - 1, i \in S PROVE i + 1 \in S
      <3>1. i + 1 \in 1 .. Len(s) /\ (i + 1) - 1 = i
        BY <1>2
      <3>2. sum[i + 1] = sum[i] + s[i + 1].bytes
        BY <1>9, <3>1
      <3>3. sum[i] \in Nat /\ s[i + 1].bytes \in Nat
        BY <1>2, <2>2, <3>1
      <3> QED BY <1>2, <3>1, <3>2, <3>3
    <2>3. \A i \in 0 .. Len(s) : i \in S
      <3> HIDE DEF S
      <3> QED BY <1>2, <2>1, <2>2, CountUp
    <2> QED BY <2>3
  <1>11. SumsOf(s, sum)
    BY <1>8, <1>9, <1>10 DEF SumsOf
  <1> QED BY <1>1, <1>11

\* The k entries of s after place l are the k entries of t after place m.
SameStretch(s, l, t, m, k) ==
  /\ {l, m, k} \subseteq Nat /\ l + k <= Len(s) /\ m + k <= Len(t)
  /\ \A j \in 1 .. k : t[m + j] = s[l + j]

\* The same entries add the same to the sums.
LEMMA SumsAgree ==
  ASSUME NEW s \in Seq(Entries), NEW f, SumsOf(s, f), NEW t \in Seq(Entries), NEW g, SumsOf(t, g),
         NEW l, NEW m, NEW k, SameStretch(s, l, t, m, k)
  PROVE  g[m + k] + f[l] = g[m] + f[l + k]
  <1> /\ l \in Nat /\ m \in Nat /\ k \in Nat /\ l + k <= Len(s) /\ m + k <= Len(t)
      /\ \A j \in 1 .. k : t[m + j] = s[l + j]
    BY DEF SameStretch
  <1> DEFINE S == {j \in 0 .. k : g[m + j] + f[l] = g[m] + f[l + j]}
  <1>1. /\ Len(s) \in Nat /\ Len(t) \in Nat
        /\ \A i \in 1 .. Len(s) : s[i].bytes \in Nat /\ f[i] = f[i - 1] + s[i].bytes
        /\ \A i \in 1 .. Len(t) : t[i].bytes \in Nat /\ g[i] = g[i - 1] + t[i].bytes
        /\ \A i \in 0 .. Len(s) : f[i] \in Nat
        /\ \A i \in 0 .. Len(t) : g[i] \in Nat
    BY EntryBytes DEF SumsOf
  <1>2. 0 \in S
    <2>1. l \in 0 .. Len(s) /\ m \in 0 .. Len(t) /\ l + 0 = l /\ m + 0 = m /\ 0 \in 0 .. k
      BY <1>1
    <2> QED BY <1>1, <2>1
  <1>3. ASSUME NEW j \in 0 .. k - 1, j \in S PROVE j + 1 \in S
    <2>1. PICK p \in Nat, q \in Nat : p = l + j /\ q = m + j
      OBVIOUS
    <2>2. /\ l + (j + 1) = p + 1 /\ m + (j + 1) = q + 1 /\ j + 1 \in 1 .. k /\ j + 1 \in 0 .. k
          /\ p + 1 \in 1 .. Len(s) /\ q + 1 \in 1 .. Len(t) /\ (p + 1) - 1 = p /\ (q + 1) - 1 = q
          /\ p \in 0 .. Len(s) /\ q \in 0 .. Len(t) /\ l \in 0 .. Len(s) /\ m \in 0 .. Len(t)
      BY <1>1, <2>1
    <2>3. f[p + 1] = f[p] + s[p + 1].bytes /\ g[q + 1] = g[q] + t[q + 1].bytes
      BY <1>1, <2>2
    <2>4. t[q + 1] = s[p + 1]
      <3>1. t[m + (j + 1)] = s[l + (j + 1)]
        BY <2>2
      <3> QED BY <2>2, <3>1
    <2>5. /\ f[p] \in Nat /\ g[q] \in Nat /\ f[l] \in Nat /\ g[m] \in Nat
          /\ s[p + 1].bytes \in Nat /\ g[q] + f[l] = g[m] + f[p]
      BY <1>1, <1>3, <2>1, <2>2
    <2>6. g[q + 1] + f[l] = g[m] + f[p + 1]
      <3>1. PICK w \in Nat : w = s[p + 1].bytes
        BY <2>5
      <3>2. f[p + 1] = f[p] + w /\ g[q + 1] = g[q] + w
        BY <2>3, <2>4, <3>1
      <3>3. PICK x \in Nat, y \in Nat, z \in Nat, u \in Nat :
              x = f[p] /\ y = g[q] /\ z = f[l] /\ u = g[m]
        BY <2>5
      <3>4. y + z = u + x
        BY <2>5, <3>3
      <3>5. f[p + 1] = x + w /\ g[q + 1] = y + w
        BY <3>2, <3>3
      <3>6. (y + w) + z = u + (x + w)
        BY <3>4
      <3> QED BY <3>3, <3>5, <3>6
    <2> QED BY <2>2, <2>6
  <1>4. k \in S
    <2>1. k \in 0 .. k
      OBVIOUS
    <2> HIDE DEF S
    <2> QED BY <1>2, <1>3, <2>1, CountUp
  <1> QED BY <1>4

LEMMA BytesTyped == ASSUME NEW s \in Seq(Entries) PROVE BytesOf(s) \in Nat
  <1>1. PICK f : SumsOf(s, f) /\ BytesOf(s) = f[Len(s)]
    BY BytesLaw
  <1>2. Len(s) \in 0 .. Len(s)
    OBVIOUS
  <1> QED BY <1>1, <1>2 DEF SumsOf

LEMMA BytesEmpty == BytesOf(<<>>) = 0
  <1>1. <<>> \in Seq(Entries) /\ Len(<<>>) = 0
    OBVIOUS
  <1> QED BY <1>1, BytesLaw DEF SumsOf

LEMMA BytesAppend ==
  ASSUME NEW s \in Seq(Entries), NEW e \in Entries
  PROVE  BytesOf(Append(s, e)) = BytesOf(s) + e.bytes
  <1>1. PICK t : t = Append(s, e)
    OBVIOUS
  <1>2. PICK k \in Nat : k = Len(s)
    OBVIOUS
  <1>3. /\ t \in Seq(Entries) /\ Len(t) = k + 1 /\ t[k + 1] = e /\ \A j \in 1 .. k : t[j] = s[j]
    BY <1>1, <1>2, AppendProperties
  <1>4. PICK f : SumsOf(s, f) /\ BytesOf(s) = f[k]
    BY <1>2, BytesLaw
  <1>5. PICK g : SumsOf(t, g) /\ BytesOf(t) = g[k + 1]
    BY <1>3, BytesLaw
  <1>6. g[0 + k] + f[0] = g[0] + f[0 + k]
    <2>1. SameStretch(s, 0, t, 0, k)
      BY <1>2, <1>3 DEF SameStretch
    <2> QED BY <1>3, <1>4, <1>5, <2>1, SumsAgree
  <1>7. f[0] = 0 /\ g[0] = 0 /\ f[k] \in Nat /\ g[k] \in Nat /\ g[k + 1] = g[(k + 1) - 1] + e.bytes
    BY <1>2, <1>3, <1>4, <1>5 DEF SumsOf
  <1>8. g[k] = f[k] /\ (k + 1) - 1 = k
    BY <1>6, <1>7
  <1> QED BY <1>1, <1>4, <1>5, <1>7, <1>8

\* What RemoveAt leaves, and what it takes away.
LEMMA RemoveAtKeeps ==
  ASSUME NEW S, NEW s \in Seq(S), NEW i \in DOMAIN s
  PROVE  /\ RemoveAt(s, i) \in Seq(S) /\ Len(RemoveAt(s, i)) = Len(s) - 1
         /\ \A j \in 1 .. i - 1 : RemoveAt(s, i)[j] = s[j]
         /\ \A j \in i .. Len(s) - 1 : RemoveAt(s, i)[j] = s[j + 1]
  <1>1. PICK n \in Nat : n = Len(s)
    OBVIOUS
  <1>2. i \in 1 .. n /\ \A j \in 1 .. n : s[j] \in S
    BY <1>1
  <1>3. PICK a : a = SubSeq(s, 1, i - 1)
    OBVIOUS
  <1>4. PICK b : b = SubSeq(s, i + 1, n)
    OBVIOUS
  <1>5. a \in Seq(S) /\ Len(a) = i - 1 /\ \A j \in 1 .. i - 1 : a[j] = s[j]
    <2>1. 1 \in Int /\ i - 1 \in Int /\ \A j \in 1 .. i - 1 : s[j] \in S
      BY <1>2
    <2>2. /\ a \in Seq(S) /\ Len(a) = IF 1 <= i - 1 THEN (i - 1) - 1 + 1 ELSE 0
          /\ \A j \in 1 .. (i - 1) - 1 + 1 : a[j] = s[1 + j - 1]
      BY <1>3, <2>1, SubSeqProperties
    <2> QED BY <1>2, <2>2
  <1>6. b \in Seq(S) /\ Len(b) = n - i /\ \A j \in 1 .. n - i : b[j] = s[i + j]
    <2>1. i + 1 \in Int /\ n \in Int /\ \A j \in i + 1 .. n : s[j] \in S
      BY <1>2
    <2>2. /\ b \in Seq(S) /\ Len(b) = IF i + 1 <= n THEN n - (i + 1) + 1 ELSE 0
          /\ \A j \in 1 .. n - (i + 1) + 1 : b[j] = s[(i + 1) + j - 1]
      BY <1>4, <2>1, SubSeqProperties
    <2> QED BY <1>2, <2>2
  <1>7. RemoveAt(s, i) = a \o b
    BY <1>1, <1>3, <1>4 DEF RemoveAt
  <1>8. /\ a \o b \in Seq(S) /\ Len(a \o b) = Len(a) + Len(b)
        /\ \A j \in 1 .. Len(a) + Len(b) : (a \o b)[j] = IF j <= Len(a) THEN a[j] ELSE b[j - Len(a)]
    BY <1>5, <1>6, ConcatProperties
  <1>9. PICK r : r = a \o b
    OBVIOUS
  <1>10. /\ r \in Seq(S) /\ Len(r) = n - 1
         /\ \A j \in 1 .. n - 1 : r[j] = IF j <= i - 1 THEN a[j] ELSE b[j - (i - 1)]
    <2>1. (i - 1) + (n - i) = n - 1 /\ Len(a) = i - 1 /\ Len(a) + Len(b) = n - 1
      BY <1>2, <1>5, <1>6
    <2> QED BY <1>8, <1>9, <2>1
  <1>11. ASSUME NEW j \in 1 .. i - 1 PROVE r[j] = s[j]
    BY <1>2, <1>5, <1>10
  <1>12. ASSUME NEW j \in i .. n - 1 PROVE r[j] = s[j + 1]
    <2>1. /\ j \in 1 .. n - 1 /\ ~(j <= i - 1) /\ j - (i - 1) \in 1 .. n - i
          /\ i + (j - (i - 1)) = j + 1
      BY <1>2
    <2>2. r[j] = b[j - (i - 1)]
      BY <1>10, <2>1
    <2> QED BY <1>6, <2>1, <2>2
  <1> QED BY <1>1, <1>7, <1>9, <1>10, <1>11, <1>12

LEMMA BytesRemove ==
  ASSUME NEW s \in Seq(Entries), NEW i \in DOMAIN s
  PROVE  BytesOf(s) = BytesOf(RemoveAt(s, i)) + s[i].bytes
  <1>1. PICK n \in Nat : n = Len(s)
    OBVIOUS
  <1>2. i \in 1 .. n /\ s[i] \in Entries /\ s[i].bytes \in Nat
    BY <1>1, EntryBytes
  <1>3. PICK r : r = RemoveAt(s, i)
    OBVIOUS
  <1>4. /\ r \in Seq(Entries) /\ Len(r) = n - 1 /\ \A j \in 1 .. i - 1 : r[j] = s[j]
        /\ \A j \in i .. n - 1 : r[j] = s[j + 1]
    BY <1>1, <1>3, RemoveAtKeeps
  <1>5. PICK f : SumsOf(r, f) /\ BytesOf(r) = f[n - 1]
    BY <1>4, BytesLaw
  <1>6. PICK g : SumsOf(s, g) /\ BytesOf(s) = g[n]
    BY <1>1, BytesLaw
  <1>7. PICK a \in Nat, b \in Nat : a = i - 1 /\ b = n - i
    BY <1>2
  <1>8. g[0 + a] + f[0] = g[0] + f[0 + a]
    <2>1. SameStretch(r, 0, s, 0, a)
      BY <1>1, <1>2, <1>4, <1>7 DEF SameStretch
    <2> QED BY <1>4, <1>5, <1>6, <2>1, SumsAgree
  <1>9. g[i + b] + f[a] = g[i] + f[a + b]
    <2>1. a \in Nat /\ i \in Nat /\ a + b <= Len(r) /\ i + b <= Len(s)
      BY <1>1, <1>2, <1>4, <1>7
    <2>2. ASSUME NEW j \in 1 .. b PROVE s[i + j] = r[a + j]
      <3>1. a + j \in i .. n - 1 /\ (a + j) + 1 = i + j
        BY <1>2, <1>7
      <3> QED BY <1>4, <3>1
    <2>3. SameStretch(r, a, s, i, b)
      BY <2>1, <2>2 DEF SameStretch
    <2> QED BY <1>4, <1>5, <1>6, <2>3, SumsAgree
  <1>10. /\ f[0] = 0 /\ g[0] = 0 /\ g[i] = g[i - 1] + s[i].bytes
         /\ a \in 0 .. n - 1 /\ a \in 0 .. n /\ n - 1 \in 0 .. n - 1 /\ n \in 0 .. n /\ i \in 0 .. n
    BY <1>1, <1>2, <1>5, <1>6, <1>7 DEF SumsOf
  <1>11. f[a] \in Nat /\ g[a] \in Nat /\ f[n - 1] \in Nat /\ g[n] \in Nat /\ g[i] \in Nat
    BY <1>1, <1>4, <1>5, <1>6, <1>10 DEF SumsOf
  <1>12. g[a] = f[a] /\ i + b = n /\ a + b = n - 1 /\ i - 1 = a
    <2>1. 0 + a = a
      OBVIOUS
    <2>2. g[a] + f[0] = g[0] + f[a]
      BY <1>8, <2>1
    <2>3. g[a] = f[a]
      BY <1>10, <1>11, <2>2
    <2> QED BY <1>2, <1>7, <2>3
  <1>13. g[n] = f[n - 1] + s[i].bytes
    <2>1. PICK w \in Nat : w = s[i].bytes
      BY <1>2
    <2>2. g[n] + f[a] = g[i] + f[n - 1] /\ g[i] = f[a] + w
      BY <1>9, <1>10, <1>12, <2>1
    <2>3. PICK x \in Nat, y \in Nat, z \in Nat, u \in Nat :
            x = g[n] /\ y = f[a] /\ z = g[i] /\ u = f[n - 1]
      BY <1>11
    <2>4. x + y = z + u /\ z = y + w
      BY <2>2, <2>3
    <2>5. x = u + w
      BY <2>4
    <2> QED BY <2>1, <2>3, <2>5
  <1> QED BY <1>3, <1>5, <1>6, <1>13

LEMMA TailIsRemove ==
  ASSUME NEW S, NEW s \in Seq(S), s # <<>>
  PROVE  Tail(s) = RemoveAt(s, 1) /\ 1 \in DOMAIN s /\ Head(s) = s[1]
  <1>1. 1 \in DOMAIN s /\ Head(s) = s[1] /\ Len(s) \in Nat
    OBVIOUS
  <1>2. PICK t, r : t = Tail(s) /\ r = RemoveAt(s, 1)
    OBVIOUS
  <1>3. t \in Seq(S) /\ Len(t) = Len(s) - 1 /\ \A i \in 1 .. Len(t) : t[i] = s[i + 1]
    BY <1>2, HeadTailProperties
  <1>4. r \in Seq(S) /\ Len(r) = Len(s) - 1 /\ \A j \in 1 .. Len(s) - 1 : r[j] = s[j + 1]
    BY <1>1, <1>2, RemoveAtKeeps
  <1>5. t = r
    BY <1>3, <1>4, SeqEqual
  <1> QED BY <1>1, <1>2, <1>5

\* A cache whose count is right, with one entry a key, and one that keeps to its byte bound.
Caches == [lru : Seq(Entries), bytes : Nat]
Keyed(s) == \A i, j \in DOMAIN s : s[i].key = s[j].key => i = j
Counts(c) == /\ c \in Caches /\ c.bytes = BytesOf(c.lru)
             /\ Keyed(c.lru) /\ Len(c.lru) <= MaxEntries
Fits(c) == c.bytes > MaxBytes => Len(c.lru) = 1

\* Taking an entry out, and its bytes off the count, whatever the entry.
TakeOut(c, i) == [lru |-> RemoveAt(c.lru, i), bytes |-> Minus(c.bytes, c.lru[i].bytes)]

LEMMA TakeOutCounts ==
  ASSUME NEW c, Counts(c), NEW i \in DOMAIN c.lru
  PROVE  /\ Counts(TakeOut(c, i)) /\ Len(TakeOut(c, i).lru) = Len(c.lru) - 1
         /\ Fits(c) => Fits(TakeOut(c, i))
         /\ \A k : Holds(TakeOut(c, i).lru, k) => Holds(c.lru, k) /\ k # c.lru[i].key
  <1>0. PICK d : d = TakeOut(c, i)
    OBVIOUS
  <1>1. PICK s \in Seq(Entries), total \in Nat : s = c.lru /\ total = c.bytes
    BY DEF Counts, Caches
  <1>2. PICK r : r = RemoveAt(s, i)
    OBVIOUS
  <1>3. PICK n \in Nat : n = Len(s)
    OBVIOUS
  <1>4. i \in 1 .. n /\ DOMAIN s = 1 .. n
    BY <1>1, <1>3
  <1>5. /\ r \in Seq(Entries) /\ Len(r) = n - 1 /\ DOMAIN r = 1 .. n - 1
        /\ \A j \in 1 .. i - 1 : r[j] = s[j]
        /\ \A j \in i .. n - 1 : r[j] = s[j + 1]
    <2>1. /\ r \in Seq(Entries) /\ Len(r) = n - 1
          /\ \A j \in 1 .. i - 1 : r[j] = s[j]
          /\ \A j \in i .. n - 1 : r[j] = s[j + 1]
      <3>1. i \in DOMAIN s
        BY <1>4
      <3>2. /\ r \in Seq(Entries) /\ Len(r) = Len(s) - 1
            /\ \A j \in 1 .. i - 1 : r[j] = s[j]
            /\ \A j \in i .. Len(s) - 1 : r[j] = s[j + 1]
        BY <1>2, <3>1, RemoveAtKeeps
      <3> QED BY <1>3, <3>2
    <2> QED BY <2>1
  <1>6. PICK w \in Nat : w = s[i].bytes
    BY <1>3, <1>4, EntryBytes
  <1>7. PICK rest \in Nat : rest = BytesOf(r)
    BY <1>5, BytesTyped
  <1>8. total = rest + w
    BY <1>1, <1>2, <1>4, <1>6, <1>7, BytesRemove DEF Counts
  <1>9. Minus(total, w) = rest
    BY <1>8 DEF Minus
  <1>10. d = [lru |-> r, bytes |-> rest]
    BY <1>0, <1>1, <1>2, <1>6, <1>9 DEF TakeOut
  <1>11. d \in Caches /\ d.lru = r /\ d.bytes = rest
    BY <1>5, <1>10 DEF Caches
  \* The entries left are the others, in the same order.
  <1>12. \A j \in 1 .. n - 1 : \E k \in 1 .. n : k # i /\ r[j] = s[k] /\ k = IF j < i THEN j ELSE j + 1
    <2> SUFFICES ASSUME NEW j \in 1 .. n - 1
                 PROVE  \E k \in 1 .. n : k # i /\ r[j] = s[k] /\ k = IF j < i THEN j ELSE j + 1
      OBVIOUS
    <2>1. CASE j < i
      <3>1. j \in 1 .. i - 1 /\ j \in 1 .. n /\ j # i
        BY <1>4, <2>1
      <3> QED BY <1>5, <2>1, <3>1
    <2>2. CASE ~(j < i)
      <3>1. j \in i .. n - 1 /\ j + 1 \in 1 .. n /\ j + 1 # i
        BY <1>4, <2>2
      <3> QED BY <1>5, <2>2, <3>1
    <2> QED BY <2>1, <2>2
  <1>13. Keyed(s)
    BY <1>1 DEF Counts
  <1>14. Keyed(r)
    <2> SUFFICES ASSUME NEW a \in 1 .. n - 1, NEW b \in 1 .. n - 1, r[a].key = r[b].key
                 PROVE  a = b
      BY <1>5 DEF Keyed
    <2>1. PICK k \in 1 .. n : r[a] = s[k] /\ k = IF a < i THEN a ELSE a + 1
      BY <1>12
    <2>2. PICK l \in 1 .. n : r[b] = s[l] /\ l = IF b < i THEN b ELSE b + 1
      BY <1>12
    <2>3. k = l
      BY <1>4, <1>13, <2>1, <2>2 DEF Keyed
    <2> QED BY <1>4, <2>1, <2>2, <2>3
  <1>15. ASSUME NEW k, Holds(r, k) PROVE Holds(s, k) /\ k # s[i].key
    <2>1. PICK j \in 1 .. n - 1 : r[j].key = k
      BY <1>5, <1>15 DEF Holds
    <2>2. PICK l \in 1 .. n : l # i /\ r[j] = s[l]
      BY <1>12
    <2>3. s[l].key = k
      BY <2>1, <2>2
    <2> QED BY <1>4, <1>13, <2>2, <2>3 DEF Holds, Keyed
  <1>16. Len(s) <= MaxEntries
    BY <1>1 DEF Counts
  <1>17. Counts(d)
    <2>1. Len(r) <= MaxEntries
      BY <1>3, <1>5, <1>16, RenderingAssumption
    <2> QED BY <1>7, <1>11, <1>14, <2>1 DEF Counts
  <1>18. ASSUME Fits(c) PROVE Fits(d)
    <2>1. total > MaxBytes => n = 1
      BY <1>1, <1>3, <1>18 DEF Fits
    <2>2. CASE n = 1
      <3>1. Len(r) = 0
        BY <1>5, <2>2
      <3>2. r = <<>>
        BY <1>5, <3>1
      <3>3. rest = 0
        BY <1>7, <3>2, BytesEmpty
      <3> QED BY <1>11, <3>3, RenderingAssumption DEF Fits
    <2>3. CASE ~(total > MaxBytes)
      <3>1. ~(rest > MaxBytes)
        BY <1>8, <2>3, RenderingAssumption
      <3> QED BY <1>11, <3>1 DEF Fits
    <2> QED BY <2>1, <2>2, <2>3
  <1>19. /\ Len(d.lru) = Len(c.lru) - 1
         /\ \A k : Holds(d.lru, k) => Holds(c.lru, k) /\ k # c.lru[i].key
    BY <1>1, <1>3, <1>5, <1>11, <1>15
  <1> QED BY <1>0, <1>17, <1>18, <1>19

LEMMA PopCounts ==
  ASSUME NEW c, Counts(c), NEW k
  PROVE  Counts(Pop(c, k)) /\ (Fits(c) => Fits(Pop(c, k))) /\ ~Holds(Pop(c, k).lru, k)
  <1>1. CASE ~Holds(c.lru, k)
    BY <1>1 DEF Pop
  <1>2. CASE Holds(c.lru, k)
    <2>1. PICK i : i = PlaceOf(c.lru, k)
      OBVIOUS
    <2>2. i \in DOMAIN c.lru /\ c.lru[i].key = k
      BY <1>2, <2>1, Zenon DEF Holds, PlaceOf
    <2>3. Pop(c, k) = TakeOut(c, i)
      BY <1>2, <2>1, Zenon DEF Pop, Without, TakeOut
    <2>4. /\ Counts(TakeOut(c, i)) /\ (Fits(c) => Fits(TakeOut(c, i)))
          /\ \A x : Holds(TakeOut(c, i).lru, x) => Holds(c.lru, x) /\ x # c.lru[i].key
      BY <2>2, TakeOutCounts
    <2> QED BY <2>2, <2>3, <2>4
  <1> QED BY <1>1, <1>2

LEMMA PopLruCounts ==
  ASSUME NEW c, Counts(c), c.lru # <<>>
  PROVE  /\ Counts(PopLru(c)) /\ Len(PopLru(c).lru) = Len(c.lru) - 1
         /\ \A k : Holds(PopLru(c).lru, k) => Holds(c.lru, k)
  <1>1. c.lru \in Seq(Entries)
    BY DEF Counts, Caches
  <1>2. Tail(c.lru) = RemoveAt(c.lru, 1) /\ 1 \in DOMAIN c.lru /\ Head(c.lru) = c.lru[1]
    BY <1>1, TailIsRemove
  <1>3. PopLru(c) = TakeOut(c, 1)
    BY <1>2, Zenon DEF PopLru, TakeOut
  <1> QED BY <1>2, <1>3, TakeOutCounts

LEMMA PushCounts ==
  ASSUME NEW c, Counts(c), NEW e \in Entries, ~Holds(c.lru, e.key)
  PROVE  Counts(Push(c, e)) /\ Len(Push(c, e).lru) >= 1
  <1>1. PICK d : d = IF Len(c.lru) = MaxEntries THEN PopLru(c) ELSE c
    OBVIOUS
  <1>2. c.lru \in Seq(Entries) /\ Len(c.lru) \in Nat /\ Len(c.lru) <= MaxEntries
    BY DEF Counts, Caches
  <1>3. MaxEntries \in Nat \ {0}
    BY RenderingAssumption
  <1>4. Counts(d) /\ Len(d.lru) < MaxEntries /\ ~Holds(d.lru, e.key)
    <2>1. CASE Len(c.lru) = MaxEntries
      <3>1. d = PopLru(c) /\ c.lru # <<>>
        BY <1>1, <1>3, <2>1
      <3>2. Counts(d) /\ Len(d.lru) = Len(c.lru) - 1 /\ \A k : Holds(d.lru, k) => Holds(c.lru, k)
        BY <3>1, PopLruCounts
      <3>3. Len(d.lru) < MaxEntries
        BY <1>3, <2>1, <3>2
      <3> QED BY <3>2, <3>3
    <2>2. CASE Len(c.lru) # MaxEntries
      <3>1. d = c
        BY <1>1, <2>2
      <3> QED BY <1>2, <1>3, <2>2, <3>1
    <2> QED BY <2>1, <2>2
  <1>5. PICK s \in Seq(Entries), total \in Nat : s = d.lru /\ total = d.bytes
    BY <1>4 DEF Counts, Caches
  <1>6. PICK t : t = Append(s, e)
    OBVIOUS
  <1>7. PICK n \in Nat : n = Len(s)
    OBVIOUS
  <1>8. /\ t \in Seq(Entries) /\ Len(t) = n + 1 /\ t[n + 1] = e /\ \A i \in 1 .. n : t[i] = s[i]
    BY <1>6, <1>7, AppendProperties
  <1>9. DOMAIN t = 1 .. n + 1 /\ DOMAIN s = 1 .. n
    BY <1>7, <1>8
  <1>10. PICK w \in Nat : w = e.bytes
    BY DEF Entries
  <1>11. Push(c, e) = [lru |-> t, bytes |-> total + w]
    BY <1>1, <1>5, <1>6, <1>10, Zenon DEF Push
  <1>12. /\ Push(c, e) \in Caches /\ Push(c, e).lru = t /\ Push(c, e).bytes = total + w
    BY <1>8, <1>11 DEF Caches
  <1>13. BytesOf(t) = total + w
    BY <1>4, <1>5, <1>6, <1>10, BytesAppend DEF Counts
  <1>14. Keyed(t)
    <2>1. Keyed(s) /\ \A i \in 1 .. n : s[i].key # e.key
      BY <1>4, <1>5, <1>9 DEF Counts, Holds
    <2> SUFFICES ASSUME NEW i \in 1 .. n + 1, NEW j \in 1 .. n + 1, t[i].key = t[j].key PROVE i = j
      BY <1>9 DEF Keyed
    <2>2. (i = n + 1 \/ i \in 1 .. n) /\ (j = n + 1 \/ j \in 1 .. n)
      OBVIOUS
    <2>3. CASE i \in 1 .. n /\ j \in 1 .. n
      BY <1>8, <1>9, <2>1, <2>3 DEF Keyed
    <2>4. CASE i = n + 1 /\ j \in 1 .. n
      BY <1>8, <2>1, <2>4
    <2>5. CASE i \in 1 .. n /\ j = n + 1
      BY <1>8, <2>1, <2>5
    <2> QED BY <2>2, <2>3, <2>4, <2>5
  <1>15. Len(t) <= MaxEntries /\ Len(t) >= 1
    BY <1>3, <1>4, <1>5, <1>7, <1>8
  <1> QED BY <1>12, <1>13, <1>14, <1>15 DEF Counts

\* The byte trim ends: each of its turns that goes on takes an entry out.
LEMMA TrimCounts ==
  ASSUME NEW c, Counts(c), Len(c.lru) >= 1
  PROVE  Counts(Trim(c)) /\ Fits(Trim(c))
  <1> DEFINE Turn(d) == IF d.bytes > MaxBytes /\ Len(d.lru) > 1 THEN PopLru(d) ELSE d
             V == {d \in Caches : Counts(d) /\ Len(d.lru) >= 1}
             after[n \in 0 .. Len(c.lru)] ==
               IF n = 0 THEN c
               ELSE IF after[n - 1].bytes > MaxBytes /\ Len(after[n - 1].lru) > 1
                    THEN PopLru(after[n - 1]) ELSE after[n - 1]
  <1>1. Trim(c) = after[Len(c.lru)]
    BY Zenon DEF Trim
  <1>2. c \in V /\ Len(c.lru) \in Nat
    BY DEF Counts, Caches
  <1>3. ASSUME NEW d \in V
        PROVE  /\ Turn(d) \in V
               /\ d.bytes > MaxBytes /\ Len(d.lru) > 1 => Len(Turn(d).lru) = Len(d.lru) - 1
               /\ ~(d.bytes > MaxBytes /\ Len(d.lru) > 1) => Turn(d) = d
    <2>1. CASE d.bytes > MaxBytes /\ Len(d.lru) > 1
      <3>1. d.lru # <<>> /\ Counts(d) /\ Len(d.lru) \in Nat
        BY <2>1 DEF Counts, Caches
      <3>2. Counts(PopLru(d)) /\ Len(PopLru(d).lru) = Len(d.lru) - 1
        BY <3>1, PopLruCounts
      <3>3. Len(PopLru(d).lru) >= 1 /\ PopLru(d) \in Caches
        BY <2>1, <3>1, <3>2 DEF Counts
      <3> QED BY <2>1, <3>2, <3>3
    <2>2. CASE ~(d.bytes > MaxBytes /\ Len(d.lru) > 1)
      BY <2>2
    <2> QED BY <2>1, <2>2
  <1>4. PICK G : G = [n \in 1 .. Len(c.lru) |-> [d \in V |-> Turn(d)]]
    OBVIOUS
  <1>5. StepsIn(G, Len(c.lru), V)
    <2>1. G \in [1 .. Len(c.lru) -> [V -> V]]
      <3> HIDE DEF V, Turn
      <3> QED BY <1>3, <1>4
    <2> QED BY <1>2, <2>1 DEF StepsIn
  <1>6. PICK f : TraceOf(f, G, Len(c.lru), V, c)
    <2> HIDE DEF V
    <2> QED BY <1>2, <1>5, LoopTrace
  <1>7. /\ f \in [0 .. Len(c.lru) -> V] /\ f[0] = c
        /\ \A n \in 1 .. Len(c.lru) : n - 1 \in 0 .. Len(c.lru) /\ f[n - 1] \in V /\ f[n] = Turn(f[n - 1])
    <2> HIDE DEF V, Turn
    <2>1. /\ f \in [0 .. Len(c.lru) -> V] /\ f[0] = c
          /\ \A n \in 1 .. Len(c.lru) : f[n] = G[n][f[n - 1]]
      BY <1>6 DEF TraceOf
    <2>2. \A n \in 1 .. Len(c.lru) : n - 1 \in 0 .. Len(c.lru)
      BY <1>2
    <2> QED BY <1>4, <2>1, <2>2
  <1>8. \E g : g = [n \in 0 .. Len(c.lru) |->
                      IF n = 0 THEN c
                      ELSE IF g[n - 1].bytes > MaxBytes /\ Len(g[n - 1].lru) > 1
                           THEN PopLru(g[n - 1]) ELSE g[n - 1]]
    <2>1. \A n \in 0 .. Len(c.lru) : n = 0 \/ n \in 1 .. Len(c.lru)
      BY <1>2
    <2>2. f = [n \in 0 .. Len(c.lru) |-> f[n]]
      BY <1>7
    <2> HIDE DEF V
    <2>3. \A n \in 0 .. Len(c.lru) :
            f[n] = IF n = 0 THEN c
                   ELSE IF f[n - 1].bytes > MaxBytes /\ Len(f[n - 1].lru) > 1
                        THEN PopLru(f[n - 1]) ELSE f[n - 1]
      BY <1>2, <1>7, <2>1
    <2>4. f = [n \in 0 .. Len(c.lru) |->
                 IF n = 0 THEN c
                 ELSE IF f[n - 1].bytes > MaxBytes /\ Len(f[n - 1].lru) > 1
                      THEN PopLru(f[n - 1]) ELSE f[n - 1]]
      BY <2>2, <2>3
    <2> QED BY <2>4
  <1>9. after = [n \in 0 .. Len(c.lru) |->
                   IF n = 0 THEN c
                   ELSE IF after[n - 1].bytes > MaxBytes /\ Len(after[n - 1].lru) > 1
                        THEN PopLru(after[n - 1]) ELSE after[n - 1]]
    BY <1>8, Zenon
  <1> HIDE DEF after
  <1>10. after[0] = c /\ \A n \in 1 .. Len(c.lru) : after[n] = Turn(after[n - 1])
    BY <1>2, <1>9
  <1> DEFINE Done(d) == d.bytes <= MaxBytes \/ Len(d.lru) = 1
             S == {n \in 0 .. Len(c.lru) :
                     after[n] \in V /\ (Done(after[n]) \/ Len(after[n].lru) + n <= Len(c.lru))}
  <1>11. 0 \in S
    BY <1>2, <1>10
  <1>12. ASSUME NEW n \in 0 .. Len(c.lru) - 1, n \in S PROVE n + 1 \in S
    <2>1. n + 1 \in 1 .. Len(c.lru) /\ (n + 1) - 1 = n /\ n + 1 \in 0 .. Len(c.lru)
      BY <1>2
    <2>2. after[n + 1] = Turn(after[n]) /\ after[n] \in V
      BY <1>10, <1>12, <2>1
    <2>3. PICK d \in V : d = after[n]
      BY <2>2
    <2>4. /\ d.bytes \in Nat /\ Len(d.lru) \in Nat /\ Len(d.lru) >= 1 /\ MaxBytes \in Nat
      BY RenderingAssumption DEF Caches
    <2> MaxBytes \in Nat
      BY <2>4
    <2>5. PICK b \in Nat, l \in Nat, m \in Nat : b = d.bytes /\ l = Len(d.lru) /\ m = Len(c.lru)
      BY <1>2, <2>4
    <2>6. b <= MaxBytes \/ l = 1 \/ l + n <= m
      BY <1>12, <2>3, <2>5
    <2>7. CASE d.bytes > MaxBytes /\ Len(d.lru) > 1
      <3>1. Len(Turn(d).lru) = Len(d.lru) - 1 /\ Turn(d) \in V
        BY <1>3, <2>7
      <3>2. b > MaxBytes /\ l > 1
        BY <2>7, <2>5
      <3>3. l + n <= m
        BY <2>6, <3>2
      <3>4. (l - 1) + (n + 1) <= m
        BY <3>3
      <3>5. Len(Turn(d).lru) + (n + 1) <= Len(c.lru)
        BY <2>5, <3>1, <3>4
      <3> QED BY <2>1, <2>2, <2>3, <3>1, <3>5
    <2>8. CASE ~(d.bytes > MaxBytes /\ Len(d.lru) > 1)
      <3>1. ~(b > MaxBytes /\ l > 1) /\ l >= 1
        BY <2>4, <2>8, <2>5
      <3>2. b <= MaxBytes \/ l = 1
        BY <3>1
      <3>3. Turn(d) = d /\ Done(d)
        BY <2>8, <2>5, <3>2
      <3> QED BY <2>1, <2>2, <2>3, <3>3
    <2> QED BY <2>7, <2>8
  <1>13. Len(c.lru) \in S
    <2>1. Len(c.lru) \in 0 .. Len(c.lru)
      BY <1>2
    <2> HIDE DEF S
    <2> QED BY <1>2, <1>11, <1>12, <2>1, CountUp
  <1>14. PICK d \in V : d = Trim(c) /\ (Done(d) \/ Len(d.lru) + Len(c.lru) <= Len(c.lru))
    BY <1>1, <1>13 DEF after
  <1>15. d.bytes \in Nat /\ Len(d.lru) \in Nat /\ Len(d.lru) >= 1 /\ MaxBytes \in Nat
    BY RenderingAssumption DEF Caches
  <1>16. Done(d)
    <2>1. PICK l \in Nat, m \in Nat : l = Len(d.lru) /\ m = Len(c.lru)
      BY <1>2, <1>15
    <2>2. l >= 1 /\ (Done(d) \/ l + m <= m)
      BY <1>14, <1>15, <2>1
    <2>3. ~(l + m <= m)
      BY <2>2
    <2> QED BY <2>2, <2>3
  <1>17. Fits(d)
    BY <1>15, <1>16 DEF Fits
  <1> QED BY <1>14, <1>17

LEMMA PutCounts ==
  ASSUME NEW c, Counts(c), NEW e \in Entries
  PROVE  Counts(Put(c, e)) /\ Fits(Put(c, e))
  <1>1. PICK d : d = Pop(c, e.key)
    OBVIOUS
  <1>2. Counts(d) /\ ~Holds(d.lru, e.key)
    BY <1>1, PopCounts
  <1>3. PICK g : g = Push(d, e)
    OBVIOUS
  <1>4. Counts(g) /\ Len(g.lru) >= 1
    BY <1>2, <1>3, PushCounts
  <1>5. Put(c, e) = Trim(g)
    BY <1>1, <1>3, Zenon DEF Put
  <1> QED BY <1>4, <1>5, TrimCounts

\* The caches that are right; a loop of steps that keep one right leaves one right.
GoodCaches == {c \in Caches : Counts(c) /\ Fits(c)}

LEMMA PutAllCounts ==
  ASSUME NEW c \in GoodCaches, NEW s \in Seq(Entries)
  PROVE  PutAll(c, s) \in GoodCaches
  <1> DEFINE after[n \in 0 .. Len(s)] == IF n = 0 THEN c ELSE Put(after[n - 1], s[n])
  <1>1. PutAll(c, s) = after[Len(s)]
    BY Zenon DEF PutAll
  <1>2. Len(s) \in Nat /\ \A n \in 1 .. Len(s) : s[n] \in Entries
    OBVIOUS
  <1>3. ASSUME NEW d \in GoodCaches, NEW e \in Entries PROVE Put(d, e) \in GoodCaches
    <2>1. Counts(d)
      BY DEF GoodCaches
    <2>2. Counts(Put(d, e)) /\ Fits(Put(d, e))
      BY <2>1, PutCounts
    <2> QED BY <2>2 DEF GoodCaches, Counts
  <1>4. PICK G : G = [n \in 1 .. Len(s) |-> [d \in GoodCaches |-> Put(d, s[n])]]
    OBVIOUS
  <1>5. StepsIn(G, Len(s), GoodCaches)
    BY <1>2, <1>3, <1>4 DEF StepsIn
  <1>6. PICK f : TraceOf(f, G, Len(s), GoodCaches, c)
    BY <1>5, LoopTrace
  <1>7. /\ f \in [0 .. Len(s) -> GoodCaches] /\ f[0] = c
        /\ \A n \in 1 .. Len(s) : n - 1 \in 0 .. Len(s) /\ f[n] = Put(f[n - 1], s[n])
    <2>1. /\ f \in [0 .. Len(s) -> GoodCaches] /\ f[0] = c
          /\ \A n \in 1 .. Len(s) : f[n] = G[n][f[n - 1]]
      BY <1>6 DEF TraceOf
    <2>2. \A n \in 1 .. Len(s) : n - 1 \in 0 .. Len(s)
      BY <1>2
    <2> QED BY <1>4, <2>1, <2>2
  <1>8. f = [n \in 0 .. Len(s) |-> IF n = 0 THEN c ELSE Put(f[n - 1], s[n])]
    <2>1. \A n \in 0 .. Len(s) : n = 0 \/ n \in 1 .. Len(s)
      BY <1>2
    <2>2. \A n \in 0 .. Len(s) : f[n] = IF n = 0 THEN c ELSE Put(f[n - 1], s[n])
      BY <1>7, <2>1
    <2> QED BY <1>7, <2>2
  <1>9. after = [n \in 0 .. Len(s) |-> IF n = 0 THEN c ELSE Put(after[n - 1], s[n])]
    BY <1>8, Zenon
  <1> HIDE DEF after
  <1> DEFINE S == {n \in 0 .. Len(s) : after[n] \in GoodCaches}
  <1>10. 0 \in S
    BY <1>2, <1>9
  <1>11. ASSUME NEW n \in 0 .. Len(s) - 1, n \in S PROVE n + 1 \in S
    <2>1. n + 1 \in 0 .. Len(s) /\ n + 1 # 0 /\ (n + 1) - 1 = n /\ s[n + 1] \in Entries
      BY <1>2
    <2>2. after[n + 1] = Put(after[n], s[n + 1])
      BY <1>9, <2>1
    <2> QED BY <1>3, <1>11, <2>1, <2>2
  <1>12. Len(s) \in S
    <2>1. Len(s) \in 0 .. Len(s)
      BY <1>2
    <2> HIDE DEF S
    <2> QED BY <1>2, <1>10, <1>11, <2>1, CountUp
  <1> QED BY <1>1, <1>12 DEF after

LEMMA PopAppCounts ==
  ASSUME NEW c \in GoodCaches, NEW a
  PROVE  PopApp(c, a) \in GoodCaches
  <1> DEFINE Turn(d, n) == IF c.lru[n].key.app = a THEN Pop(d, c.lru[n].key) ELSE d
             after[n \in 0 .. Len(c.lru)] ==
               IF n = 0 THEN c
               ELSE IF c.lru[n].key.app = a THEN Pop(after[n - 1], c.lru[n].key) ELSE after[n - 1]
  <1>1. PopApp(c, a) = after[Len(c.lru)]
    BY Zenon DEF PopApp
  <1>2. Len(c.lru) \in Nat
    BY DEF GoodCaches, Caches
  <1>3. ASSUME NEW d \in GoodCaches, NEW n PROVE Turn(d, n) \in GoodCaches
    <2>1. \A k : Counts(Pop(d, k)) /\ Fits(Pop(d, k))
      BY PopCounts DEF GoodCaches
    <2>2. \A k : Pop(d, k) \in GoodCaches
      BY <2>1 DEF GoodCaches, Counts
    <2> QED BY <2>2
  <1> HIDE DEF Turn
  <1>4. PICK G : G = [n \in 1 .. Len(c.lru) |-> [d \in GoodCaches |-> Turn(d, n)]]
    OBVIOUS
  <1>5. StepsIn(G, Len(c.lru), GoodCaches)
    BY <1>2, <1>3, <1>4 DEF StepsIn
  <1>6. PICK f : TraceOf(f, G, Len(c.lru), GoodCaches, c)
    BY <1>5, LoopTrace
  <1>7. /\ f \in [0 .. Len(c.lru) -> GoodCaches] /\ f[0] = c
        /\ \A n \in 1 .. Len(c.lru) : n - 1 \in 0 .. Len(c.lru) /\ f[n] = Turn(f[n - 1], n)
    <2>1. /\ f \in [0 .. Len(c.lru) -> GoodCaches] /\ f[0] = c
          /\ \A n \in 1 .. Len(c.lru) : f[n] = G[n][f[n - 1]]
      BY <1>6 DEF TraceOf
    <2>2. \A n \in 1 .. Len(c.lru) : n - 1 \in 0 .. Len(c.lru)
      BY <1>2
    <2> QED BY <1>4, <2>1, <2>2
  <1>8. f = [n \in 0 .. Len(c.lru) |->
               IF n = 0 THEN c
               ELSE IF c.lru[n].key.app = a THEN Pop(f[n - 1], c.lru[n].key) ELSE f[n - 1]]
    <2>1. \A n \in 0 .. Len(c.lru) : n = 0 \/ n \in 1 .. Len(c.lru)
      BY <1>2
    <2>2. \A n \in 0 .. Len(c.lru) :
            f[n] = IF n = 0 THEN c
                   ELSE IF c.lru[n].key.app = a THEN Pop(f[n - 1], c.lru[n].key) ELSE f[n - 1]
      BY <1>2, <1>7, <2>1 DEF Turn
    <2> QED BY <1>7, <2>2
  <1>9. after = [n \in 0 .. Len(c.lru) |->
                   IF n = 0 THEN c
                   ELSE IF c.lru[n].key.app = a THEN Pop(after[n - 1], c.lru[n].key)
                        ELSE after[n - 1]]
    BY <1>8, Zenon
  <1> HIDE DEF after
  <1> DEFINE S == {n \in 0 .. Len(c.lru) : after[n] \in GoodCaches}
  <1>10. 0 \in S
    BY <1>2, <1>9
  <1>11. ASSUME NEW n \in 0 .. Len(c.lru) - 1, n \in S PROVE n + 1 \in S
    <2>1. n + 1 \in 0 .. Len(c.lru) /\ n + 1 # 0 /\ (n + 1) - 1 = n
      BY <1>2
    <2>2. after[n + 1] = Turn(after[n], n + 1)
      BY <1>9, <2>1 DEF Turn
    <2> QED BY <1>3, <1>11, <2>1, <2>2
  <1>12. Len(c.lru) \in S
    <2>1. Len(c.lru) \in 0 .. Len(c.lru)
      BY <1>2
    <2> HIDE DEF S
    <2> QED BY <1>2, <1>10, <1>11, <2>1, CountUp
  <1> QED BY <1>1, <1>12 DEF after

LEMMA DeleteEntriesTyped ==
  ASSUME NEW s \in Seq(Entries), NEW a
  PROVE  DeleteEntries(s, a) \in Seq(Entries)
  <1> DEFINE Turn(t, n) == IF s[n].key.app = a THEN t ELSE Append(t, s[n])
             kept[n \in 0 .. Len(s)] ==
               IF n = 0 THEN <<>>
               ELSE IF s[n].key.app = a THEN kept[n - 1] ELSE Append(kept[n - 1], s[n])
  <1>1. DeleteEntries(s, a) = kept[Len(s)]
    BY Zenon DEF DeleteEntries
  <1>2. Len(s) \in Nat /\ \A n \in 1 .. Len(s) : s[n] \in Entries
    OBVIOUS
  <1>3. ASSUME NEW t \in Seq(Entries), NEW n \in 1 .. Len(s) PROVE Turn(t, n) \in Seq(Entries)
    BY <1>2, AppendProperties
  <1> HIDE DEF Turn
  <1>4. PICK G : G = [n \in 1 .. Len(s) |-> [t \in Seq(Entries) |-> Turn(t, n)]]
    OBVIOUS
  <1>5. StepsIn(G, Len(s), Seq(Entries))
    BY <1>2, <1>3, <1>4 DEF StepsIn
  <1>6. PICK f : TraceOf(f, G, Len(s), Seq(Entries), <<>>)
    <2>1. <<>> \in Seq(Entries)
      OBVIOUS
    <2> QED BY <1>5, <2>1, LoopTrace
  <1>7. /\ f \in [0 .. Len(s) -> Seq(Entries)] /\ f[0] = <<>>
        /\ \A n \in 1 .. Len(s) : n - 1 \in 0 .. Len(s) /\ f[n] = Turn(f[n - 1], n)
    <2>1. /\ f \in [0 .. Len(s) -> Seq(Entries)] /\ f[0] = <<>>
          /\ \A n \in 1 .. Len(s) : f[n] = G[n][f[n - 1]]
      BY <1>6 DEF TraceOf
    <2>2. \A n \in 1 .. Len(s) : n - 1 \in 0 .. Len(s)
      BY <1>2
    <2> QED BY <1>4, <2>1, <2>2
  <1>8. f = [n \in 0 .. Len(s) |->
               IF n = 0 THEN <<>>
               ELSE IF s[n].key.app = a THEN f[n - 1] ELSE Append(f[n - 1], s[n])]
    <2>1. \A n \in 0 .. Len(s) : n = 0 \/ n \in 1 .. Len(s)
      BY <1>2
    <2>2. \A n \in 0 .. Len(s) :
            f[n] = IF n = 0 THEN <<>>
                   ELSE IF s[n].key.app = a THEN f[n - 1] ELSE Append(f[n - 1], s[n])
      BY <1>2, <1>7, <2>1 DEF Turn
    <2> QED BY <1>7, <2>2
  <1>9. kept = [n \in 0 .. Len(s) |->
                  IF n = 0 THEN <<>>
                  ELSE IF s[n].key.app = a THEN kept[n - 1] ELSE Append(kept[n - 1], s[n])]
    BY <1>8, Zenon
  <1> HIDE DEF kept
  <1> DEFINE S == {n \in 0 .. Len(s) : kept[n] \in Seq(Entries)}
  <1>10. 0 \in S
    BY <1>2, <1>9
  <1>11. ASSUME NEW n \in 0 .. Len(s) - 1, n \in S PROVE n + 1 \in S
    <2>1. n + 1 \in 0 .. Len(s) /\ n + 1 \in 1 .. Len(s) /\ n + 1 # 0 /\ (n + 1) - 1 = n
      BY <1>2
    <2>2. kept[n + 1] = Turn(kept[n], n + 1)
      BY <1>9, <2>1 DEF Turn
    <2> QED BY <1>3, <1>11, <2>1, <2>2
  <1>12. Len(s) \in S
    <2>1. Len(s) \in 0 .. Len(s)
      BY <1>2
    <2> HIDE DEF S
    <2> QED BY <1>2, <1>10, <1>11, <2>1, CountUp
  <1> QED BY <1>1, <1>12 DEF kept

RenderPcs == {"idle", "load", "handshake", "request", "shutdown", "connect", "call", "parse"}
Renders == [pc : RenderPcs, key : CacheKeys \cup {NotRendering.key}, attempt : Nat]

\* Inductive: the cache is right, the table holds entries, a render is of a key.
RenderInv ==
  /\ AppCache \in GoodCaches
  /\ persisted \in Seq(Entries)
  /\ render \in [Renderers -> Renders]

LEMMA WithoutTyped ==
  ASSUME NEW s \in Seq(Entries), NEW k
  PROVE  Without(s, k) \in Seq(Entries)
  <1>1. CASE ~Holds(s, k)
    BY <1>1 DEF Without
  <1>2. CASE Holds(s, k)
    <2>1. PlaceOf(s, k) \in DOMAIN s
      BY <1>2, Zenon DEF Holds, PlaceOf
    <2>2. RemoveAt(s, PlaceOf(s, k)) \in Seq(Entries)
      BY <2>1, RemoveAtKeeps
    <2> QED BY <1>2, <2>2 DEF Without
  <1> QED BY <1>1, <1>2

\* A hit moves an entry to the recent end: the same entries, the same bytes.
LEMMA PromoteCounts ==
  ASSUME NEW c \in GoodCaches, NEW k, Holds(c.lru, k), NEW d,
         d = [lru |-> Append(Without(c.lru, k), c.lru[PlaceOf(c.lru, k)]), bytes |-> c.bytes]
  PROVE  d \in GoodCaches
  <1>1. Counts(c) /\ Fits(c) /\ c.lru \in Seq(Entries) /\ c.bytes \in Nat
    BY DEF GoodCaches, Caches
  <1>2. PICK i : i = PlaceOf(c.lru, k)
    OBVIOUS
  <1>3. i \in DOMAIN c.lru /\ c.lru[i].key = k
    BY <1>2, Zenon DEF Holds, PlaceOf
  <1>4. PICK e \in Entries : e = c.lru[i]
    BY <1>1, <1>3
  <1>5. PICK s \in Seq(Entries) : s = RemoveAt(c.lru, i)
    BY <1>1, <1>3, RemoveAtKeeps
  <1>6. d = [lru |-> Append(s, e), bytes |-> c.bytes]
    BY <1>2, <1>4, <1>5, Zenon DEF Without
  <1>7. PICK t \in Seq(Entries) : t = Append(s, e)
    BY AppendProperties
  <1>8. d \in Caches /\ d.lru = t /\ d.bytes = c.bytes
    <2>1. d = [lru |-> t, bytes |-> c.bytes]
      BY <1>6, <1>7, Zenon
    <2>2. PICK n \in Nat : n = c.bytes
      BY <1>1
    <2>3. d = [lru |-> t, bytes |-> n]
      BY <2>1, <2>2, Zenon
    <2>4. PICK x : x = [lru |-> t, bytes |-> n]
      OBVIOUS
    <2>5. x \in Caches /\ x.lru = t /\ x.bytes = n
      BY <2>4 DEF Caches
    <2>6. d = x
      BY <2>3, <2>4, Zenon
    <2> QED BY <2>2, <2>5, <2>6, Zenon
  <1>9. TakeOut(c, i).lru = s
    BY <1>5 DEF TakeOut
  <1>10. /\ Counts(TakeOut(c, i)) /\ Len(s) = Len(c.lru) - 1 /\ ~Holds(s, k)
    BY <1>1, <1>3, <1>9, TakeOutCounts
  <1>11. Len(t) = Len(c.lru)
    <2>1. PICK n \in Nat : n = Len(s)
      OBVIOUS
    <2>2. PICK m \in Nat : m = Len(c.lru)
      BY <1>1
    <2>3. Len(t) = n + 1
      BY <1>7, <2>1, AppendProperties
    <2> QED BY <1>10, <2>1, <2>2, <2>3
  <1>12. BytesOf(t) = c.bytes
    <2>1. BytesOf(c.lru) = BytesOf(s) + e.bytes
      BY <1>1, <1>3, <1>4, <1>5, BytesRemove
    <2>2. BytesOf(t) = BytesOf(s) + e.bytes
      BY <1>7, BytesAppend
    <2> QED BY <1>1, <2>1, <2>2 DEF Counts
  <1>13. Keyed(t)
    <2>1. PICK n \in Nat : n = Len(s)
      OBVIOUS
    <2>2. /\ DOMAIN t = 1 .. n + 1 /\ DOMAIN s = 1 .. n /\ t[n + 1] = e
          /\ \A j \in 1 .. n : t[j] = s[j]
      BY <1>7, <2>1, AppendProperties
    <2>3. Keyed(s) /\ \A j \in 1 .. n : s[j].key # e.key
      BY <1>3, <1>4, <1>9, <1>10, <2>2 DEF Counts, Holds
    <2> SUFFICES ASSUME NEW a \in 1 .. n + 1, NEW b \in 1 .. n + 1, t[a].key = t[b].key PROVE a = b
      BY <2>1, <2>2 DEF Keyed
    <2>4. (a = n + 1 \/ a \in 1 .. n) /\ (b = n + 1 \/ b \in 1 .. n)
      OBVIOUS
    <2>5. CASE a \in 1 .. n /\ b \in 1 .. n
      BY <2>2, <2>3, <2>5 DEF Keyed
    <2>6. CASE a = n + 1 /\ b \in 1 .. n
      BY <2>2, <2>3, <2>6
    <2>7. CASE a \in 1 .. n /\ b = n + 1
      BY <2>2, <2>3, <2>7
    <2> QED BY <2>4, <2>5, <2>6, <2>7
  <1>14. Counts(d)
    BY <1>1, <1>8, <1>11, <1>12, <1>13 DEF Counts
  <1>15. Fits(d)
    BY <1>1, <1>8, <1>11 DEF Fits
  <1> QED BY <1>8, <1>14, <1>15 DEF GoodCaches

LEMMA EmptyCounts == [lru |-> <<>>, bytes |-> 0] \in GoodCaches
  <1>1. PICK c : c = [lru |-> <<>>, bytes |-> 0]
    OBVIOUS
  <1>2. c \in Caches /\ c.lru = <<>> /\ c.bytes = 0 /\ <<>> \in Seq(Entries)
    BY <1>1 DEF Caches
  <1>3. Keyed(<<>>) /\ Len(<<>>) = 0
    BY DEF Keyed
  <1>4. Counts(c)
    BY <1>2, <1>3, BytesEmpty, RenderingAssumption DEF Counts
  <1>5. Fits(c)
    BY <1>2, RenderingAssumption DEF Fits
  <1> QED BY <1>1, <1>2, <1>4, <1>5 DEF GoodCaches

LEMMA IdleRender == NotRendering \in Renders
  BY DEF NotRendering, Renders, RenderPcs

LEMMA FirstStepTyped == ASSUME NEW kind PROVE FirstStep(kind) \in RenderPcs
  <1>1. CASE kind = "raw"
    BY <1>1 DEF FirstStep, RenderPcs
  <1>2. CASE kind = "local"
    BY <1>2 DEF FirstStep, RenderPcs
  <1>3. CASE kind = "sidecar"
    BY <1>3 DEF FirstStep, RenderPcs
  <1>4. CASE kind \notin {"raw", "local", "sidecar"}
    BY <1>4 DEF FirstStep, RenderPcs
  <1> QED BY <1>1, <1>2, <1>3, <1>4

LEMMA RenderInvStep == RenderInv /\ [RenderingNext]_renderVars => RenderInv'
  <1> SUFFICES ASSUME RenderInv, [RenderingNext]_renderVars PROVE RenderInv'
    OBVIOUS
  <1>1. /\ AppCache \in GoodCaches /\ persisted \in Seq(Entries)
        /\ render \in [Renderers -> Renders]
        /\ lru \in Seq(Entries) /\ totalBytes \in Nat /\ AppCache.lru = lru
    <2>1. AppCache \in GoodCaches /\ persisted \in Seq(Entries) /\ render \in [Renderers -> Renders]
      BY DEF RenderInv
    <2>2. AppCache.lru = lru /\ AppCache.bytes = totalBytes
      BY DEF AppCache
    <2>3. AppCache.lru \in Seq(Entries) /\ AppCache.bytes \in Nat
      BY <2>1 DEF GoodCaches, Caches
    <2> QED BY <2>1, <2>2, <2>3
  <1>2. ASSUME NEW c \in GoodCaches, SetAppCache(c) PROVE AppCache' \in GoodCaches
    <2>1. c = [lru |-> c.lru, bytes |-> c.bytes]
      BY DEF GoodCaches, Caches
    <2>2. AppCache' = [lru |-> c.lru, bytes |-> c.bytes]
      BY <1>2 DEF SetAppCache, AppCache
    <2> QED BY <2>1, <2>2
  <1>3. ASSUME UNCHANGED <<lru, totalBytes>> PROVE AppCache' \in GoodCaches
    BY <1>1, <1>3 DEF AppCache
  <1>4. CASE UNCHANGED renderVars
    BY <1>1, <1>3, <1>4 DEF renderVars, RenderInv
  <1>5. ASSUME NEW doc \in PluginDocs, ReloadRegistry(doc) PROVE RenderInv'
    BY <1>1, <1>3, <1>5 DEF ReloadRegistry, RenderInv
  <1>6. ASSUME NEW a, InvalidateApp(a) PROVE RenderInv'
    <2>1. AppCache' \in GoodCaches
      BY <1>1, <1>2, <1>6, PopAppCounts DEF InvalidateApp
    <2>2. persisted' \in Seq(Entries)
      BY <1>1, <1>6, DeleteEntriesTyped DEF InvalidateApp
    <2> QED BY <1>1, <1>6, <2>1, <2>2 DEF InvalidateApp, RenderInv
  <1>7. ASSUME NEW i \in DOMAIN lru, SaveEntry(i) PROVE RenderInv'
    <2>1. lru[i] \in Entries
      BY <1>1
    <2>2. Without(persisted, lru[i].key) \in Seq(Entries)
      BY <1>1, WithoutTyped
    <2>3. persisted' \in Seq(Entries)
      BY <1>7, <2>1, <2>2, AppendProperties DEF SaveEntry
    <2> QED BY <1>1, <1>3, <1>7, <2>3 DEF SaveEntry, RenderInv
  <1>8. ASSUME NEW limit \in 1 .. MaxEntries, Warm(limit) PROVE RenderInv'
    <2>1. PICK first : first = IF Len(persisted) > limit THEN Len(persisted) - limit + 1 ELSE 1
      OBVIOUS
    <2>2. Len(persisted) \in Nat /\ limit \in Nat
      BY <1>1, RenderingAssumption
    <2>3. first \in Int /\ first >= 1
      BY <2>1, <2>2
    <2>4. \A i \in first .. Len(persisted) : persisted[i] \in Entries
      BY <1>1, <2>2, <2>3
    <2>5. PICK recent : recent = SubSeq(persisted, first, Len(persisted))
      OBVIOUS
    <2>6. recent \in Seq(Entries)
      BY <2>2, <2>3, <2>4, <2>5, SubSeqProperties
    <2>7. PICK c : c = PutAll([lru |-> <<>>, bytes |-> 0], recent)
      OBVIOUS
    <2>8. c \in GoodCaches
      BY <2>6, <2>7, EmptyCounts, PutAllCounts
    <2>9. SetAppCache(c)
      BY <1>8, <2>1, <2>5, <2>7, Zenon DEF Warm
    <2>10. AppCache' \in GoodCaches
      BY <1>2, <2>8, <2>9
    <2>11. persisted' = persisted /\ render' \in [Renderers -> Renders]
      BY <1>8, IdleRender DEF Warm
    <2> QED BY <1>1, <2>10, <2>11 DEF RenderInv
  <1>9. ASSUME NEW w \in Renderers, NEW k \in CacheKeys, RenderHit(w, k) PROVE RenderInv'
    <2>1. Holds(AppCache.lru, k)
      BY <1>1, <1>9 DEF RenderHit
    <2>2. AppCache' = [lru |-> Append(Without(AppCache.lru, k), AppCache.lru[PlaceOf(AppCache.lru, k)]),
                       bytes |-> AppCache.bytes]
      BY <1>9 DEF RenderHit, AppCache
    <2>3. AppCache' \in GoodCaches
      BY <1>1, <2>1, <2>2, PromoteCounts
    <2> QED BY <1>1, <1>9, <2>3 DEF RenderHit, RenderInv
  <1>10. ASSUME NEW w \in Renderers, NEW k \in CacheKeys, NEW n \in PluginNames, RenderMiss(w, k, n)
         PROVE  RenderInv'
    <2>1. PICK first \in RenderPcs : first = FirstStep(registry[n])
      BY FirstStepTyped
    <2>2. PICK r : r = IF first = "idle" THEN NotRendering
                       ELSE [pc |-> first, key |-> k, attempt |-> 1]
      OBVIOUS
    <2>3. r \in Renders
      BY <2>2, IdleRender DEF Renders
    <2>4. render' = [render EXCEPT ![w] = r]
      BY <1>10, <2>1, <2>2 DEF RenderMiss
    <2>5. render' \in [Renderers -> Renders]
      BY <1>1, <2>3, <2>4
    <2> QED BY <1>1, <1>3, <1>10, <2>5 DEF RenderMiss, RenderInv
  <1>11. ASSUME NEW w \in Renderers, NEW pc \in RenderPcs, RenderGoto(w, pc) PROVE RenderInv'
    <2>1. render' \in [Renderers -> Renders]
      BY <1>1, <1>11 DEF RenderGoto, Renders
    <2> QED BY <1>1, <1>3, <1>11, <2>1 DEF RenderGoto, RenderInv
  <1>12. ASSUME NEW w \in Renderers, GiveUp(w) PROVE RenderInv'
    <2>1. render' \in [Renderers -> Renders]
      BY <1>1, <1>12, IdleRender DEF GiveUp
    <2> QED BY <1>1, <1>3, <1>12, <2>1 DEF GiveUp, RenderInv
  <1>13. ASSUME NEW w \in Renderers, SidecarRetry(w) PROVE RenderInv'
    <2>1. render[w] \in Renders /\ render[w].attempt + 1 \in Nat
      BY <1>1 DEF Renders
    <2>2. PICK r : r = [render[w] EXCEPT !.attempt = render[w].attempt + 1]
      OBVIOUS
    <2>3. r \in Renders
      BY <2>1, <2>2 DEF Renders
    <2>4. render' = [render EXCEPT ![w] = r]
      BY <1>13, <2>2 DEF SidecarRetry
    <2>5. render' \in [Renderers -> Renders]
      BY <1>1, <2>3, <2>4
    <2> QED BY <1>1, <1>3, <1>13, <2>5 DEF SidecarRetry, RenderInv
  <1>14. ASSUME NEW w \in Renderers, NEW b \in Sizes, PluginRenders(w, b) PROVE RenderInv'
    <2>1. PICK e : e = [key |-> render[w].key, bytes |-> b]
      OBVIOUS
    <2>2. e \in Entries
      BY <1>1, <2>1, RenderingAssumption DEF Entries, Renders
    <2>3. Counts(AppCache)
      BY <1>1 DEF GoodCaches
    <2>4. PICK c : c = Put(AppCache, e)
      OBVIOUS
    <2>5. Counts(c) /\ Fits(c)
      BY <2>2, <2>3, <2>4, PutCounts
    <2>6. c \in GoodCaches
      BY <2>5 DEF GoodCaches, Counts
    <2>7. SetAppCache(c)
      BY <1>14, <2>1, <2>4, Zenon DEF PluginRenders
    <2>8. AppCache' \in GoodCaches
      BY <1>2, <2>6, <2>7
    <2>9. persisted' = persisted /\ render' \in [Renderers -> Renders]
      BY <1>1, <1>14, IdleRender DEF PluginRenders
    <2> QED BY <1>1, <2>8, <2>9 DEF RenderInv
  <1>15. ASSUME NEW w \in Renderers,
                \/ LoadDir(w) \/ PluginReady(w) \/ PluginAnswers(w) \/ PluginShutdown(w)
                \/ SidecarReady(w) \/ SidecarAnswers(w)
         PROVE  RenderInv'
    <2>1. {"parse", "request", "shutdown", "call"} \subseteq RenderPcs
      BY DEF RenderPcs
    <2>2. \E pc \in RenderPcs : RenderGoto(w, pc)
      BY <1>15, <2>1 DEF LoadDir, PluginReady, PluginAnswers, PluginShutdown, SidecarReady,
         SidecarAnswers
    <2> QED BY <1>11, <2>2
  <1>16. ASSUME NEW w \in Renderers, PluginFails(w) \/ SidecarFails(w) \/ ParseFails(w)
         PROVE  RenderInv'
    BY <1>12, <1>16 DEF PluginFails, SidecarFails, ParseFails
  <1>17. CASE Clear
    <2>1. AppCache' = [lru |-> <<>>, bytes |-> 0]
      BY <1>17 DEF Clear, AppCache
    <2> QED BY <1>1, <1>17, <2>1, EmptyCounts DEF Clear, RenderInv
  <1> QED BY <1>4, <1>5, <1>6, <1>7, <1>8, <1>9, <1>10, <1>13, <1>14, <1>15, <1>16, <1>17
          DEF RenderingNext

\* AppCache: the inductive invariant holds for any caps, sizes, keys and number of renders.
THEOREM RenderInvariant == RenderingSpec => []RenderInv
  <1>1. RenderingInit => RenderInv
    <2> SUFFICES ASSUME RenderingInit PROVE RenderInv
      OBVIOUS
    <2>1. AppCache = [lru |-> <<>>, bytes |-> 0]
      BY DEF RenderingInit, AppCache
    <2>2. persisted \in Seq(Entries) /\ render \in [Renderers -> Renders]
      BY IdleRender DEF RenderingInit
    <2> QED BY <2>1, <2>2, EmptyCounts DEF RenderInv
  <1> QED BY <1>1, RenderInvStep, PTL DEF RenderingSpec

\* AppCache counts exactly the bytes it holds, holds one entry a key and at most max_entries,
\* and no more than max_bytes unless a single entry is larger than that.
THEOREM CacheAccountsExactly == RenderingSpec => []CacheAccounts
  <1>1. RenderInv => CacheAccounts
    <2> SUFFICES ASSUME RenderInv PROVE CacheAccounts
      OBVIOUS
    <2>1. Counts(AppCache) /\ Fits(AppCache)
      BY DEF RenderInv, GoodCaches
    <2>2. AppCache.lru = lru /\ AppCache.bytes = totalBytes
      BY DEF AppCache
    <2> QED BY <2>1, <2>2 DEF Counts, Fits, Keyed, CacheAccounts
  <1> QED BY <1>1, RenderInvariant, PTL
=============================================================================
