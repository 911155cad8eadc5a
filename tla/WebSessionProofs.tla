-------------------------- MODULE WebSessionProofs --------------------------
(***************************************************************************)
(* Proofs about WebSession, for any wallets, any number of sign-in         *)
(* attempts and of requests in flight.                                     *)
(***************************************************************************)
EXTENDS WebSession, TLAPS

Wallet == Wallets \cup {None}

AttemptType ==
    [pc : {"off", "nonce", "sign", "verify", "over"}, pubkey : Wallet, signer : Wallet,
     reply : {"none", "token", "401"}, sent : Nat]

FetchType ==
    [key : Kinds \X Wallets, owner : Wallets, token : [sub : Wallets, id : Attempts],
     pc : {"rest", "chain"}]

\* The types TypeOK leaves out.
Types ==
    /\ TypeOK
    /\ attempts \in [Attempts -> AttemptType]
    /\ nonces \in [Attempts -> {"none", "open", "consumed", "expired"}]
    /\ minted \in [Attempts -> {<<>>} \cup {<<w>> : w \in Wallets}]
    /\ lists \in [Kinds \X Wallets -> {None} \cup SUBSET Wallets]
    /\ fetches \in SUBSET FetchType

\* How far a pipeline has come tells what it may have left behind.
Pipeline(a) ==
    /\ attempts[a].pc \in {"off", "nonce"} =>
         minted[a] = <<>> /\ attempts[a].reply = "none"
    /\ attempts[a].pc \in {"nonce", "sign", "verify"} => attempts[a].pubkey \in Wallets
    /\ minted[a] # <<>> =>
         nonces[a] = "consumed" /\ minted[a] = <<attempts[a].pubkey>>
    /\ attempts[a].reply = "token" => minted[a] = <<attempts[a].pubkey>>

TokenMinted == token # None => minted[token.id] = <<token.sub>>

\* A request asks under the key of its owner with a token of that owner.
FetchesOwn == \A f \in fetches : f.key[2] = f.owner /\ f.token.sub = f.owner

Inv ==
    /\ Types
    /\ \A a \in Attempts : Pipeline(a)
    /\ TokenMinted
    /\ FetchesOwn
    /\ ListsByOwner

-----------------------------------------------------------------------------
LEMMA InvInit == Init => Inv
BY SessionAssumption
DEF Init, Inv, Types, TypeOK, AttemptType, FetchType, Wallet, NoAttempt, Token, Pipeline,
    TokenMinted, FetchesOwn, ListsByOwner, Kinds, Attempts

\* A pipeline that moves on keeps its type.
LEMMA MovesTyped ==
    ASSUME Types, NEW a \in Attempts, NEW to \in {"nonce", "sign", "over"},
           attempts' = [attempts EXCEPT ![a].pc = to]
    PROVE  attempts' \in [Attempts -> AttemptType]
<1>1. attempts \in [Attempts -> AttemptType] /\ attempts[a] \in AttemptType
  BY DEF Types
<1>2. [attempts[a] EXCEPT !.pc = to] \in AttemptType
  BY <1>1 DEF AttemptType
<1>3. attempts' = [attempts EXCEPT ![a] = [attempts[a] EXCEPT !.pc = to]]
  OBVIOUS
<1> QED BY <1>1, <1>2, <1>3

\* The pipeline's steps.
LEMMA PipelineSteps ==
    ASSUME Inv, NEW a \in Attempts,
           \/ signIn(a) \/ Fails(a) \/ issue_nonce(a) \/ signMessage(a)
           \/ verify_and_mint(a) \/ authVerify(a)
    PROVE  Inv'
<1>t. Types
  BY DEF Inv
<1>p. ASSUME NEW b \in Attempts
      PROVE  Pipeline(b)
  BY DEF Inv
<1>w. wallet \in Wallet /\ None \notin Wallets
  BY SessionAssumption DEF Inv, Types, TypeOK, Wallet
<1>1. CASE signIn(a)
  <2> USE <1>1 DEF signIn, At
  <2>1. attempts' \in [Attempts -> AttemptType]
    <3>1. attempts[a] \in AttemptType
      BY <1>t DEF Types
    <3>2. [attempts[a] EXCEPT !.pc = "nonce", !.pubkey = wallet] \in AttemptType
      BY <1>w, <3>1 DEF AttemptType
    <3>3. attempts' = [attempts EXCEPT ![a] =
                         [attempts[a] EXCEPT !.pc = "nonce", !.pubkey = wallet]]
      BY <1>t, <3>1 DEF Types, AttemptType
    <3> QED BY <1>t, <3>2, <3>3 DEF Types
  <2>2. Types'
    BY <1>t, <2>1 DEF Types, TypeOK, backend, cache
  <2>3. ASSUME NEW b \in Attempts
        PROVE  Pipeline(b)'
    <3>1. CASE b = a
      BY <1>t, <1>p, <1>w, <3>1 DEF Types, AttemptType, Wallet, Pipeline, backend
    <3>2. CASE b # a
      BY <1>t, <1>p, <3>2 DEF Types, Pipeline, backend
    <3> QED BY <3>1, <3>2
  <2>4. TokenMinted'
    BY DEF Inv, TokenMinted, backend
  <2>5. FetchesOwn' /\ ListsByOwner'
    BY DEF Inv, FetchesOwn, ListsByOwner, cache
  <2> QED BY <2>2, <2>3, <2>4, <2>5 DEF Inv
<1>2. CASE Fails(a)
  <2> USE <1>2 DEF Fails, Moves
  <2>1. attempts' \in [Attempts -> AttemptType]
    BY <1>t, MovesTyped
  <2>2. Types'
    BY <1>t, <2>1 DEF Types, TypeOK, backend, cache
  <2>3. ASSUME NEW b \in Attempts
        PROVE  Pipeline(b)'
    <3>1. CASE b = a
      BY <1>t, <1>p, <1>w, <3>1 DEF Types, AttemptType, Pipeline, backend
    <3>2. CASE b # a
      BY <1>t, <1>p, <3>2 DEF Types, Pipeline, backend
    <3> QED BY <3>1, <3>2
  <2>4. TokenMinted'
    BY DEF Inv, TokenMinted, backend
  <2>5. FetchesOwn' /\ ListsByOwner'
    BY DEF Inv, FetchesOwn, ListsByOwner, cache
  <2> QED BY <2>2, <2>3, <2>4, <2>5 DEF Inv
<1>3. CASE issue_nonce(a)
  <2> USE <1>3 DEF issue_nonce, At, Moves
  <2>1. attempts' \in [Attempts -> AttemptType]
    BY <1>t, MovesTyped
  <2>2. Types'
    BY <1>t, <2>1 DEF Types, TypeOK, backend, cache
  <2>3. ASSUME NEW b \in Attempts
        PROVE  Pipeline(b)'
    <3>1. CASE b = a
      BY <1>t, <1>p, <1>w, <3>1 DEF Types, AttemptType, Pipeline, backend
    <3>2. CASE b # a
      BY <1>t, <1>p, <3>2 DEF Types, Pipeline, backend
    <3> QED BY <3>1, <3>2
  <2>4. TokenMinted'
    BY <1>t, <1>p DEF Inv, TokenMinted
  <2>5. FetchesOwn' /\ ListsByOwner'
    BY DEF Inv, FetchesOwn, ListsByOwner, cache
  <2> QED BY <2>2, <2>3, <2>4, <2>5 DEF Inv
<1>4. CASE signMessage(a)
  <2> USE <1>4 DEF signMessage, At
  <2>1. attempts' \in [Attempts -> AttemptType]
    <3>1. attempts[a] \in AttemptType
      BY <1>t DEF Types
    <3>2. [attempts[a] EXCEPT !.pc = "verify", !.signer = wallet] \in AttemptType
      BY <1>w, <3>1 DEF AttemptType
    <3>3. attempts' = [attempts EXCEPT ![a] =
                         [attempts[a] EXCEPT !.pc = "verify", !.signer = wallet]]
      BY <1>t, <3>1 DEF Types, AttemptType
    <3> QED BY <1>t, <3>2, <3>3 DEF Types
  <2>2. Types'
    BY <1>t, <2>1 DEF Types, TypeOK, backend, cache
  <2>3. ASSUME NEW b \in Attempts
        PROVE  Pipeline(b)'
    <3>1. CASE b = a
      BY <1>t, <1>p, <1>w, <3>1 DEF Types, AttemptType, Pipeline, backend
    <3>2. CASE b # a
      BY <1>t, <1>p, <3>2 DEF Types, Pipeline, backend
    <3> QED BY <3>1, <3>2
  <2>4. TokenMinted'
    BY DEF Inv, TokenMinted, backend
  <2>5. FetchesOwn' /\ ListsByOwner'
    BY DEF Inv, FetchesOwn, ListsByOwner, cache
  <2> QED BY <2>2, <2>3, <2>4, <2>5 DEF Inv
<1>5. CASE verify_and_mint(a)
  <2> USE <1>5 DEF verify_and_mint, Verified, At
  <2>1. attempts' \in [Attempts -> AttemptType]
    <3>1. attempts[a] \in AttemptType
      BY <1>t DEF Types
    <3>2. attempts[a].sent + 1 \in Nat
      BY <3>1 DEF AttemptType
    <3> QED BY <1>t, <3>1, <3>2 DEF Types, AttemptType
  <2>2. Types'
    <3>1. nonces' \in [Attempts -> {"none", "open", "consumed", "expired"}]
      BY <1>t DEF Types
    <3>2. minted' \in [Attempts -> {<<>>} \cup {<<w>> : w \in Wallets}]
      <4>1. CASE nonces[a] = "open" /\ attempts[a].signer = attempts[a].pubkey
        <5>1. minted[a] = <<>> /\ attempts[a].pubkey \in Wallets
          BY <1>t, <1>p, <4>1 DEF Pipeline
        <5>2. minted' = [minted EXCEPT ![a] = <<attempts[a].pubkey>>]
          BY <4>1, <5>1
        <5> QED BY <1>t, <5>1, <5>2 DEF Types
      <4>2. CASE ~(nonces[a] = "open" /\ attempts[a].signer = attempts[a].pubkey)
        BY <1>t, <4>2 DEF Types
      <4> QED BY <4>1, <4>2
    <3> QED BY <1>t, <2>1, <3>1, <3>2 DEF Types, TypeOK, cache
  <2>3. ASSUME NEW b \in Attempts
        PROVE  Pipeline(b)'
    <3>1. CASE b = a
      BY <1>t, <1>p, <1>w, <3>1 DEF Types, AttemptType, Pipeline, backend
    <3>2. CASE b # a
      BY <1>t, <1>p, <3>2 DEF Types, Pipeline, backend
    <3> QED BY <3>1, <3>2
  <2>4. TokenMinted'
    <3>1. ASSUME NEW b \in Attempts, minted[b] # <<>>
          PROVE  minted'[b] = minted[b]
      BY <1>t, <1>p, <3>1 DEF Types, Pipeline
    <3>2. token \in Token /\ token' = token
      BY <1>t DEF Types, TypeOK
    <3>3. CASE token = None
      BY <3>2, <3>3 DEF TokenMinted
    <3>4. CASE token # None
      <4>1. token.id \in Attempts /\ minted[token.id] = <<token.sub>>
        BY <3>2, <3>4 DEF Inv, TokenMinted, Token
      <4>2. <<token.sub>> # <<>>
        OBVIOUS
      <4> QED BY <3>1, <3>2, <4>1, <4>2 DEF TokenMinted
    <3> QED BY <3>3, <3>4
  <2>5. FetchesOwn' /\ ListsByOwner'
    BY DEF Inv, FetchesOwn, ListsByOwner, cache
  <2> QED BY <2>2, <2>3, <2>4, <2>5 DEF Inv
<1>6. CASE authVerify(a)
  <2> USE <1>6 DEF authVerify, At, Moves, setToken
  <2>1. attempts' \in [Attempts -> AttemptType]
    BY <1>t, MovesTyped
  <2>2. Types'
    <3>1. token' \in Token /\ stored' = token'
      BY <1>t, <1>p DEF Types, TypeOK, Token, Pipeline
    <3> QED BY <1>t, <2>1, <3>1 DEF Types, TypeOK, backend
  <2>3. ASSUME NEW b \in Attempts
        PROVE  Pipeline(b)'
    <3>1. CASE b = a
      BY <1>t, <1>p, <1>w, <3>1 DEF Types, AttemptType, Pipeline, backend
    <3>2. CASE b # a
      BY <1>t, <1>p, <3>2 DEF Types, Pipeline, backend
    <3> QED BY <3>1, <3>2
  <2>4. TokenMinted'
    BY <1>p DEF Inv, TokenMinted, Pipeline, backend
  <2>5. FetchesOwn' /\ ListsByOwner'
    BY DEF Inv, FetchesOwn, ListsByOwner, cache
  <2> QED BY <2>2, <2>3, <2>4, <2>5 DEF Inv
<1> QED BY <1>1, <1>2, <1>3, <1>4, <1>5, <1>6

\* The steps of the session.
LEMMA SessionSteps ==
    ASSUME Inv,
           reset \/ WalletChanges \/ AuthProvider \/ signOut \/ Reload \/ TimePasses
    PROVE  Inv'
<1> USE SessionAssumption
<1>1. CASE reset
  BY <1>1 DEF reset, Inv, Types, TypeOK, Pipeline, TokenMinted, FetchesOwn, ListsByOwner,
              backend, cache
<1>2. CASE WalletChanges
  BY <1>2 DEF WalletChanges, Inv, Types, TypeOK, Pipeline, TokenMinted, FetchesOwn,
              ListsByOwner, backend, cache
<1>3. CASE AuthProvider \/ signOut
  BY <1>3 DEF AuthProvider, signOut, setToken, Inv, Types, TypeOK, Token, Pipeline,
              TokenMinted, FetchesOwn, ListsByOwner, backend
<1>4. CASE Reload
  <2> USE <1>4 DEF Reload
  <2>t. Types
    BY DEF Inv
  <2>1. NoAttempt \in AttemptType
    BY DEF NoAttempt, AttemptType, Wallet
  <2>2. ASSUME NEW a \in Attempts
        PROVE  [attempts[a] EXCEPT !.pc = "over"] \in AttemptType
    BY <2>t, <2>2 DEF Types, AttemptType
  <2>3. attempts' \in [Attempts -> AttemptType]
    BY <2>1, <2>2
  <2>4. Types'
    BY <2>t, <2>3 DEF Types, TypeOK, Token, backend
  <2>5. ASSUME NEW a \in Attempts
        PROVE  Pipeline(a)'
    <3>1. Pipeline(a) /\ attempts[a] \in AttemptType
      BY <2>t DEF Inv, Types
    <3>2. CASE At(a, "off")
      BY <3>1, <3>2 DEF At, NoAttempt, Pipeline, backend
    <3>3. CASE ~At(a, "off")
      BY <3>1, <3>3 DEF AttemptType, Pipeline, backend
    <3> QED BY <3>2, <3>3
  <2>6. TokenMinted' /\ FetchesOwn' /\ ListsByOwner'
    BY <2>t DEF Inv, Types, TypeOK, TokenMinted, FetchesOwn, ListsByOwner, backend
  <2> QED BY <2>4, <2>5, <2>6 DEF Inv
<1>5. CASE TimePasses
  BY <1>5 DEF TimePasses, Inv, Types, TypeOK, Pipeline, TokenMinted, FetchesOwn,
              ListsByOwner, cache
<1> QED BY <1>1, <1>2, <1>3, <1>4, <1>5

\* The steps of the lists.
LEMMA ListSteps ==
    ASSUME Inv,
           \/ useAgentsQuery \/ useVaultsQuery
           \/ \E f \in fetches :
                \/ Unauthorized(f) \/ Retried(f) \/ Answered(f)
                \/ readAgentsFromChainByOwner(f) \/ readVaultsFromChainByOwner(f)
    PROVE  Inv'
<1> USE SessionAssumption
<1>1. ASSUME NEW kind \in Kinds, Fetch(kind)
      PROVE  Inv'
  BY <1>1 DEF Fetch, Console, ListKey, Inv, Types, TypeOK, Token, FetchType, Pipeline,
              TokenMinted, FetchesOwn, ListsByOwner, backend
<1>2. ASSUME NEW f \in fetches, Unauthorized(f)
      PROVE  Inv'
  BY <1>2 DEF Unauthorized, setToken, Inv, Types, TypeOK, Token, Pipeline, TokenMinted,
              FetchesOwn, ListsByOwner, backend
<1>3. ASSUME NEW f \in fetches, Retried(f)
      PROVE  Inv'
  BY <1>3 DEF Retried, Console, Inv, Types, TypeOK, Token, FetchType, Pipeline, TokenMinted,
              FetchesOwn, ListsByOwner, backend
<1>4. ASSUME NEW f \in fetches, Answered(f)
      PROVE  Inv'
  <2> USE <1>4 DEF Answered
  <2>1. /\ f \in FetchType /\ f.key \in Kinds \X Wallets /\ f.owner \in Wallets
        /\ f.key[2] = f.owner /\ f.token.sub = f.owner
    BY DEF Inv, Types, FetchesOwn, FetchType
  <2>2. [f EXCEPT !.pc = "chain"] \in FetchType
    BY <2>1 DEF FetchType
  <2>3. fetches' \in SUBSET FetchType /\ FetchesOwn'
    BY <2>1, <2>2 DEF Inv, Types, FetchesOwn, FetchType
  <2>4. lists' \in [Kinds \X Wallets -> {None} \cup SUBSET Wallets]
    BY <2>1 DEF Inv, Types
  <2>5. ListsByOwner'
    <3>1. ASSUME NEW kind \in Kinds, NEW w \in Wallets, f.key = <<kind, w>>
          PROVE  f.token.sub = w
      BY <2>1, <3>1
    <3>2. ASSUME NEW kind \in Kinds, NEW w \in Wallets
          PROVE  \/ lists'[<<kind, w>>] = lists[<<kind, w>>]
                 \/ f.key = <<kind, w>> /\ lists'[<<kind, w>>] = {f.token.sub}
      BY <2>1 DEF Inv, Types
    <3>3. ASSUME NEW kind \in Kinds, NEW w \in Wallets, lists'[<<kind, w>>] # None
          PROVE  lists'[<<kind, w>>] \subseteq {w}
      <4>1. CASE lists'[<<kind, w>>] = lists[<<kind, w>>]
        BY <3>3, <4>1 DEF Inv, ListsByOwner
      <4>2. CASE f.key = <<kind, w>> /\ lists'[<<kind, w>>] = {f.token.sub}
        BY <3>1, <4>2
      <4> QED BY <3>2, <4>1, <4>2
    <3> QED BY <3>3 DEF ListsByOwner
  <2>6. Types' /\ TokenMinted' /\ \A a \in Attempts : Pipeline(a)'
    BY <2>3, <2>4 DEF Inv, Types, TypeOK, TokenMinted, Pipeline, backend
  <2> QED BY <2>3, <2>5, <2>6 DEF Inv
<1>5. ASSUME NEW f \in fetches, NEW kind \in Kinds, Scanned(f, kind)
      PROVE  Inv'
  BY <1>5 DEF Scanned, Inv, Types, TypeOK, Token, FetchType, Pipeline, TokenMinted,
              FetchesOwn, ListsByOwner, backend
<1> QED BY <1>1, <1>2, <1>3, <1>4, <1>5
        DEF useAgentsQuery, useVaultsQuery, readAgentsFromChainByOwner,
            readVaultsFromChainByOwner, Kinds

LEMMA InvNext == Inv /\ [Next]_vars => Inv'
<1> SUFFICES ASSUME Inv, [Next]_vars
             PROVE  Inv'
  OBVIOUS
<1>1. CASE UNCHANGED vars
  BY <1>1 DEF vars, Inv, Types, TypeOK, Pipeline, TokenMinted, FetchesOwn, ListsByOwner
<1>2. CASE Next
  BY <1>2, PipelineSteps, SessionSteps, ListSteps DEF Next
<1> QED BY <1>1, <1>2

LEMMA Invariance == Spec => []Inv
BY InvInit, InvNext, PTL DEF Spec

-----------------------------------------------------------------------------
(* The theorems. *)

\* Wallet, token and lists stay well formed, and localStorage holds the token
\* in use at every moment a reload may come.
THEOREM SessionTypeCorrect == Spec => []TypeOK
<1>1. Inv => TypeOK
  BY DEF Inv, Types
<1> QED BY <1>1, Invariance, PTL

\* A nonce mints one token at most, however often verify is sent.
THEOREM NonceMintsOnce == Spec => []MintedOnce
<1>1. Inv => MintedOnce
  <2>1. \A w \in Wallets : Len(<<w>>) = 1
    OBVIOUS
  <2>2. Len(<<>>) = 0
    OBVIOUS
  <2>3. ASSUME Inv, NEW a \in Attempts
        PROVE  minted[a] = <<>> \/ \E w \in Wallets : minted[a] = <<w>>
    BY <2>3 DEF Inv, Types
  <2>4. ASSUME Inv, NEW a \in Attempts
        PROVE  Len(minted[a]) <= 1
    <3>1. CASE minted[a] = <<>>
      BY <2>2, <3>1
    <3>2. CASE \E w \in Wallets : minted[a] = <<w>>
      BY <2>1, <3>2
    <3> QED BY <2>3, <2>4, <3>1, <3>2
  <2> QED BY <2>4 DEF MintedOnce
<1> QED BY <1>1, Invariance, PTL

\* Whoever a token names has signed the nonce it was minted from.
THEOREM TokensAreSigned == Spec => []SignedByOwner
<1>1. Inv => SignedByOwner
  BY DEF Inv, Types, TypeOK, Token, TokenMinted, SignedByOwner
<1> QED BY <1>1, Invariance, PTL

\* No late answer puts one wallet's rows under another wallet's key.
THEOREM ListsStayApart == Spec => []ListsByOwner
<1>1. Inv => ListsByOwner
  BY DEF Inv
<1> QED BY <1>1, Invariance, PTL

=============================================================================
