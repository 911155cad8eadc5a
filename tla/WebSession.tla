----------------------------- MODULE WebSession -----------------------------
(***************************************************************************)
(* Signing in to the web console: the SIWS pipeline (app/useSiwsSignIn.ts, *)
(* backend auth.rs), the token store and its teardown (lib/auth-store.ts,  *)
(* app/auth.tsx), the HTTP layer's 401 handling (lib/http.ts) and the      *)
(* owner's lists in the query cache (lib/api/hooks.ts).  The wallet may be *)
(* switched or disconnected between any two awaits, a pipeline goes on     *)
(* after the screen that started it was reset or left, and a page reload   *)
(* drops everything but localStorage.                                      *)
(*                                                                         *)
(* The listeners of the token store run inside setToken; React's render    *)
(* of the new token is taken with it.  Effects are steps of their own.     *)
(***************************************************************************)
EXTENDS Naturals, Sequences, FiniteSets

CONSTANTS
    Wallets,      \* accounts of the browser's wallet
    Indexed,      \* owners whose agents and vaults the backend has indexed
    MaxAttempts,  \* bound: sign-in attempts; attempt a is given nonce a
    MaxFetches,   \* bound: list requests in flight
    None          \* no value

ASSUME SessionAssumption ==
    /\ Indexed \subseteq Wallets /\ None \notin Wallets
    /\ MaxAttempts \in Nat /\ MaxFetches \in Nat

VARIABLES
    wallet,       \* the connected account, or None
    token,        \* the JWT in AuthStore: [sub, id], or None
    stored,       \* its copy in localStorage
    status,       \* what the sign-in screen shows
    attempts,     \* the sign-in pipelines
    nonces,       \* rows of auth_nonces
    minted,       \* tokens minted from each nonce, and the key that signed
    ended,        \* ids of tokens past their expiry
    lists,        \* the query cache: an owner's list under each key
    placeholder,  \* rows a mounted list shows until its key has data
    fetches       \* list queries in flight

vars == <<wallet, token, stored, status, attempts, nonces, minted, ended, lists,
          placeholder, fetches>>
backend == <<nonces, minted, ended>>
cache == <<lists, placeholder, fetches>>

Attempts == 1..MaxAttempts
Kinds == {"agents", "vaults"}
NoAttempt == [pc |-> "off", pubkey |-> None, signer |-> None, reply |-> "none",
              sent |-> 0]

Init ==
    /\ wallet = None /\ token = None /\ stored = None /\ status = "idle"
    /\ attempts = [a \in Attempts |-> NoAttempt]
    /\ nonces = [a \in Attempts |-> "none"] /\ minted = [a \in Attempts |-> <<>>]
    /\ ended = {}
    /\ lists = [k \in Kinds \X Wallets |-> None]
    /\ placeholder = [k \in Kinds |-> {}]
    /\ fetches = {}

\* RequireAuth: the console is mounted while there is a token.
Console == token # None

\* The list the console shows; a key without data shows the previous one's.
Shown(kind) ==
    IF lists[<<kind, token.sub>>] # None THEN lists[<<kind, token.sub>>]
    ELSE placeholder[kind]

\* The console goes on with its observers when one token replaces another.
setToken(next) ==
    /\ token' = next /\ stored' = next
    /\ placeholder' = [k \in Kinds |->
          IF Console /\ next # None THEN Shown(k) ELSE {}]

-----------------------------------------------------------------------------
(* The sign-in screen. *)

Busy == status \in {"requesting-nonce", "awaiting-signature", "verifying"}

At(a, pc) == attempts[a].pc = pc
Moves(a, to, shows) ==
    /\ attempts' = [attempts EXCEPT ![a].pc = to]
    /\ status' = shows

signIn(a) ==
    /\ At(a, "off") /\ \A b \in Attempts : b < a => ~At(b, "off")
    /\ ~Console /\ ~Busy /\ wallet # None
    /\ attempts' = [attempts EXCEPT ![a].pc = "nonce", ![a].pubkey = wallet]
    /\ status' = "requesting-nonce"
    /\ UNCHANGED <<wallet, token, stored, backend, cache>>

\* A request or the signature fails: the hook's catch.
Fails(a) ==
    /\ attempts[a].pc \in {"nonce", "sign", "verify"}
    /\ Moves(a, "over", "error")
    /\ UNCHANGED <<wallet, token, stored, backend, cache>>

issue_nonce(a) ==
    /\ At(a, "nonce")
    /\ nonces' = [nonces EXCEPT ![a] = "open"]
    /\ Moves(a, "sign", "awaiting-signature")
    /\ UNCHANGED <<wallet, token, stored, minted, ended, cache>>

\* The wallet signs with the account it is on now.
signMessage(a) ==
    /\ At(a, "sign") /\ wallet # None
    /\ attempts' = [attempts EXCEPT ![a].pc = "verify", ![a].signer = wallet]
    /\ status' = "verifying"
    /\ UNCHANGED <<wallet, token, stored, backend, cache>>

\* One UPDATE claims the nonce; then the signature is checked.  The user agent
\* may send the request again when its connection drops before the answer.
Verified(a, claim) ==
    /\ At(a, "verify") /\ attempts[a].sent < 2
    /\ LET claimed == nonces[a] = "open"
           valid == claimed /\ attempts[a].signer = attempts[a].pubkey
       IN  /\ nonces' = IF claimed THEN [nonces EXCEPT ![a] = claim] ELSE nonces
           /\ minted' = IF valid THEN [minted EXCEPT ![a] =
                                         Append(@, attempts[a].signer)] ELSE minted
           /\ attempts' = [attempts EXCEPT ![a].sent = @ + 1,
                              ![a].reply = IF valid THEN "token" ELSE "401"]
    /\ UNCHANGED <<wallet, token, stored, status, ended, cache>>

verify_unclaimed(a) == Verified(a, "open")

verify_any_signer(a) ==
    /\ At(a, "verify") /\ attempts[a].sent < 2 /\ nonces[a] = "open"
    /\ nonces' = [nonces EXCEPT ![a] = "consumed"]
    /\ minted' = [minted EXCEPT ![a] = Append(@, attempts[a].signer)]
    /\ attempts' = [attempts EXCEPT ![a].sent = @ + 1, ![a].reply = "token"]
    /\ UNCHANGED <<wallet, token, stored, status, ended, cache>>

verify_and_mint(a) == Verified(a, "consumed")

\* The token arrives; the hook stores it, whoever is signed in by now.
authVerify(a) ==
    /\ At(a, "verify") /\ attempts[a].reply # "none"
    /\ IF attempts[a].reply = "token"
       THEN /\ setToken([sub |-> attempts[a].pubkey, id |-> a])
            /\ Moves(a, "over", "idle")
       ELSE /\ Moves(a, "over", "error")
            /\ UNCHANGED <<token, stored, placeholder>>
    /\ UNCHANGED <<wallet, backend, lists, fetches>>

\* "change" and "disconnect" reset the screen, not the pipeline.
reset ==
    /\ ~Console /\ status # "idle" /\ status' = "idle"
    /\ UNCHANGED <<wallet, token, stored, attempts, backend, cache>>

-----------------------------------------------------------------------------
(* The session. *)

\* The wallet connects, by itself too, switches account or disconnects.
WalletChanges ==
    /\ wallet' \in (Wallets \cup {None}) \ {wallet}
    /\ UNCHANGED <<token, stored, status, attempts, backend, cache>>

\* AuthProvider's effect.
TearDownDisconnected ==
    /\ token # None /\ wallet = None
    /\ setToken(None)
    /\ UNCHANGED <<wallet, status, attempts, backend, lists, fetches>>

AuthProvider ==
    /\ token # None /\ wallet # token.sub
    /\ setToken(None)
    /\ UNCHANGED <<wallet, status, attempts, backend, lists, fetches>>

signOut ==
    /\ Console /\ setToken(None)
    /\ wallet' \in {wallet, None}
    /\ UNCHANGED <<status, attempts, backend, lists, fetches>>

\* A reload starts from localStorage; the wallet connects again later.
Reload ==
    /\ token' = stored /\ wallet' = None /\ status' = "idle"
    /\ attempts' = [a \in Attempts |->
          IF At(a, "off") THEN NoAttempt ELSE [attempts[a] EXCEPT !.pc = "over"]]
    /\ lists' = [k \in DOMAIN lists |-> None] /\ fetches' = {}
    /\ placeholder' = [k \in Kinds |-> {}]
    /\ UNCHANGED <<stored, backend>>

\* Nonces and tokens expire.
TimePasses ==
    /\ \/ \E a \in Attempts : /\ nonces[a] = "open"
                              /\ nonces' = [nonces EXCEPT ![a] = "expired"]
                              /\ UNCHANGED ended
       \/ \E a \in Attempts \ ended : /\ minted[a] # <<>> /\ ended' = ended \cup {a}
                                      /\ UNCHANGED nonces
    /\ UNCHANGED <<wallet, token, stored, status, attempts, minted, cache>>

-----------------------------------------------------------------------------
(* The owner's lists. *)

ListKeyShared(kind) == <<kind, CHOOSE w \in Wallets : TRUE>>

\* Lists are keyed by the wallet of the token.
ListKey(kind) == <<kind, token.sub>>

\* A mounted list fetches with the token of the moment.
Fetch(kind) ==
    /\ Console /\ Cardinality(fetches) < MaxFetches
    /\ fetches' = fetches \cup
         {[key |-> ListKey(kind), owner |-> token.sub, token |-> token, pc |-> "rest"]}
    /\ UNCHANGED <<wallet, token, stored, status, attempts, backend, lists, placeholder>>

useAgentsQuery == Fetch("agents")
useVaultsQuery == Fetch("vaults")

\* Expired: 401, and request() drops whatever token is stored now.
Unauthorized(f) ==
    /\ f.pc = "rest" /\ f.token.id \in ended
    /\ setToken(None) /\ fetches' = fetches \ {f}
    /\ UNCHANGED <<wallet, status, attempts, backend, lists>>

\* A server error is tried again, with the token of that moment, while the list
\* is mounted under its key.
Retried(f) ==
    /\ f.pc = "rest"
    /\ fetches' = (fetches \ {f}) \cup
         (IF Console /\ token.sub = f.owner THEN {[f EXCEPT !.token = token]} ELSE {})
    /\ UNCHANGED <<wallet, token, stored, status, attempts, backend, lists, placeholder>>

\* The rows of the token's owner; none, and the chain is scanned for the wallet
\* the query was made for.
Answered(f) ==
    /\ f.pc = "rest" /\ f.token.id \notin ended
    /\ IF f.token.sub \in Indexed
       THEN /\ lists' = [lists EXCEPT ![f.key] = {f.token.sub}]
            /\ fetches' = fetches \ {f}
       ELSE fetches' = (fetches \ {f}) \cup {[f EXCEPT !.pc = "chain"]} /\ UNCHANGED lists
    /\ UNCHANGED <<wallet, token, stored, status, attempts, backend, placeholder>>

Scanned(f, kind) ==
    /\ f.pc = "chain" /\ f.key[1] = kind
    /\ \E rows \in {{}, {f.owner}} : lists' = [lists EXCEPT ![f.key] = rows]
    /\ fetches' = fetches \ {f}
    /\ UNCHANGED <<wallet, token, stored, status, attempts, backend, placeholder>>

readAgentsFromChainByOwner(f) == Scanned(f, "agents")
readVaultsFromChainByOwner(f) == Scanned(f, "vaults")

-----------------------------------------------------------------------------
Next ==
    \/ \E a \in Attempts :
         \/ signIn(a) \/ Fails(a) \/ issue_nonce(a) \/ signMessage(a)
         \/ verify_and_mint(a) \/ authVerify(a)
    \/ reset \/ WalletChanges \/ AuthProvider \/ signOut \/ Reload \/ TimePasses
    \/ useAgentsQuery \/ useVaultsQuery
    \/ \E f \in fetches :
         \/ Unauthorized(f) \/ Retried(f) \/ Answered(f)
         \/ readAgentsFromChainByOwner(f) \/ readVaultsFromChainByOwner(f)

\* React runs the effects of what it rendered.
Spec == Init /\ [][Next]_vars /\ WF_vars(AuthProvider)

-----------------------------------------------------------------------------
(* Properties. *)

Token == {None} \cup [sub : Wallets, id : Attempts]

\* Everything has its type, and a reload would find the token in use.
TypeOK ==
    /\ wallet \in Wallets \cup {None} /\ token \in Token /\ stored = token
    /\ ended \subseteq Attempts
    /\ \A k \in DOMAIN lists : lists[k] \in {None} \cup SUBSET Wallets

\* A nonce mints at most one token, over aborted attempts, repeated requests and
\* expiry.
MintedOnce == \A a \in Attempts : Len(minted[a]) <= 1

\* A token's wallet signed for it, although the browser's account may change
\* between the nonce and the signature.
SignedByOwner ==
    token # None => token.id \in Attempts /\ minted[token.id] # <<>>
                    /\ minted[token.id][1] = token.sub

\* What is cached for a wallet are that wallet's rows, whoever is signed in when
\* a late answer arrives.
ListsByOwner ==
    \A kind \in Kinds, w \in Wallets :
        lists[<<kind, w>>] # None => lists[<<kind, w>>] \subseteq {w}

\* The session of an account that is no longer the wallet's ends.
SessionFollowsWallet ==
    (token # None /\ token.sub # wallet) ~> (token = None \/ token.sub = wallet)

=============================================================================
