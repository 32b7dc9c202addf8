--------------------------- MODULE OAuthProvider ---------------------------
(***************************************************************************)
(* Authorization codes and access tokens, on top of the client registry:   *)
(* HandleAuthorize, HandleToken and what they call in                      *)
(* internal/gateway/oauth.go.                                              *)
(*                                                                         *)
(* What a code is bound to, the client, the redirect URI and the PKCE      *)
(* challenge, is one record; a verifier stands for the challenge it        *)
(* hashes to.  Codes live in memory only.  A token is signed and never     *)
(* stored: "tokens" is what was handed out.                                *)
(***************************************************************************)
EXTENDS OAuthClients

CONSTANTS
    Codes,        \* what randomID draws
    Redirects,    \* redirect URIs
    Challenges,   \* PKCE challenges
    Registered,   \* Registered[c]: the redirect URIs client c registered
    MaxCodes,     \* maxCodes
    TTL,          \* codeTTL
    MaxTime       \* bound on the clock

ASSUME ProviderAssumption ==
    /\ Registered \in [Clients -> SUBSET Redirects]
    /\ MaxCodes \in Nat \ {0}
    /\ TTL \in Nat
    /\ MaxTime \in Nat

VARIABLES
    now,
    approving,    \* requests that passed validateAuthorize and the PIN
    codes,        \* OAuthProvider.codes: a set of entries
    issued,       \* every entry whose code was given out
    voided,       \* codes that a crash took out of memory
    uses,         \* uses[code]: how often it was exchanged for a token
    tokens,       \* the tokens: [code, by, at]
    turnedAway    \* a request was refused because the table was full

grants == <<approving, codes, issued, voided, uses, tokens, turnedAway>>
vars == <<clientVars, now, grants>>

Bindings == [client : Clients, redirect : Redirects, challenge : Challenges]
Entries == [code : Codes, to : Bindings, at : 0..MaxTime]

TypeOK ==
    /\ ClientsTypeOK
    /\ now \in 0..MaxTime
    /\ approving \subseteq Bindings
    /\ codes \subseteq Entries /\ Cardinality(codes) <= MaxCodes
    /\ issued \subseteq Entries
    /\ voided \subseteq Codes
    /\ uses \in [Codes -> Nat]
    /\ tokens \subseteq [code : Codes, by : Bindings, at : 0..MaxTime]
    /\ turnedAway \in BOOLEAN

Init ==
    /\ ClientsInit
    /\ now = 0
    /\ approving = {} /\ codes = {} /\ issued = {} /\ voided = {}
    /\ uses = [c \in Codes |-> 0] /\ tokens = {}
    /\ turnedAway = FALSE

----------------------------------------------------------------------------
\* Variant of Expired that counts the last moment of a code's life out.
ExpiredEarly(e) == e.at + TTL <= now

\* CreatedAt.Before(cutoff)
Expired(e) == e.at + TTL < now

\* pruneCodesLocked
Pruned == {e \in codes : ~Expired(e)}

\* The client is known and the redirect URI is one of its own.
Valid(b) == b.client \in clients /\ b.redirect \in Registered[b.client]

\* Variant of Validate that reads the registry without its lock.
ValidateUnlocked(b) ==
    /\ up
    /\ Valid(b)
    /\ approving' = approving \cup {b}
    /\ UNCHANGED <<clientVars, now, codes, issued, voided, uses, tokens, turnedAway>>

\* The form is posted: validateAuthorize takes mu, and the PIN is right.
Validate(b) ==
    /\ Unlocked
    /\ Valid(b)
    /\ approving' = approving \cup {b}
    /\ UNCHANGED <<clientVars, now, codes, issued, voided, uses, tokens, turnedAway>>

\* Variant of Room that counts before it prunes.
RoomUnpruned == Cardinality(codes) < MaxCodes

\* Variant of Room that lets one code too many in.
RoomForOneMore == Cardinality(Pruned) <= MaxCodes

Room == Cardinality(Pruned) < MaxCodes

\* issueAuthorizationCode; a code is never drawn twice.
Issue(b, code) ==
    /\ Unlocked
    /\ b \in approving
    /\ \A e \in issued : e.code # code
    /\ approving' = approving \ {b}
    /\ LET entry == [code |-> code, to |-> b, at |-> now] IN
       \/ /\ Room
          /\ codes' = Pruned \cup {entry} /\ issued' = issued \cup {entry}
          /\ UNCHANGED turnedAway
       \/ /\ ~Room
          /\ codes' = Pruned /\ turnedAway' = TRUE
          /\ UNCHANGED issued
    /\ UNCHANGED <<clientVars, now, voided, uses, tokens>>

\* signToken: the token is made of what the code was issued for.
Token(code, b) == [code |-> code, by |-> b, at |-> now]

\* Variant of Matching that compares the client and the challenge, not the URI.
MatchingAnywhere(code, b) ==
    {e \in Pruned : e.code = code /\ e.to.client = b.client /\ e.to.challenge = b.challenge}

\* Everything the code is bound to is compared.
Matching(code, b) == {e \in Pruned : e.code = code /\ e.to = b}

Granted(code, b) ==
    /\ uses' = [uses EXCEPT ![code] = @ + 1]
    /\ tokens' = tokens \cup {Token(code, b)}

\* A request that fails leaves the code.
NotGranted(code, b) ==
    /\ Matching(code, b) = {}
    /\ codes' = Pruned
    /\ UNCHANGED <<uses, tokens>>

\* Variant of Exchange that leaves the code for another exchange.
ExchangeAgain(code, b) ==
    /\ Unlocked
    /\ \/ Matching(code, b) # {} /\ uses[code] < 2 /\ codes' = Pruned /\ Granted(code, b)
       \/ NotGranted(code, b)
    /\ UNCHANGED <<clientVars, now, approving, issued, voided, turnedAway>>

\* HandleToken: prune, compare, and delete the code with the token.
Exchange(code, b) ==
    /\ Unlocked
    /\ \/ \E e \in Matching(code, b) : codes' = Pruned \ {e} /\ Granted(code, b)
       \/ NotGranted(code, b)
    /\ UNCHANGED <<clientVars, now, approving, issued, voided, turnedAway>>

Wait ==
    /\ now < MaxTime
    /\ now' = now + 1
    /\ UNCHANGED <<clientVars, grants>>

CrashAll ==
    /\ Crash
    /\ approving' = {} /\ codes' = {}
    /\ voided' = voided \cup {e.code : e \in codes}
    /\ UNCHANGED <<now, issued, uses, tokens, turnedAway>>

----------------------------------------------------------------------------
Next ==
    \/ (ClientsNext \/ Restart) /\ UNCHANGED <<now, grants>>
    \/ \E b \in Bindings : Validate(b)
    \/ \E b \in Bindings, code \in Codes : Issue(b, code) \/ Exchange(code, b)
    \/ Wait
    \/ CrashAll

Spec == Init /\ [][Next]_vars

----------------------------------------------------------------------------
(* Properties. *)

\* No code is exchanged twice, however exchanges, failed attempts, pruning and
\* restarts follow each other (exchangeAuthorizationCode).
SpentOnce == \A code \in Codes : uses[code] <= 1

\* A token goes only to who names everything the code was issued for, the client,
\* the redirect URI and the challenge, and only within codeTTL.
TokensAreGranted ==
    \A t \in tokens : \E e \in issued :
        e.code = t.code /\ e.to = t.by /\ t.at <= e.at + TTL

\* Whoever holds a token is a client that every later start of the Gateway knows:
\* no code is issued for a registration whose save then fails.
TokensOfDurableClients == \A t \in tokens : t.by.client \in Loadable

\* A code that was given out can be exchanged until it is spent or expires, up to
\* the last moment of codeTTL and whatever else is pruned, unless a crash lost it.
FreshCodesStand ==
    \A e \in issued :
        uses[e.code] = 0 /\ e.code \notin voided /\ now <= e.at + TTL => e \in codes

\* A request is turned away only when maxCodes codes could still be exchanged:
\* expired ones do not count.
TurnedAwayOnlyWhenFull ==
    [][~turnedAway /\ turnedAway' =>
        Cardinality({e \in issued : uses[e.code] = 0 /\ e.code \notin voided /\ now <= e.at + TTL})
            >= MaxCodes]_vars
============================================================================
