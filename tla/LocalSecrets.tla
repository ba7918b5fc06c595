---------------------------- MODULE LocalSecrets ----------------------------
(***************************************************************************)
(* What server processes of one deployment share through the OS keychain:  *)
(* the key material of the encrypted stores (RecoveryCapsuleStore,         *)
(* AssuranceSnapshotStore) and the MSAL token cache (TokenProvider), with  *)
(* the Graph client that pins one principal and asks for a token before    *)
(* every request.                                                          *)
(*                                                                         *)
(* The keychain has no transactions: a get and a set are separate steps.   *)
(* The two stores create their material alike and under names of their     *)
(* own, so one stands for both.  In memory mode nothing is shared, and     *)
(* nothing is modelled.                                                    *)
(***************************************************************************)
EXTENDS Naturals, FiniteSets

CONSTANTS
    Processes,
    Accounts,        \* accounts a user of this machine can sign in with
    Policies,        \* [ids, domain]: allowed_user_ids and accounts in upn_domains;
                     \* empty: any
    MaxRecords,      \* bound on encrypted records
    MaxRevocations,  \* bound on sessions ended by Microsoft, and on restarts
    None

ASSUME SecretsAssumption ==
    /\ IsFiniteSet(Accounts)
    /\ Policies \subseteq [ids : SUBSET Accounts, domain : SUBSET Accounts]
    /\ MaxRecords \in Nat
    /\ MaxRevocations \in Nat
    /\ None \notin Accounts \cup Processes

VARIABLES
    material,    \* keychain: the key, named by the process that made it
    encoded,     \* what the running store call of a process holds
    storing,     \* where that call is
    settled,     \* when it began, no process was about to replace the key
    records,     \* sealed under a key: capsules, snapshots and keyed digests
    entry,       \* keychain: accounts in the saved token cache
    cache,       \* accounts in the token cache of each process
    live,        \* accounts whose session Microsoft still renews
    policy,      \* the settings of the deployment
    principal,   \* the principal each Graph client is pinned to
    token,       \* whose access token the running request of a process carries
    pc,          \* where that request is
    revocations

stores == <<material, encoded, storing, settled, records>>
sessions == <<policy, entry, cache, live, principal, token, pc, revocations>>
secretsVars == <<material, encoded, storing, settled, records, policy, entry, cache,
                 live, principal, token, pc, revocations>>

Records == [key : Processes, id : 1..MaxRecords, settled : BOOLEAN]

SecretsTypeOK ==
    /\ material \in Processes \cup {None}
    /\ encoded \in [Processes -> Processes \cup {None}]
    /\ storing \in [Processes -> {"idle", "absent", "created", "ready"}]
    /\ settled \in [Processes -> BOOLEAN]
    /\ records \subseteq Records
    /\ policy \in Policies
    /\ entry \subseteq Accounts
    /\ cache \in [Processes -> SUBSET Accounts]
    /\ live \subseteq Accounts
    /\ principal \in [Processes -> Accounts \cup {None}]
    /\ token \in [Processes -> Accounts \cup {None}]
    /\ pc \in [Processes -> {"idle", "me", "pinned", "send", "sent"}]
    /\ revocations \in 0..MaxRevocations

SecretsInit ==
    /\ material = None
    /\ encoded = [p \in Processes |-> None]
    /\ storing = [p \in Processes |-> "idle"]
    /\ settled = [p \in Processes |-> FALSE]
    /\ records = {}
    /\ policy \in Policies
    /\ entry = {} /\ cache = [p \in Processes |-> {}]
    /\ live = {}
    /\ principal = [p \in Processes |-> None]
    /\ token = [p \in Processes |-> None]
    /\ pc = [p \in Processes |-> "idle"]
    /\ revocations = 0

-----------------------------------------------------------------------------
(* Key material. *)

Settled == \A q \in Processes : storing[q] \notin {"absent", "created"}

\* Mutant of GetMaterial: a call makes its own key whatever is stored.
GetMaterialUnread(p) ==
    /\ storing[p] = "idle" /\ Cardinality(records) < MaxRecords
    /\ encoded' = [encoded EXCEPT ![p] = None]
    /\ storing' = [storing EXCEPT ![p] = "absent"]
    /\ settled' = [settled EXCEPT ![p] = material # None /\ Settled]
    /\ UNCHANGED <<material, records, sessions>>

\* Every store call reads the keychain again.
GetMaterial(p) ==
    /\ storing[p] = "idle" /\ Cardinality(records) < MaxRecords
    /\ encoded' = [encoded EXCEPT ![p] = material]
    /\ storing' = [storing EXCEPT ![p] = IF material = None THEN "absent" ELSE "ready"]
    /\ settled' = [settled EXCEPT ![p] = material # None /\ Settled]
    /\ UNCHANGED <<material, records, sessions>>

GenerateKey(p) ==
    /\ storing[p] = "absent"
    /\ encoded' = [encoded EXCEPT ![p] = p]
    /\ storing' = [storing EXCEPT ![p] = "created"]
    /\ UNCHANGED <<material, settled, records, sessions>>

\* set_password overwrites what another process stored meanwhile.
SetMaterial(p) ==
    /\ storing[p] = "created"
    /\ material' = encoded[p]
    /\ storing' = [storing EXCEPT ![p] = "ready"]
    /\ UNCHANGED <<encoded, settled, records, sessions>>

\* Encrypt and append, or compute a keyed digest.
Seal(p) ==
    /\ storing[p] = "ready"
    /\ records' = records \cup
           {[key |-> encoded[p], id |-> Cardinality(records) + 1, settled |-> settled[p]]}
    /\ Cardinality(records) < MaxRecords
    /\ encoded' = [encoded EXCEPT ![p] = None]
    /\ storing' = [storing EXCEPT ![p] = "idle"]
    /\ UNCHANGED <<material, settled, sessions>>

\* The keychain refuses, or the file cannot be written.
FailStore(p) ==
    /\ storing[p] # "idle"
    /\ encoded' = [encoded EXCEPT ![p] = None]
    /\ storing' = [storing EXCEPT ![p] = "idle"]
    /\ UNCHANGED <<material, settled, records, sessions>>

-----------------------------------------------------------------------------
(* Tokens and the principal. *)

Matches(a) ==
    /\ policy.ids # {} => a \in policy.ids
    /\ policy.domain # {} => a \in policy.domain

\* Mutant of ValidToken: the object id of a token is not compared.
ValidTokenOfAnyone(a) == TRUE

\* _validate_access_token: tenant, audience, lifetime and scopes are right in every
\* token the model hands out; the object id is compared, the domain is not.
ValidToken(a) == policy.ids # {} => a \in policy.ids

Candidates(p) == {a \in cache[p] : Matches(a)}

\* The accounts a token may come from: the one cached account that matches, silently
\* while its session lives; the account a user picks otherwise. Two matches raise.
TokenSources(p) ==
    IF Cardinality(Candidates(p)) > 1 THEN {}
    ELSE IF Candidates(p) # {} /\ Candidates(p) \subseteq live THEN Candidates(p)
    ELSE Accounts

\* get_access_token, under the lock of the provider: the cache takes the account
\* in before the token is validated and is saved only after.
Obtained(p, a, next) ==
    /\ cache' = [cache EXCEPT ![p] = @ \cup {a}]
    /\ live' = live \cup {a}
    /\ IF ValidToken(a)
       THEN /\ entry' = cache'[p]
            /\ token' = [token EXCEPT ![p] = a]
            /\ pc' = [pc EXCEPT ![p] = next]
       ELSE /\ UNCHANGED entry
            /\ token' = [token EXCEPT ![p] = None]
            /\ pc' = [pc EXCEPT ![p] = "idle"]
    /\ UNCHANGED <<stores, policy, principal, revocations>>

\* A tool call: without a principal the client asks /me first.
AskMe(p) ==
    /\ pc[p] = "idle" /\ principal[p] = None
    /\ \E a \in TokenSources(p) : Obtained(p, a, "me")

\* The answer of /me: authorize_principal, then the principal stays for good.
Pin(p) ==
    /\ pc[p] = "me"
    /\ IF Matches(token[p])
       THEN /\ principal' = [principal EXCEPT ![p] = token[p]]
            /\ pc' = [pc EXCEPT ![p] = "pinned"]
       ELSE /\ pc' = [pc EXCEPT ![p] = "idle"]
            /\ UNCHANGED principal
    /\ token' = [token EXCEPT ![p] = None]
    /\ UNCHANGED <<stores, policy, entry, cache, live, revocations>>

\* Every request has a token of its own.
GetToken(p) ==
    /\ pc[p] \in {"pinned", "idle"} /\ principal[p] # None
    /\ \E a \in TokenSources(p) : Obtained(p, a, "send")

\* Graph answers 401 once: force_refresh asks again, the session permitting.
Refresh(p) ==
    /\ pc[p] = "send"
    /\ \E a \in TokenSources(p) : Obtained(p, a, "sent")

Complete(p) ==
    /\ pc[p] \in {"send", "sent"}
    /\ pc' = [pc EXCEPT ![p] = "idle"]
    /\ token' = [token EXCEPT ![p] = None]
    /\ UNCHANGED <<stores, policy, entry, cache, live, principal, revocations>>

\* Microsoft ends a session: password change, revocation, expiry.
EndSession ==
    /\ revocations < MaxRevocations
    /\ revocations' = revocations + 1
    /\ \E a \in live : live' = live \ {a}
    /\ UNCHANGED <<stores, policy, entry, cache, principal, token, pc>>

\* A process starts anew and loads the saved cache.
Restart(p) ==
    /\ revocations < MaxRevocations
    /\ revocations' = revocations + 1
    /\ cache' = [cache EXCEPT ![p] = entry]
    /\ principal' = [principal EXCEPT ![p] = None]
    /\ token' = [token EXCEPT ![p] = None]
    /\ pc' = [pc EXCEPT ![p] = "idle"]
    /\ encoded' = [encoded EXCEPT ![p] = None]
    /\ storing' = [storing EXCEPT ![p] = "idle"]
    /\ UNCHANGED <<material, settled, records, policy, entry, live>>

SecretsNext ==
    \/ \E p \in Processes :
          \/ GetMaterial(p) \/ GenerateKey(p) \/ SetMaterial(p) \/ Seal(p)
          \/ FailStore(p)
          \/ AskMe(p) \/ Pin(p) \/ GetToken(p) \/ Refresh(p) \/ Complete(p)
          \/ Restart(p)
    \/ EndSession

SecretsSpec == SecretsInit /\ [][SecretsNext]_secretsVars

-----------------------------------------------------------------------------

\* Key material is created by whoever finds none, so that processes that start
\* together replace each other's key. The damage ends there: what a call seals that
\* began when no such process was left stays readable under the key in the keychain.
SettledRecordsReadable == \A r \in records : r.settled => r.key = material

\* With one allowed object id, as customer deployments must have, no sequence of
\* expired sessions, sign-ins with other accounts, restarts and overwritten caches
\* lets a request leave with the token of another account than the pinned one.
RequestsAsPrincipal ==
    Cardinality(policy.ids) = 1 =>
        \A p \in Processes : pc[p] \in {"send", "sent"} => token[p] = principal[p]

=============================================================================
