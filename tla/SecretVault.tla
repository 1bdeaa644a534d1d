---------------------------- MODULE SecretVault ----------------------------
(***************************************************************************)
(* The secret vault (services/secret-vault.ts).  The operator's commands    *)
(* (core/secret-vault-cli.ts) are processes of their own: each reads the    *)
(* configuration file anew and writes the tables in one transaction.  The   *)
(* gateway reads the configuration once, derives its master key from it at  *)
(* the first use, and only reads secrets.  Values are numbered as they are  *)
(* made up; encryption is modelled by the key a value can be read with.     *)
(***************************************************************************)
EXTENDS Naturals, Sequences, FiniteSets

CONSTANTS Secrets,        \* names of secrets, "API_SECRET" among them
          Window,         \* rotationWindowHours
          MaxTime,        \* bound: the clock
          MaxValues       \* bound: values made up, and edits of the configuration

VARIABLES registry,       \* secret_vault_registry
          current,        \* secret_vault_values
          versions,       \* secret_vault_versions, oldest first
          config,         \* the configuration file and environment
          gateway,        \* the gateway process: its configuration and its key
          clock, values,
          saved,          \* history: the value a command last reported as saved
          rekeyed         \* history: the master key changed, from one to another or to none
vars == <<registry, current, versions, config, gateway, clock, values, saved, rekeyed>>

None == 0
Never == MaxTime + Window + 1
MasterKey == "SECRET_VAULT_MASTER_KEY"
Keys == Secrets \cup {MasterKey}
NoRow == [status |-> "none", required |-> FALSE, expires |-> Never]
NoValue == [version |-> 0, value |-> None, key |-> None]
Down == [up |-> FALSE, config |-> [k \in Keys |-> None], key |-> None]

Init == /\ registry = [s \in Secrets |-> NoRow]
        /\ current = [s \in Secrets |-> NoValue]
        /\ versions = [s \in Secrets |-> <<>>]
        /\ config = [k \in Keys |-> None]
        /\ gateway = Down
        /\ clock = 0 /\ values = 0
        /\ saved = [s \in Secrets |-> None]
        /\ rekeyed = FALSE

\* resolveMasterKey: the dedicated key, or the API secret of the configuration.
KeyOf(c) == IF c[MasterKey] # None THEN c[MasterKey] ELSE c["API_SECRET"]

\* resolveStatus: what a row says, and what the clock makes of it.
Status(s) == IF registry[s].status = "active" /\ registry[s].expires <= clock THEN "expired" ELSE registry[s].status

(***************************************************************************)
(* Commands.                                                                *)
(***************************************************************************)

\* A new value in the tables; the one it replaces goes to the versions.
StoreForgetting(s, row) ==
    /\ versions' = versions
    /\ current' = [current EXCEPT ![s] = [version |-> @.version + 1, value |-> values + 1, key |-> KeyOf(config)]]
    /\ registry' = [registry EXCEPT ![s] = row]
Store(s, row) ==
    /\ versions' = IF current[s] = NoValue THEN versions ELSE [versions EXCEPT ![s] = Append(@, current[s])]
    /\ current' = [current EXCEPT ![s] = [version |-> @.version + 1, value |-> values + 1, key |-> KeyOf(config)]]
    /\ registry' = [registry EXCEPT ![s] = row]

Saves(s, row) == /\ values < MaxValues /\ values' = values + 1
                 /\ KeyOf(config) # None
                 /\ Store(s, row)
                 /\ saved' = [saved EXCEPT ![s] = values + 1]
                 /\ UNCHANGED <<config, gateway, clock, rekeyed>>

\* Without an expiry of its own a secret expires after the rotation window.
SetSecret(s, required, expires) == Saves(s, [status |-> "active", required |-> required, expires |-> expires])

\* A secret that is not registered, revoked or without a value is not rotated.
RotateSecret(s, expires) == /\ registry[s].status = "active" /\ current[s] # NoValue
                            /\ Saves(s, [registry[s] EXCEPT !.expires = expires])

RevokeSecret(s) == /\ registry[s].status # "none"
                   /\ registry' = [registry EXCEPT ![s].status = "revoked"]
                   /\ saved' = [saved EXCEPT ![s] = None]
                   /\ UNCHANGED <<current, versions, config, gateway, clock, values, rekeyed>>

\* The operator edits the configuration: a new value for a name, or none.
Configure(k, v) ==
    LET new == [config EXCEPT ![k] = v]
    IN /\ values < MaxValues /\ values' = values + 1
       /\ v \in {None, values + 1} /\ v # config[k]
       /\ config' = new
       /\ rekeyed' = (rekeyed \/ KeyOf(config) \notin {None, KeyOf(new)})
       /\ UNCHANGED <<registry, current, versions, gateway, clock, saved>>

(***************************************************************************)
(* Reading.                                                                 *)
(***************************************************************************)

\* readVaultSecretValue: an active value that decrypts.
VaultValueStale(s, key) == IF current[s].key = key THEN current[s].value ELSE None
VaultValue(s, key) == IF Status(s) = "active" /\ current[s].key = key THEN current[s].value ELSE None

\* readSecret: the vault before the configuration.
ReadSecret(s, key, c) == IF VaultValue(s, key) # None THEN VaultValue(s, key) ELSE c[s]

\* getSecretHealth and assertStartupPreflight: the required secrets are there and not expired.
Required == {"API_SECRET"} \cup {s \in Secrets : registry[s].required}
Healthy(key, c) == \A s \in Required : ReadSecret(s, key, c) # None /\ Status(s) # "expired"

\* The gateway starts when its preflight passes; reading a stored value resolves the key.
Resolved(key, c) == IF key = None /\ \E s \in Required : current[s] # NoValue /\ Status(s) = "active" THEN KeyOf(c) ELSE key
StartGateway ==
    /\ ~gateway.up
    /\ Healthy(KeyOf(config), config)
    /\ gateway' = [up |-> TRUE, config |-> config, key |-> Resolved(None, config)]
    /\ UNCHANGED <<registry, current, versions, config, clock, values, saved, rekeyed>>

StopGateway == /\ gateway.up
               /\ gateway' = Down
               /\ UNCHANGED <<registry, current, versions, config, clock, values, saved, rekeyed>>

\* The gateway reads a secret: its first encrypted one fixes its key for good.
GatewayKey == IF gateway.key = None THEN KeyOf(gateway.config) ELSE gateway.key
GatewayReads(s) == /\ gateway.up /\ gateway.key = None /\ current[s] # NoValue /\ Status(s) = "active"
                   /\ gateway' = [gateway EXCEPT !.key = KeyOf(gateway.config)]
                   /\ UNCHANGED <<registry, current, versions, config, clock, values, saved, rekeyed>>

Tick == /\ clock < MaxTime
        /\ clock' = clock + 1
        /\ saved' = [s \in Secrets |-> IF registry[s].expires <= clock + 1 THEN None ELSE saved[s]]
        /\ UNCHANGED <<registry, current, versions, config, gateway, values, rekeyed>>

Next == \/ \E s \in Secrets : \/ \E expires \in {clock + Window, Never} :
                                     \/ RotateSecret(s, expires)
                                     \/ \E required \in BOOLEAN : SetSecret(s, required, expires)
                              \/ RevokeSecret(s) \/ GatewayReads(s)
        \/ \E k \in Keys, v \in {None, values + 1} : Configure(k, v)
        \/ StartGateway \/ StopGateway \/ Tick

Spec == Init /\ [][Next]_vars

(***************************************************************************)
(* Properties.                                                              *)
(***************************************************************************)

TypeOK == /\ \A s \in Secrets : /\ Status(s) \in {"none", "active", "revoked", "expired"}
                                /\ (registry[s].status = "none") <=> (current[s] = NoValue)
          /\ values \in 0..MaxValues /\ clock \in 0..MaxTime

\* What the gateway reads of a secret is the value a command last reported as saved - never one
\* that was replaced, revoked or has expired - or else the one of its own configuration, and
\* this only when there is none saved or the master key is not the one it was saved with.
\* Every value ever saved is kept, under a version of its own.
SavedIsRead ==
    \A s \in Secrets :
        /\ gateway.up => /\ ReadSecret(s, GatewayKey, gateway.config) \in {saved[s], gateway.config[s]}
                         /\ saved[s] # None /\ ~rekeyed => ReadSecret(s, GatewayKey, gateway.config) = saved[s]
        /\ current[s].version = Len(versions[s]) + (IF current[s] = NoValue THEN 0 ELSE 1)
        /\ \A i \in DOMAIN versions[s] : versions[s][i].version = i
=============================================================================
