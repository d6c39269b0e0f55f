---------------------------- MODULE TenantSettings ----------------------------
(***************************************************************************)
(* The versions of a company's tenant settings and the credentials they    *)
(* refer to.  A request reads its actor, and for a credential the current  *)
(* version, without a lock; it then locks the row that points at the       *)
(* current version, compares that version with the one the client expects, *)
(* and appends the next version.  The lock makes the second part one step. *)
(*                                                                         *)
(* Of the settings the model keeps the provider profile, the switch for    *)
(* automatic generation and one value that stands for every other section. *)
(* A Foundry profile has no credential of the tenant: the deployment is    *)
(* ready for it or not.  A deployment starts again with another keyring.   *)
(***************************************************************************)
EXTENDS Integers, Sequences, FiniteSets

CONSTANTS
    Profiles,      \* provider profiles with a tenant credential
    Foundry,       \* the Foundry profile
    Policies,      \* values of the other sections
    KeyVersions,   \* encryption keys of the deployment
    FirstPolicy,
    FirstKey,
    MaxVersions,   \* bound: settings versions
    MaxSecrets,    \* bound: credentials
    Requests,      \* bound: requests in flight at once
    None

ASSUME SettingsAssumption ==
    /\ MaxVersions \in Nat \ {0} /\ MaxSecrets \in Nat \ {0}
    /\ FirstPolicy \in Policies /\ FirstKey \in KeyVersions
    /\ None \notin Profiles \cup {Foundry} /\ Foundry \notin Profiles

VARIABLES
    versions,  \* tenant_settings_versions; the last one is current
    secrets,   \* tenant_secret_records
    keyring,   \* the deployment's keys, and the one it encrypts with
    ready,     \* the deployment is ready for the Foundry profile
    request    \* requests in flight

settingsVars == <<versions, secrets, keyring, ready, request>>

Profile == Profiles \cup {Foundry, None}
Reference == 0..MaxSecrets     \* 0: no credential

\* validate_capability: automatic generation needs a provider profile.
Settings ==
    {s \in [profile: Profile, automatic: BOOLEAN, policy: Policies] :
        s.automatic => s.profile # None}
Version == [settings: Settings, secret: Reference, restored: 0..MaxVersions]
Secret == [profile: Profiles, key: KeyVersions, revoked: BOOLEAN]

\* A keyring has the key it encrypts with.
Keyring == {k \in [keys: SUBSET KeyVersions, active: KeyVersions] : k.active \in k.keys}

Idle == [op |-> "idle"]
SavingAll == [op: {"save"}, expected: 1..MaxVersions, settings: Settings]
SavingPolicy == [op: {"policy"}, expected: 1..MaxVersions, policy: Policies]
Restoring == [op: {"restore"}, expected: 1..MaxVersions, source: 1..MaxVersions]
Replacing == [op: {"replace"}, expected: 1..MaxVersions]

\* The columns and constraints of the tables.
SettingsTypeOK ==
    /\ versions \in Seq(Version) /\ Len(versions) \in 1..MaxVersions
    /\ secrets \in Seq(Secret) /\ Len(secrets) <= MaxSecrets
    /\ \A v \in DOMAIN versions :
         versions[v].secret <= Len(secrets) /\ versions[v].restored < v
    /\ keyring \in Keyring
    /\ ready \in BOOLEAN
    /\ request \in
         [Requests -> {Idle} \cup SavingAll \cup SavingPolicy \cup Restoring \cup Replacing]

\* private_preview_onboarding_settings_v1: no provider yet, nothing automatic.
OnboardingSettings == [profile |-> None, automatic |-> FALSE, policy |-> FirstPolicy]

FirstVersion(settings, secret) == [settings |-> settings, secret |-> secret, restored |-> 0]

\* protect: a credential encrypted with the active key of a keyring.
Protected(profile, key) == [profile |-> profile, key |-> key, revoked |-> FALSE]

\* create_private_preview_initial_settings
Previewed ==
    /\ versions = <<FirstVersion(OnboardingSettings, 0)>>
    /\ secrets = <<>>

\* seed_settings with automatic generation: the bootstrap's profile and credential.
Seeded ==
    \E profile \in Profiles :
        /\ versions = <<FirstVersion(
              [profile |-> profile, automatic |-> TRUE, policy |-> FirstPolicy], 1)>>
        /\ secrets = <<Protected(profile, FirstKey)>>

SettingsInit ==
    /\ Previewed \/ Seeded
    /\ keyring = [keys |-> {FirstKey}, active |-> FirstKey]
    /\ ready = FALSE
    /\ request = [r \in Requests |-> Idle]

Current == versions[Len(versions)]

-----------------------------------------------------------------------------
(* Credentials: _valid_secret.                                              *)

\* The deployment can decrypt the credential for that profile.
Resolves(profile, secret) ==
    /\ secret # 0
    /\ secrets[secret].profile = profile
    /\ ~secrets[secret].revoked
    /\ secrets[secret].key \in keyring.keys

ValidSecret(profile, secret) ==
    IF profile = Foundry THEN secret = 0 /\ ready ELSE Resolves(profile, secret)

-----------------------------------------------------------------------------
(* Wrong variants of the definitions below, each the effect of a plausible  *)
(* mistake in the code; no specification uses them.                         *)

\* The new profile keeps the credential of the old one.
CarriedReferenceAlways(profile) == Current.secret

\* The version the client expects is not compared with the current one.
ExpectsAnyVersion(r) == request[r].expected \in DOMAIN versions

\* Versions may be numbered from the one they were restored from.
AppendsRestored(settings, secret, source) ==
    /\ Len(versions) < MaxVersions
    /\ versions' = Append(versions,
                          [settings |-> settings, secret |-> secret,
                           restored |-> Len(versions) + 1])

-----------------------------------------------------------------------------
(* Requests.                                                                *)

\* An owner or administrator asks; their role is read here, before any lock,
\* and not again.
Begins(r, value) ==
    /\ request[r] = Idle
    /\ request' = [request EXCEPT ![r] = value]
    /\ UNCHANGED <<versions, secrets, keyring, ready>>

Ends(r) == request' = [request EXCEPT ![r] = Idle]

\* The version the client expects is the current one, read under the lock.
ExpectsCurrent(r) == request[r].expected = Len(versions)

\* The credential a save keeps: none for another profile, none for Foundry.
CarriedReference(profile) ==
    IF profile = Current.settings.profile /\ profile # Foundry THEN Current.secret ELSE 0

Enableable(settings, secret) ==
    settings.automatic => ValidSecret(settings.profile, secret)

\* _insert_version
Appends(settings, secret, source) ==
    /\ Len(versions) < MaxVersions
    /\ versions' = Append(versions,
                          [settings |-> settings, secret |-> secret, restored |-> source])

\* update_settings with the settings of the request, or with one section of
\* them over the current ones.
Saves(r, settings) ==
    LET reference == CarriedReference(settings.profile)
    IN  /\ ExpectsCurrent(r)
        /\ settings # Current.settings \/ reference # Current.secret
        /\ Enableable(settings, reference)
        /\ Appends(settings, reference, 0)
        /\ Ends(r)
        /\ UNCHANGED <<secrets, keyring, ready>>

SaveAll(r) == request[r].op = "save" /\ Saves(r, request[r].settings)

SavePolicy(r) ==
    /\ request[r].op = "policy"
    /\ Saves(r, [Current.settings EXCEPT !.policy = request[r].policy])

\* The credential of the restored version, where it still resolves.
RestoredReference(source) ==
    IF ValidSecret(source.settings.profile, source.secret) THEN source.secret ELSE 0

Restore(r) ==
    LET source == versions[request[r].source]
        reference == RestoredReference(source)
    IN  /\ request[r].op = "restore"
        /\ ExpectsCurrent(r)
        /\ request[r].source \in DOMAIN versions \ {Len(versions)}
        /\ Enableable(source.settings, reference)
        /\ Appends(source.settings, reference, request[r].source)
        /\ Ends(r)
        /\ UNCHANGED <<secrets, keyring, ready>>

\* The old credential is revoked in the transaction that saves the new one.
Replace(r) ==
    LET profile == Current.settings.profile
        new == Len(secrets) + 1
    IN  /\ request[r].op = "replace"
        /\ ExpectsCurrent(r)
        /\ profile \in Profiles
        /\ new <= MaxSecrets
        /\ secrets' = Append([s \in DOMAIN secrets |->
                                IF s = Current.secret
                                THEN [secrets[s] EXCEPT !.revoked = TRUE]
                                ELSE secrets[s]],
                             Protected(profile, keyring.active))
        /\ Appends(Current.settings, new, 0)
        /\ Ends(r)
        /\ UNCHANGED <<keyring, ready>>

\* A conflict, an unavailable configuration or the end of the process.
Refused(r) ==
    /\ request[r] # Idle
    /\ Ends(r)
    /\ UNCHANGED <<versions, secrets, keyring, ready>>

-----------------------------------------------------------------------------
(* The deployment around the settings.                                      *)

\* AesGcmTenantCredentialStore.from_bootstrap: the keyring of the new process.
Redeploy(new) ==
    /\ keyring' = new
    /\ request' = [r \in Requests |-> Idle]
    /\ UNCHANGED <<versions, secrets, ready>>

FoundryReadiness ==
    /\ ready' = ~ready
    /\ UNCHANGED <<versions, secrets, keyring, request>>

SettingsNext ==
    \/ \E r \in Requests :
        \/ \E expected \in DOMAIN versions :
            \/ \E s \in Settings :
                 Begins(r, [op |-> "save", expected |-> expected, settings |-> s])
            \/ \E p \in Policies :
                 Begins(r, [op |-> "policy", expected |-> expected, policy |-> p])
            \/ \E v \in DOMAIN versions :
                 Begins(r, [op |-> "restore", expected |-> expected, source |-> v])
            \/ /\ expected = Len(versions)
               /\ Current.settings.profile \in Profiles
               /\ Begins(r, [op |-> "replace", expected |-> expected])
        \/ SaveAll(r)
        \/ SavePolicy(r)
        \/ Restore(r)
        \/ Replace(r)
        \/ Refused(r)
    \/ \E new \in Keyring : Redeploy(new)
    \/ FoundryReadiness

SettingsSpec == SettingsInit /\ [][SettingsNext]_settingsVars

-----------------------------------------------------------------------------
(* Properties.                                                              *)

\* The current version never refers to a revoked credential, nor to one of
\* another profile, whatever was saved, switched, replaced and restored before.
CurrentCredentialIsLive ==
    Current.secret # 0 =>
        /\ ~secrets[Current.secret].revoked
        /\ secrets[Current.secret].profile = Current.settings.profile

\* A new version is what its request asked for, over the version its client
\* had seen: a save of one section keeps what the other sections are by then,
\* a restoration has the settings of its source, and nobody's save is lost.
SavesBuildOnWhatWasSeen ==
    [][versions' # versions =>
         \E r \in Requests :
            LET asked == request[r]
                seen == versions[asked.expected].settings
                saved == versions'[Len(versions')].settings
            IN  /\ asked # Idle /\ request'[r] = Idle
                /\ SubSeq(versions', 1, Len(versions)) = versions
                /\ Len(versions') = asked.expected + 1
                /\ \/ asked.op = "save" /\ saved = asked.settings
                   \/ asked.op = "policy" /\ saved = [seen EXCEPT !.policy = asked.policy]
                   \/ asked.op = "restore" /\ saved = versions[asked.source].settings
                   \/ asked.op = "replace" /\ saved = seen
      ]_settingsVars
=============================================================================
