--------------------------- MODULE SettingsProofs ---------------------------
(***************************************************************************)
(* Proofs that the current version of the tenant settings refers to a live *)
(* credential of its own profile, and that a version is what its request   *)
(* asked for, over the version its client had seen.                        *)
(***************************************************************************)
EXTENDS TenantSettings, TLAPS

SettingsInvariant == SettingsTypeOK /\ CurrentCredentialIsLive

-----------------------------------------------------------------------------
(* What is read under the lock.                                             *)

LEMMA VersionType ==
  ASSUME SettingsTypeOK, NEW v \in DOMAIN versions
  PROVE  /\ versions[v] \in Version /\ v \in 1..Len(versions) /\ v \in 0..Len(versions)
         /\ versions[v].settings \in Settings
         /\ versions[v].secret \in 0..Len(secrets)
         /\ versions[v].restored \in Nat /\ versions[v].restored < v
<1>1. /\ versions \in Seq(Version) /\ secrets \in Seq(Secret)
      /\ versions[v].secret <= Len(secrets) /\ versions[v].restored < v
  BY DEF SettingsTypeOK
<1>2. versions[v] \in Version /\ v \in 1..Len(versions)
  BY <1>1
<1>3. versions[v].settings \in Settings /\ versions[v].secret \in Nat
      /\ versions[v].restored \in Nat
  BY <1>2, SettingsAssumption DEF Version, Reference
<1> QED BY <1>1, <1>2, <1>3

LEMMA CurrentType ==
  ASSUME SettingsTypeOK
  PROVE  /\ Len(versions) \in 1..MaxVersions /\ Len(versions) \in DOMAIN versions
         /\ Len(versions) \in Nat /\ DOMAIN versions = 1..Len(versions)
         /\ Current \in Version /\ Current.settings \in Settings
         /\ Current.secret \in 0..Len(secrets)
         /\ Len(secrets) \in 0..MaxSecrets
<1>1. versions \in Seq(Version) /\ secrets \in Seq(Secret)
  BY DEF SettingsTypeOK
<1>2. Len(versions) \in 1..MaxVersions /\ Len(secrets) <= MaxSecrets
  BY DEF SettingsTypeOK
<1>3. Len(versions) \in DOMAIN versions /\ Len(secrets) \in 0..MaxSecrets
  BY <1>1, <1>2, SettingsAssumption
<1> QED BY <1>1, <1>2, <1>3, VersionType DEF Current

\* A carried credential is one that the current version has for this profile.
LEMMA CarriedIsLive ==
  ASSUME SettingsInvariant, NEW profile \in Profile
  PROVE  /\ CarriedReference(profile) \in 0..Len(secrets)
         /\ CarriedReference(profile) # 0 =>
              /\ ~secrets[CarriedReference(profile)].revoked
              /\ secrets[CarriedReference(profile)].profile = profile
BY CurrentType DEF SettingsInvariant, CarriedReference, CurrentCredentialIsLive

LEMMA RestoredIsLive ==
  ASSUME SettingsTypeOK, NEW v \in DOMAIN versions
  PROVE  LET reference == RestoredReference(versions[v]) IN
         /\ reference \in 0..Len(secrets)
         /\ reference # 0 =>
              /\ ~secrets[reference].revoked
              /\ secrets[reference].profile = versions[v].settings.profile
<1>1. versions[v].secret \in 0..Len(secrets) /\ Len(secrets) \in Nat
  BY VersionType, CurrentType
<1> QED BY <1>1 DEF RestoredReference, ValidSecret, Resolves

-----------------------------------------------------------------------------
(* A new version.                                                           *)

LEMMA Appended ==
  ASSUME SettingsTypeOK, NEW settings \in Settings, NEW secret \in Reference,
         NEW source \in 0..Len(versions), Appends(settings, secret, source)
  PROVE  /\ versions' \in Seq(Version)
         /\ Len(versions') = Len(versions) + 1 /\ Len(versions') \in 1..MaxVersions
         /\ \A v \in DOMAIN versions : versions'[v] = versions[v]
         /\ DOMAIN versions' = DOMAIN versions \cup {Len(versions')}
         /\ versions'[Len(versions')] =
              [settings |-> settings, secret |-> secret, restored |-> source]
         /\ SubSeq(versions', 1, Len(versions)) = versions
<1> DEFINE new == [settings |-> settings, secret |-> secret, restored |-> source]
<1>1. new \in Version
  BY CurrentType, SettingsAssumption DEF Version, Appends
<1>2. versions' = Append(versions, new) /\ versions \in Seq(Version)
  BY DEF Appends, SettingsTypeOK
<1>3. Len(versions) + 1 \in 1..MaxVersions
  BY CurrentType, SettingsAssumption DEF Appends
<1> HIDE DEF new
<1>4. SubSeq(versions', 1, Len(versions)) = versions
  BY <1>1, <1>2
<1> QED BY <1>1, <1>2, <1>3, <1>4 DEF new

\* The rows are typed with a new version over the same credentials.
LEMMA AppendedType ==
  ASSUME SettingsTypeOK, NEW settings \in Settings, NEW secret \in 0..Len(secrets),
         NEW source \in 0..Len(versions), Appends(settings, secret, source),
         NEW r \in Requests, Ends(r), UNCHANGED <<secrets, keyring, ready>>
  PROVE  SettingsTypeOK'
<1>1. secret \in Reference
  BY CurrentType, SettingsAssumption DEF Reference
<1>2. \A v \in DOMAIN versions' :
        versions'[v].secret <= Len(secrets) /\ versions'[v].restored < v
  <2>1. ASSUME NEW v \in DOMAIN versions'
        PROVE  versions'[v].secret <= Len(secrets) /\ versions'[v].restored < v
    <3>1. CASE v \in DOMAIN versions
      <4>1. versions'[v] = versions[v]
        BY <1>1, <3>1, Appended
      <4>2. versions[v].secret \in 0..Len(secrets) /\ versions[v].restored < v
        BY <3>1, VersionType
      <4> QED BY <4>1, <4>2, CurrentType
    <3>2. CASE v = Len(versions')
      BY <1>1, <3>2, Appended, CurrentType
    <3> QED BY <1>1, <2>1, <3>1, <3>2, Appended
  <2> QED BY <2>1
<1>3. request' \in [Requests ->
        {Idle} \cup SavingAll \cup SavingPolicy \cup Restoring \cup Replacing]
  BY DEF Ends, SettingsTypeOK
<1> QED BY <1>1, <1>2, <1>3, Appended DEF SettingsTypeOK

LEMMA AppendedLive ==
  ASSUME SettingsTypeOK, NEW settings \in Settings, NEW secret \in 0..Len(secrets),
         NEW source \in 0..Len(versions), Appends(settings, secret, source),
         UNCHANGED secrets,
         secret # 0 => ~secrets[secret].revoked /\ secrets[secret].profile = settings.profile
  PROVE  CurrentCredentialIsLive'
<1>1. secret \in Reference
  BY CurrentType, SettingsAssumption DEF Reference
<1>2. Current' = [settings |-> settings, secret |-> secret, restored |-> source]
  BY <1>1, Appended DEF Current
<1> QED BY <1>2 DEF CurrentCredentialIsLive

-----------------------------------------------------------------------------
(* The steps.                                                               *)

\* What a request asks for, by its operation.
LEMMA Asked ==
  ASSUME SettingsTypeOK, NEW r \in Requests
  PROVE  /\ request[r].op = "save" => request[r] \in SavingAll /\ request[r] # Idle
         /\ request[r].op = "policy" => request[r] \in SavingPolicy /\ request[r] # Idle
         /\ request[r].op = "restore" => request[r] \in Restoring /\ request[r] # Idle
         /\ request[r].op = "replace" => request[r] \in Replacing /\ request[r] # Idle
BY DEF SettingsTypeOK, Idle, SavingAll, SavingPolicy, Restoring, Replacing

LEMMA SavesStep ==
  ASSUME SettingsInvariant, NEW r \in Requests, NEW settings \in Settings, Saves(r, settings)
  PROVE  SettingsInvariant'
<1> DEFINE reference == CarriedReference(settings.profile)
<1>1. settings.profile \in Profile
  BY DEF Settings
<1>2. reference \in 0..Len(secrets) /\ 0 \in 0..Len(versions)
  BY <1>1, CarriedIsLive, CurrentType DEF SettingsInvariant
<1>3. Appends(settings, reference, 0) /\ Ends(r) /\ UNCHANGED <<secrets, keyring, ready>>
  BY DEF Saves
<1>4. reference # 0 =>
        ~secrets[reference].revoked /\ secrets[reference].profile = settings.profile
  BY <1>1, CarriedIsLive
<1> HIDE DEF reference
<1> QED BY <1>2, <1>3, <1>4, AppendedType, AppendedLive DEF SettingsInvariant

LEMMA PolicySettings ==
  ASSUME SettingsTypeOK, NEW policy \in Policies
  PROVE  /\ [Current.settings EXCEPT !.policy = policy] \in Settings
<1> DEFINE s == Current.settings
<1>1. s \in Settings
  BY CurrentType
<1> HIDE DEF s
<1>2. [s EXCEPT !.policy = policy] \in Settings
  BY <1>1 DEF Settings
<1> QED BY <1>2 DEF s

LEMMA RestoreStep ==
  ASSUME SettingsInvariant, NEW r \in Requests, Restore(r)
  PROVE  SettingsInvariant'
<1> DEFINE v == request[r].source
           settings == versions[v].settings
           reference == RestoredReference(versions[v])
<1>1. v \in DOMAIN versions
  BY DEF Restore
<1>2. versions[v] \in Version /\ v \in 0..Len(versions)
  BY <1>1 DEF SettingsInvariant, SettingsTypeOK
<1>3. settings \in Settings
  BY <1>2 DEF Version
<1>4. /\ reference \in 0..Len(secrets)
      /\ reference # 0 =>
           ~secrets[reference].revoked /\ secrets[reference].profile = settings.profile
  BY <1>1, RestoredIsLive DEF SettingsInvariant
<1>5. Appends(settings, reference, v) /\ Ends(r) /\ UNCHANGED <<secrets, keyring, ready>>
  BY DEF Restore
<1> HIDE DEF v, settings, reference
<1> QED BY <1>2, <1>3, <1>4, <1>5, AppendedType, AppendedLive DEF SettingsInvariant

LEMMA ReplaceStep ==
  ASSUME SettingsInvariant, NEW r \in Requests, Replace(r)
  PROVE  SettingsInvariant'
<1> USE SettingsAssumption DEF SettingsInvariant
<1> DEFINE profile == Current.settings.profile
           new == Len(secrets) + 1
           added == Protected(profile, keyring.active)
           old == [s \in DOMAIN secrets |->
                     IF s = Current.secret
                     THEN [secrets[s] EXCEPT !.revoked = TRUE] ELSE secrets[s]]
<1>1. /\ profile \in Profiles /\ new \in Reference /\ new # 0
      /\ Appends(Current.settings, new, 0) /\ Ends(r) /\ UNCHANGED <<keyring, ready>>
      /\ secrets' = Append(old, added)
  BY CurrentType DEF Replace, Reference
<1>2. added \in Secret
  BY <1>1 DEF Protected, Secret, SettingsTypeOK, Keyring
<1>3. ASSUME NEW s \in DOMAIN secrets PROVE old[s] \in Secret
  <2> DEFINE c == secrets[s]
  <2>1. c \in Secret
    BY DEF SettingsTypeOK
  <2>2. old[s] = [c EXCEPT !.revoked = TRUE] \/ old[s] = c
    OBVIOUS
  <2> HIDE DEF c, old
  <2> QED BY <2>1, <2>2 DEF Secret
<1>4. old \in Seq(Secret) /\ Len(old) = Len(secrets)
  BY <1>3 DEF SettingsTypeOK
<1> HIDE DEF old, added
<1>5. /\ secrets' \in Seq(Secret) /\ Len(secrets') = new /\ secrets'[new] = added
  BY <1>1, <1>2, <1>4
<1>6. Current.settings \in Settings /\ 0 \in 0..Len(versions)
  BY CurrentType
<1>7. /\ versions' \in Seq(Version)
      /\ Len(versions') = Len(versions) + 1 /\ Len(versions') \in 1..MaxVersions
      /\ \A v \in DOMAIN versions : versions'[v] = versions[v]
      /\ DOMAIN versions' = DOMAIN versions \cup {Len(versions')}
      /\ versions'[Len(versions')] =
           [settings |-> Current.settings, secret |-> new, restored |-> 0]
  BY <1>1, <1>6, Appended
<1>8. \A v \in DOMAIN versions' : versions'[v].secret <= new /\ versions'[v].restored < v
  <2>1. ASSUME NEW v \in DOMAIN versions'
        PROVE  versions'[v].secret <= new /\ versions'[v].restored < v
    <3>1. CASE v \in DOMAIN versions
      BY <1>7, <3>1, VersionType, CurrentType
    <3>2. CASE v = Len(versions')
      BY <1>7, <3>2, CurrentType
    <3> QED BY <1>7, <2>1, <3>1, <3>2
  <2> QED BY <2>1
<1>9. request' \in [Requests ->
        {Idle} \cup SavingAll \cup SavingPolicy \cup Restoring \cup Replacing]
  BY <1>1 DEF Ends, SettingsTypeOK
<1>10. SettingsTypeOK'
  BY <1>1, <1>5, <1>7, <1>8, <1>9 DEF SettingsTypeOK, Reference
<1>11. CurrentCredentialIsLive'
  BY <1>5, <1>7 DEF CurrentCredentialIsLive, Current, added, Protected
<1> QED BY <1>10, <1>11

LEMMA BeginsStep ==
  ASSUME SettingsInvariant, NEW r \in Requests,
         NEW value \in SavingAll \cup SavingPolicy \cup Restoring \cup Replacing,
         Begins(r, value)
  PROVE  SettingsInvariant'
BY DEF SettingsInvariant, SettingsTypeOK, CurrentCredentialIsLive, Current, Begins

LEMMA SettingsStart == SettingsInit => SettingsInvariant
<1> SUFFICES ASSUME SettingsInit PROVE SettingsInvariant
  OBVIOUS
<1> USE SettingsAssumption
<1>1. /\ keyring \in Keyring /\ ready \in BOOLEAN
      /\ request \in
           [Requests -> {Idle} \cup SavingAll \cup SavingPolicy \cup Restoring \cup Replacing]
  BY DEF SettingsInit, Keyring
<1>2. CASE Previewed
  <2>1. FirstVersion(OnboardingSettings, 0) \in Version
    BY DEF FirstVersion, OnboardingSettings, Version, Settings, Reference, Profile
  <2> QED BY <1>1, <1>2, <2>1
          DEF Previewed, SettingsInvariant, SettingsTypeOK, CurrentCredentialIsLive, Current,
              FirstVersion
<1>3. CASE Seeded
  <2>1. PICK profile \in Profiles :
          /\ versions = <<FirstVersion(
                [profile |-> profile, automatic |-> TRUE, policy |-> FirstPolicy], 1)>>
          /\ secrets = <<Protected(profile, FirstKey)>>
    BY <1>3 DEF Seeded
  <2>2. /\ FirstVersion([profile |-> profile, automatic |-> TRUE, policy |-> FirstPolicy], 1)
             \in Version
        /\ Protected(profile, FirstKey) \in Secret
    BY DEF FirstVersion, Version, Settings, Reference, Profile, Protected, Secret
  <2>3. SettingsTypeOK
    BY <1>1, <2>1, <2>2 DEF SettingsTypeOK, FirstVersion
  <2>4. CurrentCredentialIsLive
    BY <2>1 DEF CurrentCredentialIsLive, Current, FirstVersion, Protected
  <2> QED BY <2>3, <2>4 DEF SettingsInvariant
<1> QED BY <1>2, <1>3 DEF SettingsInit

LEMMA SettingsStep ==
  SettingsInvariant /\ [SettingsNext]_settingsVars => SettingsInvariant'
<1> SUFFICES ASSUME SettingsInvariant, [SettingsNext]_settingsVars
             PROVE  SettingsInvariant'
  OBVIOUS
<1>1. ASSUME NEW r \in Requests, NEW expected \in DOMAIN versions, NEW s \in Settings,
             Begins(r, [op |-> "save", expected |-> expected, settings |-> s])
      PROVE  SettingsInvariant'
  BY <1>1, BeginsStep, CurrentType, SettingsAssumption
     DEF SavingAll, SettingsInvariant, SettingsTypeOK
<1>2. ASSUME NEW r \in Requests, NEW expected \in DOMAIN versions, NEW p \in Policies,
             Begins(r, [op |-> "policy", expected |-> expected, policy |-> p])
      PROVE  SettingsInvariant'
  BY <1>2, BeginsStep, CurrentType, SettingsAssumption
     DEF SavingPolicy, SettingsInvariant, SettingsTypeOK
<1>3. ASSUME NEW r \in Requests, NEW expected \in DOMAIN versions,
             NEW v \in DOMAIN versions,
             Begins(r, [op |-> "restore", expected |-> expected, source |-> v])
      PROVE  SettingsInvariant'
  BY <1>3, BeginsStep, CurrentType, SettingsAssumption
     DEF Restoring, SettingsInvariant, SettingsTypeOK
<1>4. ASSUME NEW r \in Requests, NEW expected \in DOMAIN versions,
             Begins(r, [op |-> "replace", expected |-> expected])
      PROVE  SettingsInvariant'
  BY <1>4, BeginsStep, CurrentType, SettingsAssumption
     DEF Replacing, SettingsInvariant, SettingsTypeOK
<1>5. ASSUME NEW r \in Requests, SaveAll(r) PROVE SettingsInvariant'
  BY <1>5, SavesStep, Asked DEF SaveAll, SavingAll, SettingsInvariant
<1>6. ASSUME NEW r \in Requests, SavePolicy(r) PROVE SettingsInvariant'
  BY <1>6, SavesStep, Asked, PolicySettings DEF SavePolicy, SavingPolicy, SettingsInvariant
<1>7. ASSUME NEW r \in Requests, Refused(r) PROVE SettingsInvariant'
  BY <1>7 DEF Refused, Ends, SettingsInvariant, SettingsTypeOK, CurrentCredentialIsLive,
     Current
<1>8. CASE (\E new \in Keyring : Redeploy(new)) \/ FoundryReadiness
  BY <1>8 DEF Redeploy, FoundryReadiness, SettingsInvariant, SettingsTypeOK,
     CurrentCredentialIsLive, Current
<1>9. CASE UNCHANGED settingsVars
  BY <1>9 DEF settingsVars, SettingsInvariant, SettingsTypeOK, CurrentCredentialIsLive, Current
<1> QED BY <1>1, <1>2, <1>3, <1>4, <1>5, <1>6, <1>7, <1>8, <1>9, RestoreStep, ReplaceStep
        DEF SettingsNext

\* The inductive invariant, for any profiles, keys, versions and requests.
THEOREM SettingsInvariantHolds == SettingsSpec => []SettingsInvariant
BY SettingsStart, SettingsStep, PTL DEF SettingsSpec

\* The versions, credentials and requests are well typed: a version refers to
\* a credential that exists and to an earlier version.
THEOREM SettingsTypeCorrect == SettingsSpec => []SettingsTypeOK
<1>1. SettingsInvariant => SettingsTypeOK
  BY DEF SettingsInvariant
<1> QED BY <1>1, SettingsInvariantHolds, PTL

\* The current version never refers to a revoked credential, nor to one of
\* another profile (tenant_settings.py: update_settings, restore_settings).
THEOREM CurrentCredentialLive == SettingsSpec => []CurrentCredentialIsLive
<1>1. SettingsInvariant => CurrentCredentialIsLive
  BY DEF SettingsInvariant
<1> QED BY <1>1, SettingsInvariantHolds, PTL

\* A new version is what its request asked for, over the version its client
\* had seen: no save is lost under another (tenant_settings.py: _insert_version).
THEOREM SavesBuild == SettingsSpec => SavesBuildOnWhatWasSeen
<1> DEFINE Builds ==
      versions' # versions =>
         \E r \in Requests :
            LET asked == request[r]
                seen == versions[asked.expected].settings
                saved == versions'[Len(versions')].settings
            IN  /\ asked # Idle /\ request'[r] = Idle
                /\ SubSeq(versions', 1, Len(versions)) = versions
                /\ Len(versions') = asked.expected + 1
                /\ \/ asked.op = "save" /\ saved = asked.settings
                   \/ asked.op = "policy" /\ saved = [seen EXCEPT !.policy = asked.policy]
                   \/ asked.op = "restore" /\ saved = versions[asked.source].settings
                   \/ asked.op = "replace" /\ saved = seen
<1>1. ASSUME SettingsInvariant, [SettingsNext]_settingsVars PROVE [Builds]_settingsVars
  <2> USE DEF SettingsInvariant
  <2>1. ASSUME NEW r \in Requests, NEW settings \in Settings, NEW secret \in Reference,
               NEW source \in 0..Len(versions), Appends(settings, secret, source), Ends(r),
               ExpectsCurrent(r), request[r] # Idle,
               \/ request[r].op = "save" /\ settings = request[r].settings
               \/ /\ request[r].op = "policy"
                  /\ settings = [Current.settings EXCEPT !.policy = request[r].policy]
               \/ request[r].op = "restore" /\ settings = versions[request[r].source].settings
               \/ request[r].op = "replace" /\ settings = Current.settings
        PROVE  Builds
    <3>1. request'[r] = Idle
      BY <1>1, <2>1 DEF Ends, SettingsTypeOK
    <3>2. /\ versions'[Len(versions')].settings = settings
          /\ SubSeq(versions', 1, Len(versions)) = versions
          /\ Len(versions') = request[r].expected + 1
      <4>1. /\ Len(versions') = Len(versions) + 1
            /\ versions'[Len(versions')] =
                 [settings |-> settings, secret |-> secret, restored |-> source]
            /\ SubSeq(versions', 1, Len(versions)) = versions
        BY <1>1, <2>1, Appended
      <4> QED BY <2>1, <4>1 DEF ExpectsCurrent
    <3>3. Current = versions[request[r].expected]
      BY <2>1 DEF ExpectsCurrent, Current
    <3> QED BY <2>1, <3>1, <3>2, <3>3
  <2>2. /\ \A secret \in 0..Len(secrets) : secret \in Reference
        /\ 0 \in 0..Len(versions) /\ Current.settings \in Settings
        /\ \A v \in DOMAIN versions : versions[v].settings \in Settings /\ v \in 0..Len(versions)
    BY <1>1, CurrentType, VersionType, SettingsAssumption DEF Reference
  <2>3. ASSUME NEW r \in Requests, SaveAll(r) PROVE Builds
    <3>1. request[r].settings \in Settings /\ request[r] # Idle
      BY <1>1, <2>3, Asked DEF SaveAll, SavingAll
    <3>2. CarriedReference(request[r].settings.profile) \in Reference
      BY <1>1, <2>2, <3>1, CarriedIsLive DEF Settings
    <3> QED BY <2>1, <2>2, <2>3, <3>1, <3>2 DEF SaveAll, Saves
  <2>4. ASSUME NEW r \in Requests, SavePolicy(r) PROVE Builds
    <3> DEFINE s == [Current.settings EXCEPT !.policy = request[r].policy]
    <3>1. s \in Settings /\ request[r] # Idle
      BY <1>1, <2>4, Asked, PolicySettings DEF SavePolicy, SavingPolicy
    <3>2. CarriedReference(s.profile) \in Reference
      BY <1>1, <2>2, <3>1, CarriedIsLive DEF Settings
    <3>3. /\ ExpectsCurrent(r) /\ Appends(s, CarriedReference(s.profile), 0) /\ Ends(r)
          /\ request[r].op = "policy"
      BY <2>4 DEF SavePolicy, Saves
    <3> QED BY <2>1, <2>2, <3>1, <3>2, <3>3
  <2>5. ASSUME NEW r \in Requests, Restore(r) PROVE Builds
    <3>1. request[r].source \in DOMAIN versions /\ request[r] # Idle
      BY <1>1, <2>5, Asked DEF Restore
    <3>2. RestoredReference(versions[request[r].source]) \in Reference
      BY <1>1, <2>2, <3>1, RestoredIsLive
    <3> QED BY <2>1, <2>2, <2>5, <3>1, <3>2 DEF Restore
  <2>6. ASSUME NEW r \in Requests, Replace(r) PROVE Builds
    <3>1. Len(secrets) + 1 \in Reference /\ request[r] # Idle
      BY <1>1, <2>6, Asked, CurrentType, SettingsAssumption DEF Replace, Reference
    <3> QED BY <2>1, <2>2, <2>6, <3>1 DEF Replace
  <2>7. ASSUME UNCHANGED versions PROVE Builds
    BY <2>7
  <2>8. CASE SettingsNext
    BY <2>3, <2>4, <2>5, <2>6, <2>7, <2>8
       DEF SettingsNext, Begins, Refused, Redeploy, FoundryReadiness
  <2>9. CASE UNCHANGED settingsVars
    BY <2>7, <2>9 DEF settingsVars
  <2> QED BY <1>1, <2>8, <2>9
<1> QED BY <1>1, SettingsInvariantHolds, PTL DEF SettingsSpec, SavesBuildOnWhatWasSeen
=============================================================================
