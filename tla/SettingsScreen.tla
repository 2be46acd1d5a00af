----------------------------- MODULE SettingsScreen -----------------------------
(***************************************************************************)
(* A manager's page of the firm's settings, and what the server makes of   *)
(* it.  Stored secrets never reach the browser: the page is told which     *)
(* ones are set, and shows a placeholder in their place.                   *)
(***************************************************************************)
EXTENDS Browser

CONSTANTS Secrets,       \* the fields waha_key and llm_api_key
          NewKeys,       \* what a manager may type
          Blank, Placeholder,
          MaxSaves

VARIABLES
    known,       \* settings: which secrets the page was told are set; None
    keys,        \* the secret fields of the form
    rest,        \* the other fields: as "loaded", as "edited", or the page's "defaults"
    typed,       \* the secret fields the manager typed into since they were set
    phase,       \* "loading", "ready", or "saving" with the message in body
    body,        \* the PATCH in flight
    reply,       \* its answer: which secrets are set
    testing,     \* a test call to the language model is in flight
    secrets,     \* the secrets on the server
    firm,        \* the other settings on the server, which may become "defaults"
    blind,       \* the load failed, or another manager saved settings meanwhile
    saves,
    kept         \* the secrets as the managers' own typing left them

(* No secret is the placeholder, and no set of secrets a refusal.          *)
ASSUME SettingsAssumption ==
    /\ Placeholder \notin NewKeys \cup {Blank} /\ Blank \notin NewKeys
    /\ None # Refused /\ \A set \in SUBSET Secrets : set \notin {None, Refused}

settingsVars == <<known, keys, rest, typed, phase, body, reply, testing, secrets, firm, blind, saves, kept>>

Sentinels(set) == [s \in Secrets |-> IF s \in set THEN Placeholder ELSE Blank]

SetOf(held) == {s \in Secrets : held[s] # Blank}
-------------------------------------------------------------------------------
SettingsInit ==
    /\ known = None /\ keys = [s \in Secrets |-> Blank] /\ rest = "defaults"
    /\ typed = {} /\ phase = "loading" /\ body = None /\ reply = None /\ testing = FALSE
    /\ secrets \in [Secrets -> {Blank} \cup NewKeys]
    /\ firm = "loaded" /\ blind = FALSE /\ saves = 0 /\ kept = secrets

(* The first load.  If it fails the page shows its form all the same.      *)
Load ==
    /\ phase = "loading" /\ phase' = "ready"
    /\ \/ known' = SetOf(secrets) /\ keys' = Sentinels(SetOf(secrets)) /\ rest' = firm /\ UNCHANGED blind
       \/ blind' = TRUE /\ UNCHANGED <<known, keys, rest>>
    /\ UNCHANGED <<typed, body, reply, testing, secrets, firm, saves, kept>>

TypeKey(s, k) ==
    /\ phase # "loading" /\ k # keys[s]
    /\ keys' = [keys EXCEPT ![s] = k]
    /\ typed' = typed \cup {s}
    /\ UNCHANGED <<known, rest, phase, body, reply, testing, secrets, firm, blind, saves, kept>>

EditRest ==
    /\ phase # "loading" /\ rest # "edited"
    /\ rest' = "edited"
    /\ UNCHANGED <<known, keys, typed, phase, body, reply, testing, secrets, firm, blind, saves, kept>>

(* onSave: a secret field goes along unless it shows the placeholder.      *)
SentSecrets == {s \in Secrets : keys[s] # Placeholder}

Save ==
    /\ phase = "ready" /\ saves < MaxSaves
    /\ phase' = "saving" /\ saves' = saves + 1
    /\ body' = [secrets |-> [s \in SentSecrets |-> keys[s]], rest |-> rest, typed |-> typed]
    /\ UNCHANGED <<known, keys, rest, typed, reply, testing, secrets, firm, blind, kept>>

(* update_settings: the placeholder is ignored, an empty secret cleared.   *)
(* The answer may be lost, which the page cannot tell from a refusal.      *)
Update ==
    /\ phase = "saving" /\ reply = None
    /\ \/ /\ secrets' = [s \in Secrets |->
                            IF s \in DOMAIN body.secrets /\ body.secrets[s] # Placeholder
                            THEN body.secrets[s] ELSE secrets[s]]
          /\ firm' = body.rest
          /\ reply' \in {SetOf(secrets'), Refused}
          /\ kept' = [s \in Secrets |-> IF s \in body.typed THEN body.secrets[s] ELSE kept[s]]
       \/ reply' = Refused /\ UNCHANGED <<secrets, firm, kept>>
    /\ UNCHANGED <<known, keys, rest, typed, phase, body, testing, blind, saves>>

(* Mutant: the secret fields are emptied.                                  *)
RefreshEmpty(set) == keys' = Sentinels({}) /\ typed' = {}

(* The secret fields are set anew from the answer, whatever was typed      *)
(* while it was awaited.  A failure leaves them.                           *)
Refresh(set) == keys' = Sentinels(set) /\ typed' = {}

Hear ==
    /\ reply # None
    /\ phase' = "ready" /\ reply' = None /\ body' = None
    /\ IF reply = Refused THEN UNCHANGED <<known, keys, typed>>
       ELSE known' = reply /\ Refresh(reply)
    /\ UNCHANGED <<rest, testing, secrets, firm, blind, saves, kept>>

(* The test uses the settings the server has, not those of the form.       *)
Test ==
    /\ phase # "loading"
    /\ testing' = ~testing
    /\ UNCHANGED <<known, keys, rest, typed, phase, body, reply, secrets, firm, blind, saves, kept>>

(* Another manager saves a secret.                                         *)
SaveElsewhere(s, k) ==
    /\ k # secrets[s]
    /\ secrets' = [secrets EXCEPT ![s] = k] /\ kept' = [kept EXCEPT ![s] = k]
    /\ blind' = TRUE
    /\ UNCHANGED <<known, keys, rest, typed, phase, body, reply, testing, firm, saves>>

SettingsNext ==
    \/ Load \/ EditRest \/ Save \/ Update \/ Hear \/ Test
    \/ \E s \in Secrets, k \in NewKeys \cup {Blank} : TypeKey(s, k) \/ SaveElsewhere(s, k)

SettingsSpec == SettingsInit /\ [][SettingsNext]_settingsVars
-------------------------------------------------------------------------------
SettingsTypeOK ==
    /\ known # None => known \subseteq Secrets
    /\ keys \in [Secrets -> NewKeys \cup {Blank, Placeholder}]
    /\ typed \subseteq Secrets /\ phase \in {"loading", "ready", "saving"}
    /\ (body # None) = (phase = "saving")
    /\ secrets \in [Secrets -> NewKeys \cup {Blank}]
    /\ {rest, firm} \subseteq {"loaded", "edited", "defaults"} /\ saves \in 0..MaxSaves

(* "Only send secret fields if the user typed a NEW value"                 *)
(* (settings/page.tsx:75): whatever was saved, the stored secrets are what  *)
(* a manager typed last.                                                   *)
SecretsChangeOnlyWhenTyped == secrets = kept

(* That much is true of a page that was loaded and alone changes the       *)
(* settings, through any number of saves and refusals, although it holds   *)
(* every stored secret as a placeholder and leaves it alone by not sending *)
(* the placeholder back (settings.py:9-12).                                *)
UntouchedSecretsStay == ~blind => SecretsChangeOnlyWhenTyped
===============================================================================
