-------------------------------- MODULE Providers --------------------------------
(***************************************************************************)
(* The AI providers of one user: their keys on the server                  *)
(* (providerCredentialService.js behind providerSettingsRoutes.js), the    *)
(* page that sets them (Settings/AiProvidersPanel.jsx), and the choice of  *)
(* a provider and a model that a coding run begins with (WorkspaceBar.jsx, *)
(* CodingProviderRegistry.js, ProviderManager.js).                         *)
(*                                                                         *)
(* Requests of the settings page are HTTP requests: they are served and    *)
(* answered in any order, or fail, and an answer to a page that was left   *)
(* is dropped.  The store of the coding view stays when the user goes from *)
(* one page to the other.                                                  *)
(***************************************************************************)
EXTENDS Naturals, Sequences, FiniteSets

CONSTANTS
    Order,       \* the providers, in the order of the list
    NoChoice,    \* nothing selected
    MaxRequests, \* BOUND: the requests under way
    MaxTurns     \* BOUND: the changes that the user asks for

ProvidersAssumption == Len(Order) > 0 /\ {MaxRequests, MaxTurns} \subseteq Nat

ProviderNames == {Order[i] : i \in DOMAIN Order}

\* Every provider lists one model of its own, named after it.
Model(p) == <<"model of", p>>
Models == {Model(p) : p \in ProviderNames}

VARIABLES
    credential,  \* of every provider: no key, a key that is switched off, or on
    requests,    \* what is under way
    page,        \* the page that is open
    panel,       \* AiProvidersPanel: what it shows of every provider
    enabled,     \* codingStore.providers: the providers enabled in it
    models,      \* modelsByProvider
    provider, model, \* selectedProvider, selectedModel
    turns,       \* the changes so far
    fellBack     \* (ghost) setProviders has replaced the provider, not the model

choice == <<enabled, models, provider, model>>
vars == <<credential, requests, page, panel, choice, turns, fellBack>>

States == {"none", "off", "on"}
Changes == {"key", "remove", "on", "off"}
Nobody == [p \in ProviderNames |-> "none"]

TypeOK ==
    /\ credential \in [ProviderNames -> States]
    /\ \A r \in requests :
         /\ r.op \in Changes \union {"status", "providers", "models", "run"} /\ r.of \in ProviderNames
         /\ r.answer \in {"none", "failed", "ok"} /\ r.heard \in BOOLEAN
         /\ r.says \in [ProviderNames -> States] /\ r.with \in Models \union {NoChoice}
    /\ Cardinality(requests) <= MaxRequests + Cardinality(ProviderNames)
    /\ page \in {"settings", "coding"}
    /\ panel \in [ProviderNames -> States] \union {NoChoice}
    /\ enabled \subseteq ProviderNames
    /\ models \in [ProviderNames -> {"unknown", "loading", "listed", "error"}]
    /\ provider \in ProviderNames \union {NoChoice} /\ model \in Models \union {NoChoice}
    /\ turns \in 0..MaxTurns /\ fellBack \in BOOLEAN

Init ==
    /\ credential = Nobody
    /\ requests = {} /\ page = "coding" /\ panel = NoChoice
    /\ enabled = {} /\ models = [p \in ProviderNames |-> "unknown"]
    /\ provider = NoChoice /\ model = NoChoice
    /\ turns = 0 /\ fellBack = FALSE

Request(op, p, m) ==
    [op |-> op, of |-> p, with |-> m, answer |-> "none", says |-> Nobody, heard |-> TRUE]

Room == Cardinality(requests) < MaxRequests
Sent(op, p) == Room /\ requests' = requests \union {Request(op, p, NoChoice)}

\* What was answered to the page that is left is dropped; what is under way
\* will be, unless it is about the models: their list goes into the store.
Left ==
    {[r EXCEPT !.heard = r.op = "models"] : r \in {q \in requests : q.answer = "none" \/ q.op = "models"}}

(***************************************************************************)
(* The server                                                              *)
(***************************************************************************)

\* setApiKey, removeApiKey and setEnabled of the credential service, each in one go.
Stored(r) ==
    CASE r.op = "key"          -> [credential EXCEPT ![r.of] = "on"]
      [] r.op = "remove"       -> [credential EXCEPT ![r.of] = "none"]
      [] r.op \in {"on", "off"} -> [credential EXCEPT ![r.of] = r.op]
      [] r.op \notin Changes   -> credential

\* resolveCredential, resolveApiKeyOnly: the key is looked up for every call.
Usable(p) == credential[p] = "on"

\* setEnabled without a key, and a run or a list of models for a provider that is
\* not enabled, are refused.
Refuses(r) ==
    \/ r.op \in {"on", "off"} /\ credential[r.of] = "none"
    \/ r.op \in {"models", "run"} /\ ~Usable(r.of)

Answered(r, answer, says) ==
    requests' = (requests \ {r}) \union
        IF r.heard THEN {[r EXCEPT !.answer = answer, !.says = says]} ELSE {}

\* _toStatus: a change is answered with the record that it is about, the others
\* with all of them.
Told(r) ==
    CASE r.op \in {"status", "providers"} -> credential
      [] r.op \in Changes -> [Nobody EXCEPT ![r.of] = credential'[r.of]]
      [] r.op \in {"models", "run"} -> Nobody

Serve(r) ==
    /\ r.answer = "none"
    /\ IF Refuses(r)
       THEN Answered(r, "failed", Nobody) /\ UNCHANGED credential
       ELSE credential' = Stored(r) /\ Answered(r, "ok", Told(r))
    /\ UNCHANGED <<page, panel, choice, turns, fellBack>>

\* The network or the service of the provider fails, before it is served or after.
Fail(r) ==
    /\ r.answer # "failed"
    /\ Answered(r, "failed", Nobody)
    /\ UNCHANGED <<credential, page, panel, choice, turns, fellBack>>

(***************************************************************************)
(* The settings page                                                       *)
(***************************************************************************)

OpenSettings ==
    /\ page = "coding" /\ page' = "settings" /\ panel' = NoChoice
    /\ Cardinality(Left) < MaxRequests
    /\ requests' = Left \union {Request("status", Order[1], NoChoice)}
    /\ UNCHANGED <<credential, choice, turns, fellBack>>

\* handleSaveKey, handleRemoveKey (one at a time, while the button turns) and
\* handleToggleEnabled, which shows what it asks for at once.
Ask(op, p) ==
    /\ page = "settings" /\ panel # NoChoice /\ turns < MaxTurns
    /\ op # "key" => panel[p] # "none"
    /\ op \in {"key", "remove"} => ~\E r \in requests : r.op \in {"key", "remove"} /\ r.of = p
    /\ op \in {"on", "off"} => panel[p] # op
    /\ panel' = IF op \in {"on", "off"} THEN [panel EXCEPT ![p] = op] ELSE panel
    /\ turns' = turns + 1
    /\ Sent(op, p)
    /\ UNCHANGED <<credential, page, choice, fellBack>>

Other(op) == IF op = "on" THEN "off" ELSE "on"

\* The answer replaces what is shown of the provider; the switch of a key goes
\* back when its request has failed.
PanelAnswered(r) ==
    /\ r.op \in Changes \union {"status"} /\ r.answer # "none"
    /\ requests' = requests \ {r}
    /\ panel' = CASE r.op = "status" /\ r.answer = "ok"  -> r.says
                  [] r.op \in Changes /\ r.answer = "ok" -> [panel EXCEPT ![r.of] = r.says[r.of]]
                  [] r.op \in {"on", "off"} /\ r.answer = "failed" /\ panel[r.of] # "none" ->
                       [panel EXCEPT ![r.of] = Other(r.op)]
                  [] OTHER -> panel
    /\ UNCHANGED <<credential, page, choice, turns, fellBack>>

(***************************************************************************)
(* The coding view                                                         *)
(***************************************************************************)

OpenCoding ==
    /\ page = "settings" /\ page' = "coding" /\ panel' = NoChoice
    /\ Cardinality(Left) < MaxRequests
    /\ requests' = Left \union {Request("providers", Order[1], NoChoice)}
    /\ UNCHANGED <<credential, choice, turns, fellBack>>

FirstOf(set) ==
    IF set = {} THEN NoChoice
    ELSE Order[CHOOSE i \in DOMAIN Order :
                  Order[i] \in set /\ \A j \in 1..(i - 1) : Order[j] \notin set]

\* setProviders: the provider that is selected stays if it is enabled; else it is
\* the first one that is.  The model stays.  The models of every provider that is
\* enabled are asked for once.
ProvidersAnswered(r) ==
    /\ r.op = "providers" /\ r.answer # "none"
    /\ IF r.answer = "ok"
       THEN LET new == {p \in ProviderNames : r.says[p] = "on" /\ models[p] = "unknown"}
            IN /\ enabled' = {p \in ProviderNames : r.says[p] = "on"}
               /\ provider' = IF provider \in enabled' THEN provider ELSE FirstOf(enabled')
               /\ fellBack' = (fellBack \/ (provider' # provider /\ model # NoChoice))
               /\ models' = [p \in ProviderNames |-> IF p \in new THEN "loading" ELSE models[p]]
               /\ requests' = (requests \ {r}) \union {Request("models", p, NoChoice) : p \in new}
       ELSE requests' = requests \ {r} /\ UNCHANGED <<enabled, provider, fellBack, models>>
    /\ UNCHANGED <<credential, page, panel, model, turns>>

\* The first model of the list is taken if its provider is selected and no model is.
ModelsAnswered(r) ==
    /\ r.op = "models" /\ r.answer # "none"
    /\ requests' = requests \ {r}
    /\ models' = [models EXCEPT ![r.of] = IF r.answer = "ok" THEN "listed" ELSE "error"]
    /\ model' = IF r.answer = "ok" /\ provider = r.of /\ model = NoChoice
                THEN Model(r.of) ELSE model
    /\ UNCHANGED <<credential, page, panel, enabled, provider, turns, fellBack>>

HandleModelChange(p) ==
    /\ page = "coding" /\ p \in enabled /\ models[p] = "listed" /\ model # Model(p)
    /\ provider' = p /\ model' = Model(p) /\ fellBack' = FALSE
    /\ UNCHANGED <<credential, requests, page, panel, enabled, models, turns>>

Run ==
    /\ page = "coding" /\ provider # NoChoice /\ model # NoChoice /\ Room
    /\ requests' = requests \union {Request("run", provider, model)}
    /\ UNCHANGED <<credential, page, panel, choice, turns, fellBack>>

RunAnswered(r) ==
    /\ r.op = "run" /\ r.answer # "none" /\ requests' = requests \ {r}
    /\ UNCHANGED <<credential, page, panel, choice, turns, fellBack>>

Next ==
    \/ OpenSettings \/ OpenCoding \/ Run
    \/ \E p \in ProviderNames : HandleModelChange(p) \/ \E op \in Changes : Ask(op, p)
    \/ \E r \in requests : \/ Serve(r) \/ Fail(r) \/ PanelAnswered(r)
                           \/ ProvidersAnswered(r) \/ ModelsAnswered(r) \/ RunAnswered(r)

Spec == Init /\ [][Next]_vars

(***************************************************************************)
(* Properties                                                              *)
(***************************************************************************)

\* The model that is selected is one of the provider that is selected, whenever
\* the lists arrive, as long as the provider was not replaced for want of a key.
ModelOfItsProvider ==
    model # NoChoice /\ ~fellBack => model = Model(provider)

\* A run is begun with a model that its provider offers.  The code breaks it:
\* when the selected provider loses its key, the first one that has a key takes
\* its place, and the model stays.
RunsItsOwnModel ==
    \A r \in requests : r.op = "run" /\ r.answer = "ok" => r.with = Model(r.of)

================================================================================
