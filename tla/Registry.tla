------------------------------- MODULE Registry -------------------------------
(***************************************************************************)
(* Which Business a WhatsApp number reaches: the registry that a            *)
(* background thread builds once per process from every business.yaml       *)
(* (interfaces/whatsapp/registry.py, interfaces/whatsapp/app.py) while       *)
(* owners sign up and edit those files (Businesses).                        *)
(*                                                                         *)
(* The load takes the paths once and in order.  It reads each file to see   *)
(* which numbers the Business claims, and reads it again for every runtime  *)
(* it builds.  What it found is published whole, at the end.                *)
(***************************************************************************)
EXTENDS Businesses, Sequences

CONSTANTS
    Sorted,        \* the business ids, in the order their paths sort
    Numbers,       \* WhatsApp phone_number_ids
    Adapters,      \* frontend_adapters of each Business, which no patch can touch
    Enabled,       \* Businesses with enabled: true, which no patch can touch
    UnknownValues, \* patched values of llm.provider that name no provider
    Unregistered   \* no runtime; an adapter without a number

(* An entry of frontend_adapters. *)
AdapterConfigs == [type : {"cli", "web", "whatsapp"}, enabled : BOOLEAN,
                   number : Numbers \union {Unregistered}]

ASSUME RegistryAssumption ==
    /\ Sorted \in Seq(BusinessIds) /\ \A b \in BusinessIds : \E i \in 1..Len(Sorted) : Sorted[i] = b
    /\ "provider" \in Fields /\ UnknownValues \subseteq Ids
    /\ Adapters \in [BusinessIds -> Seq(AdapterConfigs)] /\ Enabled \subseteq BusinessIds
    /\ Unregistered \notin Numbers \union [business : BusinessIds, config : Configs]
    /\ Undecodable \notin Configs

VARIABLES
    registry, \* the runtime of each number, as the webhook sees it
    loading,  \* the background load: where it is, paths and adapters to go, what it found
    seen      \* history: what each claimant's business.yaml held since the load began

regVars == <<vars, registry, loading, seen>>

Runtimes == [business : BusinessIds, config : Configs]
Empty == [n \in Numbers |-> Unregistered]
Due == [at |-> "due", paths |-> {}, adapters |-> {}, found |-> Empty]

Published(b) == IF yaml[b] = None THEN None ELSE contents[yaml[b]]

(* Paths and adapters go by their place in the order in which they are taken. *)
Places == 1..Len(Sorted)
First(i, places) == i \in places /\ \A j \in places : i <= j

(* The enabled whatsapp adapters of a Business, but for those without a number. *)
Claiming(b) ==
    {k \in 1..Len(Adapters[b]) :
        LET a == Adapters[b][k] IN
        a.type = "whatsapp" /\ a.enabled /\ a.number # Unregistered}

Claimants == {b \in Enabled : Claiming(b) # {}}
Unseen == [b \in Claimants |-> {}]

RegInit ==
    /\ Init
    /\ registry = Empty /\ loading = Due
    /\ seen = Unseen

-------------------------------------------------------------------------------
(* The glob is taken once: a Business signed up later is not in this load. *)
StartLoad ==
    /\ loading.at = "due"
    /\ loading' = [loading EXCEPT !.at = "load",
                      !.paths = {i \in Places : yaml[Sorted[i]] # None}]
    /\ seen' = [b \in Claimants |-> {Published(b)}]
    /\ UNCHANGED <<vars, registry>>

(* Path by path: an invalid config, a disabled Business and one that claims no *)
(* number are skipped.  A file that is no text is no BusinessConfigError: the   *)
(* load itself raises, and the registry stays empty.                          *)
ReadConfig ==
    /\ loading.at = "load" /\ loading.adapters = {}
    /\ \E i \in Places :
          LET b == Sorted[i] IN
          /\ First(i, loading.paths)
          /\ loading' =
                IF Published(b) = Undecodable THEN [Due EXCEPT !.at = "failed"]
                ELSE IF Published(b) \in Configs /\ b \in Claimants
                THEN [loading EXCEPT !.adapters = Claiming(b)]
                ELSE [loading EXCEPT !.paths = @ \ {i}]
    /\ UNCHANGED <<vars, registry, seen>>

(* An adapter is done with, and its Business after its last one. *)
Advanced(i, k, found) ==
    [loading EXCEPT !.found = found, !.adapters = @ \ {k},
                    !.paths = IF loading.adapters = {k} THEN @ \ {i} ELSE @]

(* load_agent_core reads the file again and looks the provider up. *)
Known(config) == config["provider"] \notin UnknownValues
Buildable(config) == config \in Configs /\ Known(config)

(* At the adapter at place k of the Business at place i. *)
Building(i, k) == loading.at = "load" /\ First(i, loading.paths) /\ First(k, loading.adapters)

AdapterPlaces(i) == 1..Len(Adapters[Sorted[i]])
NumberAt(i, k) == Adapters[Sorted[i]][k].number
RuntimeAt(i) == [business |-> Sorted[i], config |-> Published(Sorted[i])]

(* Mutant: a number already claimed is claimed again. *)
BuildLastWins ==
    /\ \E i \in Places : \E k \in AdapterPlaces(i) :
          /\ Building(i, k)
          /\ loading' = Advanced(i, k, IF Buildable(Published(Sorted[i]))
                                      THEN [loading.found EXCEPT ![NumberAt(i, k)] = RuntimeAt(i)]
                                      ELSE loading.found)
    /\ UNCHANGED <<vars, registry, seen>>

(* Mutant: a runtime is published as soon as it is built. *)
BuildPublishes ==
    /\ \E i \in Places : \E k \in AdapterPlaces(i) :
          /\ Building(i, k)
          /\ loading' = Advanced(i, k, IF /\ loading.found[NumberAt(i, k)] = Unregistered
                                         /\ Buildable(Published(Sorted[i]))
                                      THEN [loading.found EXCEPT ![NumberAt(i, k)] = RuntimeAt(i)]
                                      ELSE loading.found)
    /\ registry' = loading'.found
    /\ UNCHANGED <<vars, seen>>

(* A number no Business has yet gets a runtime built from the file as it is    *)
(* now.  Whatever that raises is caught, and the number is left for the next   *)
(* Business that claims it.                                                   *)
BuildRuntime ==
    /\ \E i \in Places : \E k \in AdapterPlaces(i) :
          /\ Building(i, k)
          /\ loading' = Advanced(i, k, IF /\ loading.found[NumberAt(i, k)] = Unregistered
                                         /\ Buildable(Published(Sorted[i]))
                                      THEN [loading.found EXCEPT ![NumberAt(i, k)] = RuntimeAt(i)]
                                      ELSE loading.found)
    /\ UNCHANGED <<vars, registry, seen>>

(* NeMo and the tool provider may raise too: for this load the Business was   *)
(* not fit to serve, whatever its file holds.                                 *)
BuildRaises ==
    /\ \E i \in Places : \E k \in AdapterPlaces(i) :
          /\ Building(i, k) /\ loading.found[NumberAt(i, k)] = Unregistered
          /\ loading' = Advanced(i, k, loading.found)
          /\ seen' = [seen EXCEPT ![Sorted[i]] = @ \union {None}]
    /\ UNCHANGED <<vars, registry>>

(* registry.update(loaded) *)
PublishRegistry ==
    /\ loading.at = "load" /\ loading.adapters = {} /\ loading.paths = {}
    /\ registry' = loading.found
    /\ loading' = [Due EXCEPT !.at = "done"] /\ seen' = Unseen
    /\ UNCHANGED vars

(* A new process starts with an empty registry and loads again. *)
Boot ==
    /\ Crash
    /\ registry' = Empty /\ loading' = Due
    /\ seen' = Unseen

-------------------------------------------------------------------------------
Requests ==
    /\ AdminStep
    /\ seen' = IF loading.at = "load" THEN [b \in Claimants |-> seen[b] \union {Published(b)'}]
               ELSE seen
    /\ UNCHANGED <<registry, loading>>

RegNext ==
    \/ StartLoad \/ ReadConfig \/ BuildRuntime \/ BuildRaises \/ PublishRegistry
    \/ Boot
    \/ Requests

RegSpec == RegInit /\ [][RegNext]_regVars

-------------------------------------------------------------------------------
(* The variables have their types, and until a load has been published the    *)
(* webhook routes nothing.                                                    *)
RegTypeOK ==
    /\ TypeOK
    /\ registry \in [Numbers -> Runtimes \union {Unregistered}]
    /\ loading.at \in {"due", "load", "done", "failed"}
    /\ loading.found \in [Numbers -> Runtimes \union {Unregistered}]
    /\ seen \in [Claimants -> SUBSET Contents]
    /\ loading.at # "done" => registry = Empty

Claims(b, n) == b \in Enabled /\ \E k \in Claiming(b) : Adapters[b][k].number = n

(* b was, at some time during the load, not fit to serve. *)
WasUnfit(b) == \E config \in seen[b] : ~Buildable(config)

(* What a load publishes serves each number by the first Business, in the     *)
(* order of the paths, that claims it and could be read and built at its turn, *)
(* with a config its file held; a number is left unserved only if no claimant *)
(* was fit all along.  So no Business takes "every other Business off WhatsApp *)
(* routing" (registry.py:7-11), whoever signs up or edits meanwhile.          *)
FirstFitIsServed ==
    [][loading.at = "load" /\ loading'.at = "done" => \A n \in Numbers :
          LET served == registry'[n] IN
          /\ served # Unregistered =>
                Claims(served.business, n) /\ served.config \in seen[served.business]
          /\ \A i \in Places :
                \/ ~Claims(Sorted[i], n) \/ WasUnfit(Sorted[i])
                \/ served # Unregistered /\ \E j \in 1..i : served.business = Sorted[j]]_regVars
===============================================================================
