----------------------------- MODULE MCConsole ------------------------------
(* What the console edits, for TLC: the settings, a managed device or a       *)
(* network code, one at a time; the other two stay in their initial state.    *)
EXTENDS MCSettings, Subscription, Networks

VARIABLE part

allVars == <<settingsVars, subscriptionVars, networkVars, part>>

\* What the other two parts have never changes.
MCView ==
    <<part, CASE part = "settings" -> SettingsView
              [] part = "subscription" -> subscriptionVars
              [] part = "networks" -> networkVars>>

MCInit ==
    /\ part \in {"settings", "subscription", "networks"}
    /\ SettingsInit /\ SubscriptionInit /\ NetworksInit
    /\ part # "settings" => file.wireguard = Nil /\ file.ikev2 = Nil
    /\ part # "subscription" => revision = 1 /\ ~broken
    /\ part # "networks" => custom = Absent

\* The properties of Networks say nothing of what follows a slip.
MCNext ==
    /\ UNCHANGED part
    /\ \/ part = "settings" /\ SettingsNext /\ UNCHANGED <<subscriptionVars, networkVars>>
       \/ part = "subscription" /\ SubscriptionNext /\ UNCHANGED <<settingsVars, networkVars>>
       \/ /\ part = "networks" /\ slips = {} /\ NetworksNext
          /\ UNCHANGED <<settingsVars, subscriptionVars>>

MCSpec == MCInit /\ [][MCNext]_allVars
=============================================================================
