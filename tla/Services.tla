------------------------------ MODULE Services ------------------------------
(***************************************************************************)
(* The parts of the server that jobs and workspaces rest on, side by side: *)
(* accounts, the quota, jobs of the local resource, options of a launch,   *)
(* the configuration and links.  They share no state with each other, so   *)
(* that one of them at a time is looked at: "part" says which.             *)
(***************************************************************************)
EXTENDS UserMapping, UserQuota, LocalJob, LaunchOptions, StartupConfig, HubmapLinks

CONSTANT Parts  \* the parts to look at

ASSUME PartsAssumption ==
    Parts \subseteq {"accounts", "quota", "local job", "options", "startup", "links"}

VARIABLE part

serviceVars == <<part, mappingVars, quotaVars, localVars, optionVars, configVars, linkVars>>

ServicesTypeOK ==
    /\ AccountsTypeOK /\ QuotaTypeOK /\ LocalTypeOK
    /\ OptionsTypeOK /\ StartupTypeOK /\ LinksTypeOK

\* A part that is not looked at starts in one state only.
ServicesInit ==
    /\ part \in Parts
    /\ AccountsInit /\ QuotaInit /\ LocalInit /\ OptionsInit /\ StartupInit /\ LinksInit
    /\ part # "accounts" => config = (CHOOSE c \in Configs : TRUE) /\ accounts = {}
    /\ part # "options" => declared = CHOOSE d \in Declarations : TRUE

Accounts(A) == part = "accounts" /\ A /\ UNCHANGED <<part, quotaVars, localVars, optionVars, configVars, linkVars>>

ServicesNext ==
    \/ Accounts(AccountsNext)
    \/ /\ part = "quota" /\ QuotaNext
       /\ UNCHANGED <<part, mappingVars, localVars, optionVars, configVars, linkVars>>
    \/ /\ part = "local job" /\ LocalNext
       /\ UNCHANGED <<part, mappingVars, quotaVars, optionVars, configVars, linkVars>>
    \/ /\ part = "options" /\ OptionsNext
       /\ UNCHANGED <<part, mappingVars, quotaVars, localVars, configVars, linkVars>>
    \/ /\ part = "startup" /\ StartupNext
       /\ UNCHANGED <<part, mappingVars, quotaVars, localVars, optionVars, linkVars>>
    \/ /\ part = "links" /\ LinksNext
       /\ UNCHANGED <<part, mappingVars, quotaVars, localVars, optionVars, configVars>>

\* People try again until they are let in; requests and tasks run on.
ServicesSpec ==
    /\ ServicesInit /\ [][ServicesNext]_serviceVars
    /\ \A l \in Logins : WF_serviceVars(Accounts(LoginBegin(l) \/ LoginStep(l)))
    /\ \A k \in Callers : WF_serviceVars(Accounts(CallerLook(k) \/ CallerStep(k)))
=============================================================================
