---------------------------- MODULE UserMapping ----------------------------
(***************************************************************************)
(* Who is who: logins (UserWorkspacesServerTokenView, api_authenticate),   *)
(* which find or create the user of this server, and has_permission, which *)
(* every request and task calls to find or create the user's account on a  *)
(* storage or resource.  Both look for an ExternalUserMapping first and    *)
(* create what they miss, in statements of their own, so that two of them  *)
(* may miss the same.  One step is one database statement or one call of a *)
(* remote service.                                                         *)
(*                                                                         *)
(* A person stands for the pair of user name and mail address, so for the  *)
(* row of the User table with them, and for the person's account in an     *)
(* external directory: the host's users, PSC, or Globus.                   *)
(***************************************************************************)
EXTENDS Naturals, Sequences, FiniteSets

CONSTANTS
    People,
    NameOf,      \* the user name by which the API clients call each person
    MailNameOf,  \* what stands before the "@" in the person's mail address
    PSCNameOf,   \* the name of each person's account at PSC
    Holders,     \* people who may have an external account to begin with
    Logins,      \* logins, <<person, number>>
    Callers,     \* callers of has_permission, <<person, number>>
    Configs,     \* configurations of the server, see Configurations
    MaxExpiries, \* bound on expiries of Globus tokens
    MaxOutages   \* bound on errors of remote services

Methods == {"globus", "local", "psc"}

\* api: the method of the token view; storage: the method behind has_permission;
\* creates: create_external_users; groups: allowed_globus_groups is not empty;
\* members: the people in those groups.
Configurations ==
    [api : Methods, storage : Methods, creates : BOOLEAN, groups : BOOLEAN, members : SUBSET People]

\* The user name of a person: with Globus it is taken from the mail address.
UserName(c, p) == IF c.api = "globus" THEN MailNameOf[p] ELSE NameOf[p]

ExternalName(method, p) == IF method = "local" THEN NameOf[p] ELSE PSCNameOf[p]

\* An account that bears somebody's user name is that person's.
ASSUME PeopleAssumption ==
    /\ Holders \subseteq People
    /\ Logins \subseteq People \X Nat /\ Callers \subseteq People \X Nat
    /\ Configs \subseteq Configurations
    /\ \A p, q \in People : NameOf[p] = NameOf[q] => p = q
    /\ \A c \in Configs, method \in {"local", "psc"}, p, q \in People :
           method \in {c.api, c.storage} /\ ExternalName(method, p) = UserName(c, q) => p = q
    /\ MaxExpiries \in Nat /\ MaxOutages \in Nat

VARIABLES
    config,     \* the configuration, which does not change
    users,      \* the User table
    mappings,   \* the ExternalUserMapping table, in the order of the keys
    accounts,   \* accounts at PSC or on the host, as the API shows them
    ldap,       \* external accounts, as LDAP shows them
    grant,      \* accounts assigned to the grant at PSC
    login,      \* the logins: step, whether the Globus token works, the answer
    caller,     \* the calls of has_permission: step
    expiries, outages

directory == <<accounts, ldap, grant>>
mappingVars == <<config, users, mappings, accounts, ldap, grant, login, caller, expiries, outages>>

\* valid: the Globus token in external_user_details still works.
Mappings == [method : Methods, user : People, account : People, valid : BOOLEAN]

LoginSteps == {"idle", "find", "groups", "known", "user", "create", "map", "answered", "refused"}
CallerSteps == {"idle", "groups", "name", "mail", "create", "map", "confirm", "granted", "refused"}

PersonOf(l) == l[1]

AccountsTypeOK ==
    /\ config \in Configs
    /\ users \subseteq People /\ accounts \subseteq People
    /\ ldap \subseteq accounts /\ grant \subseteq accounts
    /\ mappings \in Seq(Mappings)
    /\ Len(mappings) <= Cardinality(Logins) + Cardinality(Callers)
    /\ login \in [Logins -> [pc : LoginSteps, valid : BOOLEAN, user : People]]
    /\ caller \in [Callers -> CallerSteps]
    /\ expiries \in 0 .. MaxExpiries /\ outages \in 0 .. MaxOutages

LoginAt(l, step) == login' = [login EXCEPT ![l].pc = step]
LoginAs(l, step, user) == login' = [login EXCEPT ![l].pc = step, ![l].user = user]
LoginAnswers(l, user) == LoginAs(l, "answered", user)
CallerAt(k, step) == caller' = [caller EXCEPT ![k] = step]

AccountsInit ==
    /\ config \in Configs
    /\ users = {}
    /\ mappings = <<>>
    /\ accounts \in SUBSET Holders /\ ldap = accounts /\ grant = {}
    /\ config.storage = "globus" => accounts = {}
    /\ login = [l \in Logins |-> [pc |-> "idle", valid |-> FALSE, user |-> PersonOf(l)]]
    /\ caller = [k \in Callers |-> "idle"]
    /\ expiries = 0 /\ outages = 0

\* A remote service answers with an error.
Outage == outages < MaxOutages /\ outages' = outages + 1

-----------------------------------------------------------------------------
(* The table of mappings.                                                  *)

\* filter(...).first(): the matching row with the least key.
Matching(rows) == {i \in 1 .. Len(mappings) : mappings[i] \in rows}
Earliest(found) == mappings[CHOOSE i \in found : \A j \in found : i <= j]

\* create_external_user_mapping: another row, whatever rows there are.
AddMapping(method, user, account, valid) ==
    mappings' = Append(mappings,
                       [method |-> method, user |-> user, account |-> account, valid |-> valid])

-----------------------------------------------------------------------------
(* The token view.                                                         *)

\* A login with Globus comes with a new token.
LoginBegin(l) ==
    /\ login[l].pc \in {"idle", "refused"}
    /\ login' = [login EXCEPT ![l].pc = "find", ![l].valid = config.api = "globus"]
    /\ UNCHANGED <<config, users, mappings, directory, caller, expiries, outages>>

\* The local and PSC methods look for the account that bears the user name,
\* Globus looks for the account's id.  The groups are checked after that: for
\* a person with a mapping ("known") and for one without ("groups").
LoginFind(l) ==
    LET p == PersonOf(l)
        found == Matching({row \in Mappings :
                     /\ row.method = config.api
                     /\ IF config.api = "globus" THEN row.account = p
                        ELSE ExternalName(config.api, row.account) = UserName(config, p)}) IN
    /\ login[l].pc = "find"
    /\ LET groups == config.api = "globus" /\ config.groups IN
       IF found = {} THEN LoginAt(l, IF groups THEN "groups" ELSE "user")
       ELSE LoginAs(l, IF groups THEN "known" ELSE "answered", Earliest(found).user)
    /\ UNCHANGED <<config, users, mappings, directory, caller, expiries, outages>>

\* The groups are asked for with the token of this login.  When it does not
\* work any more, or the service fails, or the person is in none of them, the
\* login is refused.
LoginGroups(l) ==
    /\ login[l].pc \in {"groups", "known"}
    /\ \/ /\ LoginAt(l, IF ~login[l].valid \/ PersonOf(l) \notin config.members THEN "refused"
                        ELSE IF login[l].pc = "known" THEN "answered" ELSE "user")
          /\ UNCHANGED outages
       \/ Outage /\ LoginAt(l, "refused")
    /\ UNCHANGED <<config, users, mappings, directory, caller, expiries>>

\* Slip: somebody who has the user name is taken for the person.
LoginFindUserByName(l) ==
    LET named == {u \in users : UserName(config, u) = UserName(config, PersonOf(l))} IN
    /\ login[l].pc = "user"
    /\ IF named = {} THEN LoginAt(l, "create")
       ELSE LoginAnswers(l, CHOOSE u \in named : TRUE)
    /\ UNCHANGED <<config, users, mappings, directory, caller, expiries, outages>>

\* Slip: the user table is not looked at.
LoginFindUserNever(l) ==
    /\ login[l].pc = "user" /\ LoginAt(l, "create")
    /\ UNCHANGED <<config, users, mappings, directory, caller, expiries, outages>>

\* get_internal_user looks for user name and mail address.
LoginFindUser(l) ==
    /\ login[l].pc = "user"
    /\ IF PersonOf(l) \notin users THEN LoginAt(l, "create")
       ELSE IF config.api = "globus" THEN LoginAt(l, "map")
       ELSE LoginAnswers(l, PersonOf(l))
    /\ UNCHANGED <<config, users, mappings, directory, caller, expiries, outages>>

NameTaken(p) == \E u \in users : UserName(config, u) = UserName(config, p)

\* create_internal_user: user names are unique, and whoever comes second with
\* one gets an error, which refuses the login.
LoginCreateUser(l) ==
    LET p == PersonOf(l) IN
    /\ login[l].pc = "create"
    /\ IF NameTaken(p) THEN LoginAt(l, "refused") /\ UNCHANGED users
       ELSE /\ users' = users \union {p}
            /\ IF config.api = "globus" THEN LoginAt(l, "map") ELSE LoginAnswers(l, p)
    /\ UNCHANGED <<config, mappings, directory, caller, expiries, outages>>

LoginMap(l) ==
    /\ login[l].pc = "map"
    /\ AddMapping("globus", PersonOf(l), PersonOf(l), login[l].valid)
    /\ LoginAnswers(l, PersonOf(l))
    /\ UNCHANGED <<config, users, directory, caller, expiries, outages>>

LoginStep(l) ==
    LoginFind(l) \/ LoginGroups(l) \/ LoginFindUser(l) \/ LoginCreateUser(l) \/ LoginMap(l)

-----------------------------------------------------------------------------
(* has_permission: from requests, and from check_main_storage_user, which  *)
(* the token view enqueues.  A caller that is refused may ask again.       *)

RowsOf(method, p) == {row \in Mappings : row.method = method /\ row.user = p}

\* Slip: the mapping of another method is looked for.
CallerLookForLogin(k) ==
    LET found == Matching(RowsOf(config.api, PersonOf(k))) IN
    /\ caller[k] \in {"idle", "refused"} /\ PersonOf(k) \in users
    /\ CallerAt(k, IF found = {} THEN (IF config.storage = "globus" THEN "refused" ELSE "name")
                   ELSE IF config.storage = "globus" /\ config.groups THEN "groups"
                   ELSE "granted")
    /\ UNCHANGED <<config, users, mappings, directory, login, expiries, outages>>

CallerLook(k) ==
    LET found == Matching(RowsOf(config.storage, PersonOf(k))) IN
    /\ caller[k] \in {"idle", "refused"} /\ PersonOf(k) \in users
    /\ CallerAt(k, IF found = {} THEN (IF config.storage = "globus" THEN "refused" ELSE "name")
                   ELSE IF config.storage = "globus" /\ config.groups THEN "groups"
                   ELSE "granted")
    /\ UNCHANGED <<config, users, mappings, directory, login, expiries, outages>>

\* Globus: the groups are asked for with the token in the mapping, which is
\* the one of the person's first login.
CallerGroups(k) ==
    /\ caller[k] = "groups"
    /\ \/ /\ CallerAt(k, IF /\ Earliest(Matching(RowsOf("globus", PersonOf(k)))).valid
                           /\ PersonOf(k) \in config.members THEN "granted" ELSE "refused")
          /\ UNCHANGED outages
       \/ Outage /\ CallerAt(k, "refused")
    /\ UNCHANGED <<config, users, mappings, directory, login, expiries>>

\* PSC assigns an account to the grant when it is found (get_external_user);
\* the answer to that request is not looked at.
Found(k, p) ==
    /\ CallerAt(k, "map")
    /\ \/ grant' = (IF config.storage = "psc" THEN grant \union {p} ELSE grant) /\ UNCHANGED outages
       \/ config.storage = "psc" /\ p \notin grant /\ Outage /\ UNCHANGED grant

NotFound(k) ==
    /\ CallerAt(k, IF config.creates THEN "create" ELSE "refused")
    /\ UNCHANGED <<grant, outages>>

\* Slip: the mail address is not looked for.
CallerFindNameOnly(k) ==
    LET p == PersonOf(k) IN
    /\ caller[k] = "name"
    /\ IF p \in accounts /\ ExternalName(config.storage, p) = UserName(config, p)
       THEN Found(k, p) ELSE NotFound(k)
    /\ UNCHANGED <<config, users, mappings, accounts, ldap, login, expiries>>

\* The look-up by user name; PSC goes on with the mail address.
CallerFindName(k) ==
    LET p == PersonOf(k) IN
    /\ caller[k] = "name"
    /\ \/ IF p \in accounts /\ ExternalName(config.storage, p) = UserName(config, p) THEN Found(k, p)
          ELSE IF config.storage = "psc" THEN CallerAt(k, "mail") /\ UNCHANGED <<grant, outages>>
          ELSE NotFound(k)
       \/ config.storage = "psc" /\ Outage /\ CallerAt(k, "refused") /\ UNCHANGED grant
    /\ UNCHANGED <<config, users, mappings, accounts, ldap, login, expiries>>

CallerFindMail(k) ==
    LET p == PersonOf(k) IN
    /\ caller[k] = "mail"
    /\ \/ IF p \in accounts THEN Found(k, p) ELSE NotFound(k)
       \/ Outage /\ CallerAt(k, "refused") /\ UNCHANGED grant
    /\ UNCHANGED <<config, users, mappings, accounts, ldap, login, expiries>>

\* Slip: the allocation is left out of the request.
CreateWithoutGrant(k) ==
    LET p == PersonOf(k) IN
    /\ caller[k] = "create" /\ p \notin accounts
    /\ accounts' = accounts \union {p} /\ ldap' = ldap
    /\ CallerAt(k, "map")
    /\ UNCHANGED <<config, users, mappings, grant, login, expiries, outages>>

\* create_external_user: PSC looks for the allocation and creates the account
\* with it, useradd creates a user of the host; both fail on an account that
\* there is by now.  LDAP shows an account of PSC later.  The answer of PSC
\* may be lost.
CallerCreate(k) ==
    LET p == PersonOf(k) IN
    /\ caller[k] = "create"
    /\ \/ /\ p \notin accounts
          /\ accounts' = accounts \union {p}
          /\ IF config.storage = "psc" THEN grant' = grant \union {p} /\ UNCHANGED ldap
             ELSE ldap' = ldap \union {p} /\ UNCHANGED grant
          /\ CallerAt(k, "map") /\ UNCHANGED outages
       \/ /\ \/ p \in accounts /\ UNCHANGED outages
             \/ Outage
          /\ CallerAt(k, "refused") /\ UNCHANGED directory
       \/ /\ config.storage = "psc" /\ p \notin accounts /\ Outage
          /\ accounts' = accounts \union {p} /\ grant' = grant \union {p} /\ UNCHANGED ldap
          /\ CallerAt(k, "refused")
    /\ UNCHANGED <<config, users, mappings, login, expiries>>

CallerMap(k) ==
    /\ caller[k] = "map"
    /\ AddMapping(config.storage, PersonOf(k), PersonOf(k), FALSE)
    /\ CallerAt(k, "confirm")
    /\ UNCHANGED <<config, users, directory, login, expiries, outages>>

\* The new mapping, and no other, is confirmed: by LDAP, or by the host.
CallerConfirm(k) ==
    /\ caller[k] = "confirm"
    /\ \/ CallerAt(k, IF PersonOf(k) \in ldap THEN "granted" ELSE "refused") /\ UNCHANGED outages
       \/ config.storage = "psc" /\ Outage /\ CallerAt(k, "refused")
    /\ UNCHANGED <<config, users, mappings, directory, login, expiries>>

CallerStep(k) ==
    \/ CallerGroups(k) \/ CallerFindName(k) \/ CallerFindMail(k)
    \/ CallerCreate(k) \/ CallerMap(k) \/ CallerConfirm(k)

-----------------------------------------------------------------------------
(* The services.                                                           *)

LdapSync ==
    /\ ldap # accounts /\ ldap' = accounts
    /\ UNCHANGED <<config, users, mappings, accounts, grant, login, caller, expiries, outages>>

\* Tokens are only used to look at the groups.
TokensExpire(p) ==
    /\ config.api = "globus" /\ config.groups /\ expiries < MaxExpiries
    /\ expiries' = expiries + 1
    /\ login' = [l \in Logins |-> IF PersonOf(l) = p THEN [login[l] EXCEPT !.valid = FALSE] ELSE login[l]]
    /\ mappings' = [i \in 1 .. Len(mappings) |->
                        IF mappings[i].user = p THEN [mappings[i] EXCEPT !.valid = FALSE] ELSE mappings[i]]
    /\ UNCHANGED <<config, users, directory, caller, outages>>

AccountsNext ==
    \/ \E l \in Logins : LoginBegin(l) \/ LoginStep(l)
    \/ \E k \in Callers : CallerLook(k) \/ CallerStep(k)
    \/ LdapSync
    \/ \E p \in People : TokensExpire(p)

-----------------------------------------------------------------------------
(* Properties.                                                             *)

\* Nobody is taken for somebody else: a login is answered with the person's
\* own user, and a mapping joins a user to that person's account, although
\* users are found by user name, mail address or account, whichever exists.
AccountIsOwn ==
    /\ \A l \in Logins : login[l].pc = "answered" => login[l].user = PersonOf(l) /\ PersonOf(l) \in users
    /\ \A i \in 1 .. Len(mappings) : mappings[i].user = mappings[i].account /\ mappings[i].user \in users

\* A mapping at PSC, which later calls take without looking further, is of an
\* account that exists and is assigned to the grant, unless a request failed
\* (PSCAPIUserAuthentication, get_external_user and create_external_user).
MappedIsOnGrant ==
    outages = 0 => \A i \in 1 .. Len(mappings) :
        mappings[i].method = "psc" => mappings[i].account \in grant

Outside(method, p) == method = "globus" /\ config.groups /\ p \notin config.members

\* Who tries again is logged in: losing the race to create the user, an
\* expired token or an error of Globus costs one attempt, but not when
\* somebody else has the user name, or the person is in none of the groups.
EveryoneLogsIn ==
    \A l \in Logins : login[l].pc # "idle" ~>
        \/ login[l].pc = "answered" \/ Outside(config.api, PersonOf(l))
        \/ NameTaken(PersonOf(l)) /\ PersonOf(l) \notin users

\* Where there can be no account for a person, where the token in the mapping
\* of Globus has expired, as no later login replaces it, and outside the groups.
Hopeless(p) ==
    \/ config.storage # "globus" /\ p \notin accounts /\ ~config.creates
    \/ config.storage = "globus" /\ (config.api = "globus" => config.groups /\ expiries > 0)
    \/ Outside(config.storage, p)

\* A user who asks again gets the account in the end: not losing the race to
\* create it, nor an error of PSC, nor LDAP that lags behind keeps a user out.
EveryoneAdmitted ==
    \A k \in Callers : PersonOf(k) \in users ~> (caller[k] = "granted" \/ Hopeless(PersonOf(k)))
=============================================================================
