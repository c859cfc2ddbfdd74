--------------------------- MODULE Services_proofs ---------------------------
(***************************************************************************)
(* Theorems about the parts of Services: jobs of the local resource are    *)
(* not said to be over while they run, and a stop leaves nothing behind;   *)
(* quotas settle; links are checked first, and made; nobody is taken for   *)
(* somebody else and every mapping at PSC is of an account on the grant;   *)
(* options that reach a resource fit their declaration, and nobody is      *)
(* refused without reason; the server starts with every valid              *)
(* configuration; every part is well typed.  Each holds for all values of  *)
(* the constants.  The invariants of the local jobs, the quota and the     *)
(* links are in proof modules of their own.                                *)
(***************************************************************************)
EXTENDS Services, LocalJob_proofs, UserQuota_proofs, HubmapLinks_proofs, WellFoundedInduction, TLAPS

-----------------------------------------------------------------------------
\* A step of the server is a step of one part; the others stutter.
LEMMA PartsMove ==
  [ServicesNext]_serviceVars =>
    /\ [AccountsNext]_mappingVars
    /\ [LocalNext]_localVars
    /\ [OptionsNext]_optionVars
    /\ [StartupNext]_configVars
    /\ [QuotaNext]_quotaVars
    /\ [LinksNext]_linkVars
  <1>1. UNCHANGED serviceVars =>
          UNCHANGED <<mappingVars, localVars, optionVars, configVars, quotaVars, linkVars>>
    BY DEF serviceVars
  <1>2. ServicesNext =>
          /\ AccountsNext \/ UNCHANGED mappingVars
          /\ LocalNext \/ UNCHANGED localVars
          /\ OptionsNext \/ UNCHANGED optionVars
          /\ StartupNext \/ UNCHANGED configVars
          /\ QuotaNext \/ UNCHANGED quotaVars
          /\ LinksNext \/ UNCHANGED linkVars
    BY DEF ServicesNext, Accounts
  <1>. QED
    BY <1>1, <1>2

-----------------------------------------------------------------------------
(* Jobs of the local resource: see LocalJob_proofs.                        *)

\* A local job is complete or failed only when its process has ended, for any
\* processes that it starts and any interleaving of the launch with polls and
\* a stop, except after a state that translate_status lacks, a stop that was
\* cut short, and a poll or a stop of a row that had no process id yet.
THEOREM LocalEndsAreTrue == ServicesSpec => []LocalEndIsTrue
  <1>1. ServicesInit => LocalInv
    BY LocalInitInv DEF ServicesInit
  <1>2. LocalInv /\ [ServicesNext]_serviceVars => LocalInv'
    BY PartsMove, LocalInvSteps
  <1>3. LocalInv => LocalEndIsTrue
    BY DEF LocalInv
  <1>. QED
    BY <1>1, <1>2, <1>3, PTL DEF ServicesSpec

\* A stop that was not cut short leaves no process that it could have found,
\* for any tree of processes, however they are started and end before, during
\* and after the stop: what runs and was not an orphan when the list was made
\* is on the list.
THEOREM StopsLeaveNothing == ServicesSpec => []StopLeavesNothing
  <1>1. ServicesInit => StopInv
    BY StopInitInv, LocalAssumption DEF ServicesInit
  <1>2. StopInv /\ [ServicesNext]_serviceVars => StopInv'
    BY PartsMove, StopInvSteps
  <1>3. StopInv => StopLeavesNothing
    BY DEF StopInv
  <1>. QED
    BY <1>1, <1>2, <1>3, PTL DEF ServicesSpec
-----------------------------------------------------------------------------
(* The quota and the links: see UserQuota_proofs and HubmapLinks_proofs.   *)

LEMMA QuotaInvHolds == ServicesSpec => []QuotaInv
  <1>1. ServicesInit => QuotaInv
    BY QuotaInitInv, QuotaAssumption DEF ServicesInit
  <1>2. QuotaInv /\ [ServicesNext]_serviceVars => QuotaInv'
    BY PartsMove, QuotaInvSteps, QuotaAssumption
  <1>. QED
    BY <1>1, <1>2, PTL DEF ServicesSpec

\* When everything is quiet the row has the sum of what the workspaces use and
\* the jobs took, for any number of workspaces, jobs, sizes and workers, as
\* long as no task was lost and no two ran at the same time.
THEOREM QuotasSettle == ServicesSpec => []QuotaSettles
  BY QuotaInvHolds, QuotaInvImplies, PTL

LEMMA LinksInvHolds == ServicesSpec => []LinksInv
  <1>1. ServicesInit => LinksInv
    BY LinksInitInv DEF ServicesInit
  <1>2. LinksInv /\ [ServicesNext]_serviceVars => LinksInv'
    BY PartsMove, LinksInvSteps
  <1>. QED
    BY <1>1, <1>2, PTL DEF ServicesSpec

\* A HuBMAP request that is refused leaves the directory as it was, and one
\* that fails half way failed for a path that does not exist or for what was
\* in the way of a name, for any links and whatever is in the directory.
THEOREM HubmapChecks == ServicesSpec => []HubmapChecksFirst
  BY LinksInvHolds, LinksInvImplies, PTL

\* A request that is answered well made every link that it asked for, or a
\* later one to the same dataset, or made it where a link that stands for its
\* directory leads, for any number of links in any order.
THEOREM LinksAreMade == ServicesSpec => []DoneMakesAll
  BY LinksInvHolds, LinksInvImplies, PTL
-----------------------------------------------------------------------------
(* Accounts.                                                               *)

LEMMA LeastElement ==
  ASSUME NEW S \in SUBSET Nat, S # {}
  PROVE  \E i \in S : \A j \in S : i <= j
  <1>. DEFINE Less == OpToRel(<, Nat)
  <1>1. \A i, j \in Nat : <<i, j>> \in Less <=> i < j
    BY DEF OpToRel
  <1>2. IsWellFoundedOn(Less, Nat)
    BY NatLessThanWellFounded
  <1>. HIDE DEF Less
  <1>3. \E i \in S : \A j \in S : ~ (<<j, i>> \in Less)
    BY <1>2, WFMin
  <1>4. S \subseteq Nat /\ \A i, j \in Nat : ~ (i < j) => j <= i
    OBVIOUS
  <1>. QED
    BY <1>1, <1>3, <1>4

\* first() gives one of the rows that match.
LEMMA EarliestMatches ==
  ASSUME mappings \in Seq(Mappings), NEW found \in SUBSET (1 .. Len(mappings)), found # {}
  PROVE  \E i \in found : Earliest(found) = mappings[i]
  <1>1. found \in SUBSET Nat
    OBVIOUS
  <1>2. \E i \in found : \A j \in found : i <= j
    BY <1>1, LeastElement
  <1>. QED
    BY <1>2 DEF Earliest

\* AccountIsOwn and MappedIsOnGrant strengthened: whoever is about to write a
\* mapping has a user, and an account on the grant if it is one at PSC.
Granted(p) == config.storage = "psc" /\ outages = 0 => p \in grant
RowIsOwn(m) ==
  /\ m.user = m.account /\ m.user \in users
  /\ m.method = "psc" /\ outages = 0 => m.account \in grant
AccountInv ==
  /\ config \in Configs /\ outages \in Nat
  /\ mappings \in Seq(Mappings)
  /\ login \in [Logins -> [pc : LoginSteps, valid : BOOLEAN, user : People]]
  /\ caller \in [Callers -> CallerSteps]
  /\ \A l \in Logins :
        /\ login[l].pc \in {"known", "answered"} => login[l].user = PersonOf(l)
        /\ login[l].pc \in {"known", "map", "answered"} => PersonOf(l) \in users
  /\ \A k \in Callers :
        /\ caller[k] # "idle" => PersonOf(k) \in users
        /\ caller[k] = "map" => Granted(PersonOf(k))
  /\ \A i \in 1 .. Len(mappings) : RowIsOwn(mappings[i])

LEMMA PeopleType ==
  /\ \A l \in Logins : PersonOf(l) \in People
  /\ \A k \in Callers : PersonOf(k) \in People
  BY PeopleAssumption DEF PersonOf

LEMMA AccountInitInv == AccountsInit => AccountInv
  BY PeopleType, PeopleAssumption DEF AccountsInit, AccountInv, LoginSteps, CallerSteps, RowIsOwn

LEMMA AccountImplies == AccountInv => AccountIsOwn /\ MappedIsOnGrant
  BY DEF AccountInv, AccountIsOwn, MappedIsOnGrant, RowIsOwn

\* A mapping that the person has a right to is added.
LEMMA AddOwn ==
  ASSUME AccountInv, NEW method \in Methods, NEW p \in People, NEW valid \in BOOLEAN,
         AddMapping(method, p, p, valid),
         p \in users, method = "psc" /\ outages = 0 => p \in grant
  PROVE  /\ mappings' \in Seq(Mappings)
         /\ \A i \in 1 .. Len(mappings') : RowIsOwn(mappings'[i])
  <1>. DEFINE m == [method |-> method, user |-> p, account |-> p, valid |-> valid]
  <1>1. m \in Mappings /\ RowIsOwn(m) /\ mappings' = Append(mappings, m)
    BY DEF Mappings, RowIsOwn, AddMapping
  <1>2. mappings \in Seq(Mappings) /\ \A i \in 1 .. Len(mappings) : RowIsOwn(mappings[i])
    BY DEF AccountInv
  <1>. HIDE DEF m
  <1>. QED
    BY <1>1, <1>2

LEMMA LoginInv ==
  ASSUME AccountInv, NEW l \in Logins, LoginBegin(l) \/ LoginStep(l)
  PROVE  AccountInv'
  <1>. USE DEF LoginSteps, LoginAt, LoginAs, LoginAnswers
  <1>. DEFINE LoginRecords == [pc : LoginSteps, valid : BOOLEAN, user : People]
  <1>0. /\ PersonOf(l) \in People /\ login \in [Logins -> LoginRecords]
        /\ config' = config /\ grant' = grant /\ caller' = caller /\ users \subseteq users'
        /\ outages' \in Nat /\ (outages' = 0 => outages = 0)
    BY PeopleType DEF AccountInv, LoginBegin, LoginStep, LoginFind, LoginGroups, LoginFindUser,
       LoginCreateUser, LoginMap, directory, Outage
  <1>1. /\ mappings' \in Seq(Mappings)
        /\ \A i \in 1 .. Len(mappings') : RowIsOwn(mappings'[i])
    <2>1. CASE LoginMap(l)
      BY <1>0, <2>1, AddOwn DEF LoginMap, AccountInv, Methods
    <2>2. CASE ~LoginMap(l)
      BY <2>2 DEF AccountInv, LoginBegin, LoginStep, LoginFind, LoginGroups, LoginFindUser,
         LoginCreateUser
    <2>. QED
      BY <2>1, <2>2
  <1>2. (\A i \in 1 .. Len(mappings) : RowIsOwn(mappings[i]))'
    BY <1>0, <1>1 DEF RowIsOwn
  \* The mapping that is found is of the person who logs in.
  <1>3. ASSUME NEW m \in Mappings, NEW i \in 1 .. Len(mappings), m = mappings[i],
               \/ m.account = PersonOf(l)
               \/ m.method = config.api /\ config.api # "globus"
                  /\ ExternalName(config.api, m.account) = UserName(config, PersonOf(l))
        PROVE  m.user = PersonOf(l) /\ PersonOf(l) \in users
    <2>1. m.account = PersonOf(l)
      <3>1. CASE m.method = config.api /\ config.api # "globus"
                 /\ ExternalName(config.api, m.account) = UserName(config, PersonOf(l))
        <4>1. config.api \in {"local", "psc"} /\ m.account \in People /\ config \in Configs
          BY <3>1 DEF AccountInv, Mappings, Methods
        <4>. QED
          BY <1>0, <3>1, <4>1, PeopleAssumption
      <3>. QED
        BY <1>3, <3>1
    <2>. QED
      BY <1>3, <2>1 DEF AccountInv, RowIsOwn
  <1>. DEFINE Own == {i \in 1 .. Len(mappings) :
                  \/ mappings[i].account = PersonOf(l)
                  \/ mappings[i].method = config.api /\ config.api # "globus"
                     /\ ExternalName(config.api, mappings[i].account) = UserName(config, PersonOf(l))}
  <1>4. ASSUME NEW found \in SUBSET Own, found # {}
        PROVE  Earliest(found).user = PersonOf(l) /\ PersonOf(l) \in users
    <2>1. mappings \in Seq(Mappings)
      BY DEF AccountInv
    <2>2. PICK i \in found : Earliest(found) = mappings[i]
      BY <1>4, <2>1, EarliestMatches
    <2>3. i \in 1 .. Len(mappings) /\ mappings[i] \in Mappings
      BY <1>4, <2>1
    <2>. QED
      BY <1>3, <1>4, <2>2, <2>3
  <1>5. /\ login' \in [Logins -> LoginRecords]
        /\ \A k \in Logins \ {l} : login'[k] = login[k]
        /\ login'[l].pc \in {"known", "answered"} => login'[l].user = PersonOf(l)
        /\ login'[l].pc \in {"known", "map", "answered"} => PersonOf(l) \in users'
    <2>1. CASE LoginBegin(l)
      BY <1>0, <2>1 DEF LoginBegin
    <2>2. CASE LoginFind(l)
      <3>. DEFINE found == Matching({m \in Mappings :
                     /\ m.method = config.api
                     /\ IF config.api = "globus" THEN m.account = PersonOf(l)
                        ELSE ExternalName(config.api, m.account) = UserName(config, PersonOf(l))})
      <3>1. found \in SUBSET Own
        BY DEF Matching
      <3>2. \/ login' = [login EXCEPT ![l].pc = "groups"]
            \/ login' = [login EXCEPT ![l].pc = "user"]
            \/ found # {} /\ \E step \in {"known", "answered"} :
                 login' = [login EXCEPT ![l].pc = step, ![l].user = Earliest(found).user]
        BY <2>2 DEF LoginFind
      <3>. HIDE DEF found, Own
      <3>3. found # {} => Earliest(found).user = PersonOf(l) /\ PersonOf(l) \in users
        BY <1>4, <3>1
      <3>. QED
        BY <1>0, <3>2, <3>3
    <2>3. CASE LoginGroups(l)
      <3>1. PICK step \in {"refused", "user", "answered"} :
              /\ login' = [login EXCEPT ![l].pc = step]
              /\ step = "answered" => login[l].pc = "known"
        BY <2>3 DEF LoginGroups
      <3>2. login[l].pc = "known" => login[l].user = PersonOf(l) /\ PersonOf(l) \in users
        BY DEF AccountInv
      <3>. QED
        BY <1>0, <3>1, <3>2
    <2>4. CASE LoginFindUser(l)
      BY <1>0, <2>4 DEF LoginFindUser
    <2>5. CASE LoginCreateUser(l)
      BY <1>0, <2>5 DEF LoginCreateUser
    <2>6. CASE LoginMap(l)
      BY <1>0, <2>6 DEF LoginMap, AccountInv
    <2>. QED
      BY <2>1, <2>2, <2>3, <2>4, <2>5, <2>6 DEF LoginStep
  <1>. QED
    BY <1>0, <1>1, <1>2, <1>5 DEF AccountInv, Granted

LEMMA CallerInv ==
  ASSUME AccountInv, NEW k \in Callers, CallerLook(k) \/ CallerStep(k)
  PROVE  AccountInv'
  <1>. USE DEF CallerSteps, CallerAt
  <1>0. PersonOf(k) \in People /\ caller \in [Callers -> CallerSteps] /\ outages \in Nat
    BY PeopleType DEF AccountInv
  <1>1. /\ config' = config /\ users' = users /\ login' = login /\ grant \subseteq grant'
        /\ outages' \in Nat /\ (outages' = 0 => outages = 0)
    <2>1. CASE CallerLook(k) \/ CallerGroups(k)
      BY <1>0, <2>1 DEF CallerLook, CallerGroups, directory, Outage
    <2>2. CASE CallerFindName(k) \/ CallerFindMail(k)
      BY <1>0, <2>2 DEF CallerFindName, CallerFindMail, Found, NotFound, Outage
    <2>3. CASE CallerCreate(k)
      BY <1>0, <2>3 DEF CallerCreate, directory, Outage
    <2>4. CASE CallerMap(k)
      BY <1>0, <2>4 DEF CallerMap, directory
    <2>5. CASE CallerConfirm(k)
      BY <1>0, <2>5 DEF CallerConfirm, directory, Outage
    <2>. QED
      BY <2>1, <2>2, <2>3, <2>4, <2>5 DEF CallerStep
  <1>2. /\ caller' \in [Callers -> CallerSteps]
        /\ \A j \in Callers \ {k} : caller'[j] = caller[j]
        /\ PersonOf(k) \in users
    BY <1>0, <1>1 DEF AccountInv, CallerLook, CallerStep, CallerGroups, CallerFindName, CallerFindMail,
       CallerCreate, CallerMap, CallerConfirm, Found, NotFound
  <1>3. ASSUME caller'[k] = "map"
        PROVE  Granted(PersonOf(k))'
    <2>1. CASE CallerFindName(k) \/ CallerFindMail(k)
      <3>1. Found(k, PersonOf(k))
        BY <1>0, <1>1, <1>3, <2>1 DEF CallerFindName, CallerFindMail, NotFound
      <3>. QED
        BY <1>0, <1>1, <3>1 DEF Found, Granted, Outage, AccountInv
    <2>2. CASE CallerCreate(k)
      BY <1>0, <1>1, <1>3, <2>2 DEF CallerCreate, Granted
    <2>. QED
      BY <1>0, <1>1, <1>3, <2>1, <2>2 DEF CallerLook, CallerStep, CallerGroups, CallerMap, CallerConfirm
  <1>4. /\ mappings' \in Seq(Mappings)
        /\ \A i \in 1 .. Len(mappings') : RowIsOwn(mappings'[i])
    <2>1. CASE CallerMap(k)
      <3>1. config.storage \in Methods /\ caller[k] = "map" /\ Granted(PersonOf(k))
        BY <2>1, PeopleAssumption DEF CallerMap, AccountInv, Configurations
      <3>. QED
        BY <1>0, <1>1, <1>2, <2>1, <3>1, AddOwn DEF CallerMap, Granted
    <2>2. CASE ~CallerMap(k)
      BY <2>2 DEF AccountInv, CallerLook, CallerStep, CallerGroups, CallerFindName, CallerFindMail,
         CallerCreate, CallerConfirm
    <2>. QED
      BY <2>1, <2>2
  <1>5. (\A i \in 1 .. Len(mappings) : RowIsOwn(mappings[i]))'
    BY <1>0, <1>1, <1>4 DEF RowIsOwn
  <1>. QED
    BY <1>0, <1>1, <1>2, <1>3, <1>4, <1>5 DEF AccountInv, Granted

LEMMA ServiceInv ==
  ASSUME AccountInv, LdapSync \/ \E p \in People : TokensExpire(p)
  PROVE  AccountInv'
  <1>1. CASE LdapSync
    BY <1>1 DEF LdapSync, AccountInv, RowIsOwn, Granted
  <1>2. ASSUME NEW p \in People, TokensExpire(p) PROVE AccountInv'
    <2>1. UNCHANGED <<config, users, directory, caller, outages>>
      BY <1>2 DEF TokensExpire
    <2>2. /\ login' \in [Logins -> [pc : LoginSteps, valid : BOOLEAN, user : People]]
          /\ \A l \in Logins : login'[l].pc = login[l].pc /\ login'[l].user = login[l].user
      <3>1. login \in [Logins -> [pc : LoginSteps, valid : BOOLEAN, user : People]]
        BY DEF AccountInv
      <3>2. login' = [l \in Logins |-> IF PersonOf(l) = p THEN [login[l] EXCEPT !.valid = FALSE]
                                       ELSE login[l]]
        BY <1>2 DEF TokensExpire
      <3>. QED
        BY <3>1, <3>2
    <2>3. \A i \in 1 .. Len(mappings) : /\ mappings[i] \in Mappings
                                       /\ [mappings[i] EXCEPT !.valid = FALSE] \in Mappings
      <3>1. mappings \in Seq(Mappings)
        BY DEF AccountInv
      <3>2. \A m \in Mappings : [m EXCEPT !.valid = FALSE] \in Mappings
        BY DEF Mappings
      <3>. QED
        BY <3>1, <3>2
    <2>4. /\ mappings' \in Seq(Mappings) /\ Len(mappings') = Len(mappings)
          /\ \A i \in 1 .. Len(mappings) :
                mappings'[i] \in {mappings[i], [mappings[i] EXCEPT !.valid = FALSE]}
      BY <1>2, <2>3 DEF TokensExpire, AccountInv
    <2>5. \A i \in 1 .. Len(mappings) : /\ mappings'[i].user = mappings[i].user
                                       /\ mappings'[i].account = mappings[i].account
                                       /\ mappings'[i].method = mappings[i].method
      BY <2>3, <2>4 DEF Mappings
    <2>. QED
      BY <2>1, <2>2, <2>4, <2>5 DEF AccountInv, RowIsOwn, Granted, directory
  <1>. QED
    BY <1>1, <1>2

LEMMA AccountInvHolds == ServicesSpec => []AccountInv
  <1>1. ServicesInit => AccountInv
    BY AccountInitInv DEF ServicesInit
  <1>2. AccountInv /\ [ServicesNext]_serviceVars => AccountInv'
    <2>. SUFFICES ASSUME AccountInv, [AccountsNext]_mappingVars PROVE AccountInv'
      BY PartsMove
    <2>1. CASE UNCHANGED mappingVars
      BY <2>1 DEF mappingVars, directory, AccountInv, RowIsOwn, Granted
    <2>2. CASE AccountsNext
      BY <2>2, LoginInv, CallerInv, ServiceInv DEF AccountsNext
    <2>. QED
      BY <2>1, <2>2
  <1>. QED
    BY <1>1, <1>2, PTL DEF ServicesSpec

\* Nobody is taken for somebody else, for any number of people, logins and
\* calls at the same time, when an external account that bears a person's
\* user name is that person's (PeopleAssumption).
THEOREM AccountsAreOwn == ServicesSpec => []AccountIsOwn
  BY AccountInvHolds, AccountImplies, PTL

\* Every mapping at PSC is of an account on the grant, for any number of
\* callers that look for, create and map it at the same time, as long as no
\* request to PSC failed.
THEOREM MappingsAreOnGrant == ServicesSpec => []MappedIsOnGrant
  BY AccountInvHolds, AccountImplies, PTL
-----------------------------------------------------------------------------
(* Options.                                                                *)

OptionsInv ==
  /\ declared \in Declarations
  /\ options \in [Options -> Values \union {Absent}]
  /\ launch \in [pc : LaunchSteps, sent : SUBSET Options, gpu : BOOLEAN]
  /\ launch.pc \in {"translate", "launched"} => Errors = {} /\ Incomparable = {}
  /\ launch.pc = "refused" => Errors # {}
  /\ launch.pc = "launched" => launch.sent \subseteq Mapped
  /\ launch.pc = "launched" /\ launch.gpu => options["gpu_enabled"].type = "bool"

\* What the declaration and the option are, in the parts that are compared.
LEMMA OptionParts ==
  ASSUME OptionsInv, NEW o \in Options
  PROVE  /\ IsDeclared(o) => /\ declared[o].low \in Int /\ declared[o].high \in Int
         /\ declared[o].required => IsDeclared(o)
         /\ Given(o) => options[o].n \in Int
  <1>1. declared[o] \in Validations \union {Undeclared} /\ options[o] \in Values \union {Absent}
    BY OptionsAssumption DEF OptionsInv
  <1>2. declared[o] \in Validations => declared[o].low \in Int /\ declared[o].high \in Int
    BY OptionsAssumption DEF Validations, Numbers, Unset
  <1>3. options[o] \in Values => options[o].n \in Int
    BY DEF Values, Numbers
  <1>4. declared[o] \in Validations => declared[o].type # "absent"
    BY DEF Validations
  <1>. QED
    BY <1>1, <1>2, <1>3, <1>4 DEF IsDeclared, Given, Undeclared, Absent

\* An option without an error fits its declaration.
LEMMA NoErrorFits ==
  ASSUME OptionsInv, Errors = {}, NEW o \in Options, IsDeclared(o)
  PROVE  Fits(o) \/ ZeroBound(o)
  <1>. SUFFICES ASSUME ~ZeroBound(o), Given(o)
                PROVE  /\ declared[o].type \in {"any", options[o].type}
                       /\ declared[o].low # Unset => options[o].n >= declared[o].low
                       /\ declared[o].high # Unset => options[o].n <= declared[o].high
    BY DEF Fits, Errors, Missing
  <1>1. o \notin Mistyped /\ o \in Checked
    BY DEF Errors, Checked
  <1>2. o \notin TooLow /\ o \notin TooHigh
    BY DEF Errors
  <1>3. declared[o].low # 0 /\ declared[o].high # 0
    BY DEF ZeroBound
  <1>. QED
    BY <1>1, <1>2, <1>3, OptionParts DEF Mistyped, TooLow, TooHigh, Bounds

\* An error is of an option that does not fit.
LEMMA ErrorUnfit ==
  ASSUME OptionsInv, NEW o \in Errors
  PROVE  o \in Options /\ IsDeclared(o) /\ ~Fits(o)
  <1>1. CASE o \in Missing
    BY <1>1, OptionParts DEF Missing, Fits
  <1>2. CASE o \in Mistyped
    BY <1>2 DEF Mistyped, Checked, Fits
  <1>3. CASE o \in TooLow
    <2>1. o \in Options /\ IsDeclared(o) /\ Given(o) /\ declared[o].low # Unset
          /\ options[o].n < declared[o].low
      BY <1>3 DEF TooLow, Checked, Bounds
    <2>. QED
      BY <2>1, OptionParts DEF Fits
  <1>4. CASE o \in TooHigh
    <2>1. o \in Options /\ IsDeclared(o) /\ Given(o) /\ declared[o].high # Unset
          /\ options[o].n > declared[o].high
      BY <1>4 DEF TooHigh, Checked, Bounds
    <2>. QED
      BY <2>1, OptionParts DEF Fits
  <1>. QED
    BY <1>1, <1>2, <1>3, <1>4 DEF Errors

LEMMA OptionsInvHolds == ServicesSpec => []OptionsInv
  <1>1. ServicesInit => OptionsInv
    BY DEF ServicesInit, OptionsInit, OptionsInv, NoOptions, LaunchSteps
  <1>2. OptionsInv /\ [ServicesNext]_serviceVars => OptionsInv'
    <2>. SUFFICES ASSUME OptionsInv, [OptionsNext]_optionVars PROVE OptionsInv'
      BY PartsMove
    <2>. USE DEF OptionsInv, LaunchSteps
    <2>1. declared' = declared /\ options' = options => Errors' = Errors /\ Incomparable' = Incomparable
      BY DEF Errors, Missing, Mistyped, TooLow, TooHigh, Incomparable, Checked, Bounds, IsDeclared, Given
    <2>2. CASE UNCHANGED optionVars
      BY <2>1, <2>2 DEF optionVars
    <2>3. CASE Request
      BY <2>3 DEF Request
    <2>4. CASE Validate
      BY <2>1, <2>4 DEF Validate
    <2>5. CASE Translate
      <3>1. launch' \in [pc : LaunchSteps, sent : SUBSET Options, gpu : BOOLEAN]
        BY <2>5, OptionsAssumption DEF Translate
      <3>2. launch'.sent \subseteq Mapped /\ (launch'.gpu => options["gpu_enabled"].type = "bool")
        BY <2>5 DEF Translate
      <3>3. launch.pc = "translate" /\ launch'.pc = "launched" /\ UNCHANGED <<declared, options>>
        BY <2>5 DEF Translate
      <3>. QED
        BY <2>1, <3>1, <3>2, <3>3
    <2>. QED
      BY <2>2, <2>3, <2>4, <2>5 DEF OptionsNext
  <1>. QED
    BY <1>1, <1>2, PTL DEF ServicesSpec

\* What reaches the resource fits its declaration, for any declarations,
\* mapping and request.
THEOREM SentOptionsFit == ServicesSpec => []SentFits
  <1>1. OptionsInv => SentFits
    <2>. SUFFICES ASSUME OptionsInv, launch.pc = "launched" PROVE SentFits
      BY DEF SentFits
    <2>1. \A o \in Options : IsDeclared(o) => Fits(o) \/ ZeroBound(o)
      BY NoErrorFits DEF OptionsInv
    <2>2. launch.gpu /\ IsDeclared("gpu_enabled") => declared["gpu_enabled"].type \in {"any", "bool"}
      <3>. SUFFICES ASSUME launch.gpu, IsDeclared("gpu_enabled")
                    PROVE  declared["gpu_enabled"].type \in {"any", "bool"}
        OBVIOUS
      <3>0. "gpu_enabled" \in Options
        BY OptionsAssumption
      <3>1. options["gpu_enabled"].type = "bool" /\ Errors = {}
        BY DEF OptionsInv
      <3>2. "gpu_enabled" \in Checked /\ "gpu_enabled" \notin Mistyped
        BY <3>0, <3>1 DEF Errors, Checked, Given
      <3>. QED
        BY <3>1, <3>2 DEF Mistyped
    <2>3. launch.sent \subseteq Mapped
      BY DEF OptionsInv
    <2>. QED
      BY <2>1, <2>2, <2>3 DEF SentFits
  <1>. QED
    BY <1>1, OptionsInvHolds, PTL

\* Nobody is refused options that all fit, for any declarations.
THEOREM RefusalsHaveReason == ServicesSpec => []RefusedForReason
  <1>1. OptionsInv => RefusedForReason
    BY ErrorUnfit DEF OptionsInv, RefusedForReason
  <1>. QED
    BY <1>1, OptionsInvHolds, PTL

-----------------------------------------------------------------------------
(* Configurations.                                                         *)

\* An object that cannot be made is of an entry that the validator reports,
\* or that has an empty reference.
LEMMA MakeFails ==
  /\ \A k \in AuthKeys : MakeAuth(k) /\ server' = "failed" => ~Valid(file)
  /\ \A k \in StorageKeys :
       MakeStorage(k) /\ server' = "failed" => ~Valid(file) \/ NamesNothing(file)
  /\ \A k \in ResourceKeys :
       MakeResource(k) /\ server' = "failed" => ~Valid(file) \/ NamesNothing(file)
  /\ MakeMain /\ server' = "failed" => ~Valid(file)
  <1>1. ASSUME NEW k \in AuthKeys, MakeAuth(k), server' = "failed" PROVE k \in AuthErrors(file)
    BY <1>1 DEF MakeAuth, MakeOrFail, AuthErrors
  <1>2. ASSUME NEW k \in StorageKeys, MakeStorage(k), server' = "failed"
              PROVE  k \in StorageErrors(file) \/ NamesNothing(file)
    BY <1>2 DEF MakeStorage, MakeOrFail, StorageErrors, NamesNothing
  <1>3. ASSUME NEW k \in ResourceKeys, MakeResource(k), server' = "failed"
              PROVE  k \in ResourceErrors(file) \/ NamesNothing(file)
    BY <1>3 DEF MakeResource, MakeOrFail, ResourceErrors, NamesNothing
  <1>4. ASSUME MakeMain, server' = "failed" PROVE ~Valid(file)
    <2>1. "main" \notin file.sections \/ MainErrors(file) # {}
      BY <1>4 DEF MakeMain, MainErrors
    <2>. QED
      BY <2>1 DEF Valid, AllSections
  <1>. QED
    BY <1>1, <1>2, <1>3, <1>4 DEF Valid

\* With a file that the validator accepts the server starts, for any number
\* of entries and whatever they refer to, the empty string excepted, which the
\* validator lets through.
THEOREM ValidFilesStart == ServicesSpec => []ValidStarts
  <1>1. ServicesInit => ValidStarts
    BY DEF ServicesInit, StartupInit, ValidStarts
  <1>2. ValidStarts /\ [ServicesNext]_serviceVars => ValidStarts'
    <2>. SUFFICES ASSUME ValidStarts, [StartupNext]_configVars, server' = "failed"
                  PROVE  ~Valid(file') \/ NamesNothing(file')
      BY PartsMove DEF ValidStarts
    <2>1. CASE UNCHANGED configVars
      BY <2>1 DEF configVars, ValidStarts
    <2>2. CASE ReadFile
      BY <2>2 DEF ReadFile, Valid, AllSections
    <2>3. CASE \E k \in JobTypeKeys : LaunchType(k)
      BY <2>3 DEF LaunchType
    <2>4. CASE \/ \E k \in AuthKeys : MakeAuth(k)
               \/ \E k \in StorageKeys : MakeStorage(k)
               \/ \E k \in ResourceKeys : MakeResource(k)
               \/ MakeMain
      <3>1. file' = file
        BY <2>4 DEF MakeAuth, MakeStorage, MakeResource, MakeOrFail, MakeMain
      <3>. QED
        BY <2>4, <3>1, MakeFails
    <2>. QED
      BY <2>1, <2>2, <2>3, <2>4 DEF StartupNext
  <1>. QED
    BY <1>1, <1>2, PTL DEF ServicesSpec
-----------------------------------------------------------------------------
(* Types.                                                                  *)

StartupInv == StartupTypeOK /\ (server # "down" => file \in Files)

LEMMA StartupTypedSteps == StartupInv /\ [StartupNext]_configVars => StartupInv'
  <1>. SUFFICES ASSUME StartupInv, [StartupNext]_configVars PROVE StartupInv'
    OBVIOUS
  <1>. USE DEF StartupInv, StartupTypeOK
  <1>1. CASE UNCHANGED configVars
    BY <1>1 DEF configVars
  <1>2. CASE ReadFile
    BY <1>2, ConfigAssumption DEF ReadFile
  <1>3. CASE \/ \E k \in AuthKeys : MakeAuth(k)
             \/ \E k \in StorageKeys : MakeStorage(k)
             \/ \E k \in ResourceKeys : MakeResource(k)
    <2>1. file' = file /\ server' \in {server, "failed"} /\ server = "starting"
      BY <1>3 DEF MakeAuth, MakeStorage, MakeResource, MakeOrFail
    <2>2. \/ made' = made
          \/ \E k \in AuthKeys : made' = [made EXCEPT !.auth = @ \union {k}]
          \/ \E k \in StorageKeys : made' = [made EXCEPT !.storage = @ \union {k}]
          \/ \E k \in ResourceKeys : made' = [made EXCEPT !.resource = @ \union {k}]
      BY <1>3 DEF MakeAuth, MakeStorage, MakeResource, MakeOrFail
    <2>. QED
      BY <2>1, <2>2
  <1>4. CASE MakeMain \/ \E k \in JobTypeKeys : LaunchType(k)
    BY <1>4 DEF MakeMain, LaunchType
  <1>. QED
    BY <1>1, <1>2, <1>3, <1>4 DEF StartupNext

\* Of the accounts, what AccountInv does not say.
DirectoryTyped ==
  /\ users \subseteq People /\ accounts \subseteq People
  /\ ldap \subseteq accounts /\ grant \subseteq accounts
  /\ expiries \in 0 .. MaxExpiries /\ outages \in 0 .. MaxOutages

LEMMA DirectoryTypedSteps ==
  DirectoryTyped /\ AccountInv /\ [AccountsNext]_mappingVars => DirectoryTyped'
  <1>. SUFFICES ASSUME DirectoryTyped, AccountInv, [AccountsNext]_mappingVars PROVE DirectoryTyped'
    OBVIOUS
  <1>. USE PeopleAssumption, PeopleType DEF DirectoryTyped
  <1>1. CASE UNCHANGED mappingVars
    BY <1>1 DEF mappingVars, directory
  <1>2. ASSUME NEW l \in Logins, LoginBegin(l) \/ LoginStep(l) PROVE DirectoryTyped'
    <2>1. /\ UNCHANGED <<accounts, ldap, grant, expiries>> /\ users' \subseteq users \union {PersonOf(l)}
          /\ UNCHANGED outages \/ Outage
      BY <1>2 DEF LoginBegin, LoginStep, LoginFind, LoginGroups, LoginFindUser, LoginCreateUser, LoginMap,
         directory
    <2>. QED
      BY <2>1 DEF Outage
  <1>3. ASSUME NEW k \in Callers, CallerLook(k) \/ CallerGroups(k) \/ CallerMap(k) \/ CallerConfirm(k)
        PROVE  DirectoryTyped'
    <2>1. UNCHANGED <<users, accounts, ldap, grant, expiries>> /\ (UNCHANGED outages \/ Outage)
      BY <1>3 DEF CallerLook, CallerGroups, CallerMap, CallerConfirm, directory
    <2>. QED
      BY <2>1 DEF Outage
  <1>4. ASSUME NEW k \in Callers, CallerFindName(k) \/ CallerFindMail(k) PROVE DirectoryTyped'
    BY <1>4 DEF CallerFindName, CallerFindMail, Found, NotFound, Outage
  <1>5. ASSUME NEW k \in Callers, CallerCreate(k) PROVE DirectoryTyped'
    BY <1>5 DEF CallerCreate, directory, Outage
  <1>6. CASE LdapSync \/ \E p \in People : TokensExpire(p)
    BY <1>6 DEF LdapSync, TokensExpire, directory
  <1>. QED
    BY <1>1, <1>2, <1>3, <1>4, <1>5, <1>6 DEF AccountsNext, CallerStep

\* Each login adds a mapping at most once, in the end; each caller at most
\* once, too, since it finds that mapping when it looks again.
Answered == {l \in Logins : login[l].pc = "answered"}
HasRow(p) == \E i \in 1 .. Len(mappings) : mappings[i].method = config.storage /\ mappings[i].user = p
Settled == {k \in Callers : HasRow(PersonOf(k)) /\ caller[k] \notin {"name", "mail", "create", "map"}}
RowsCounted == Len(mappings) <= Cardinality(Answered) + Cardinality(Settled)

LEMMA RowsStay ==
  ASSUME AccountInv, config' = config, NEW p \in People, HasRow(p),
         \/ mappings' = mappings
         \/ \E m \in Mappings : mappings' = Append(mappings, m)
         \/ \E q \in People : TokensExpire(q)
  PROVE  HasRow(p)'
  <1>1. mappings \in Seq(Mappings)
    BY DEF AccountInv
  <1>2. CASE mappings' = mappings
    BY <1>2 DEF HasRow
  <1>3. CASE \E m \in Mappings : mappings' = Append(mappings, m)
    BY <1>1, <1>3 DEF HasRow
  <1>4. CASE \E q \in People : TokensExpire(q)
    <2>1. \A i \in 1 .. Len(mappings) : mappings[i] \in Mappings
      BY <1>1
    <2>2. /\ Len(mappings') = Len(mappings)
          /\ \A i \in 1 .. Len(mappings) :
                mappings'[i] \in {mappings[i], [mappings[i] EXCEPT !.valid = FALSE]}
      BY <1>1, <1>4 DEF TokensExpire
    <2>3. \A i \in 1 .. Len(mappings) :
            mappings'[i].method = mappings[i].method /\ mappings'[i].user = mappings[i].user
      BY <2>1, <2>2 DEF Mappings
    <2>. QED
      BY <2>2, <2>3 DEF HasRow
  <1>. QED
    BY <1>2, <1>3, <1>4

\* Where nobody leaves the two sets and whoever adds a row joins one of them,
\* the bound stays.
LEMMA CountStays ==
  ASSUME IsFiniteSet(Logins), IsFiniteSet(Callers), mappings \in Seq(Mappings), RowsCounted,
         Answered \subseteq Answered', Settled \subseteq Settled',
         \/ Len(mappings') = Len(mappings)
         \/ /\ Len(mappings') = Len(mappings) + 1
            /\ (\E l \in Answered' : l \notin Answered) \/ \E k \in Settled' : k \notin Settled
  PROVE  RowsCounted'
  <1>1. /\ IsFiniteSet(Answered) /\ IsFiniteSet(Answered')
        /\ IsFiniteSet(Settled) /\ IsFiniteSet(Settled')
    BY FS_Subset DEF Answered, Settled
  <1>2. /\ Cardinality(Answered) \in Nat /\ Cardinality(Answered') \in Nat
        /\ Cardinality(Settled) \in Nat /\ Cardinality(Settled') \in Nat
    BY <1>1, FS_CardinalityType
  <1>3. /\ Cardinality(Answered) <= Cardinality(Answered')
        /\ Cardinality(Settled) <= Cardinality(Settled')
    BY <1>1, FS_Subset
  <1>4. ASSUME NEW l \in Answered', l \notin Answered
        PROVE  Cardinality(Answered) + 1 <= Cardinality(Answered')
    <2>1. Answered \union {l} \in SUBSET Answered'
      BY <1>4
    <2>. QED
      BY <1>1, <1>2, <1>4, <2>1, FS_Subset, FS_AddElement
  <1>5. ASSUME NEW k \in Settled', k \notin Settled
        PROVE  Cardinality(Settled) + 1 <= Cardinality(Settled')
    <2>1. Settled \union {k} \in SUBSET Settled'
      BY <1>5
    <2>. QED
      BY <1>1, <1>2, <1>5, <2>1, FS_Subset, FS_AddElement
  <1>6. Len(mappings) \in Nat
    OBVIOUS
  <1>. QED
    BY <1>2, <1>3, <1>4, <1>5, <1>6 DEF RowsCounted

LEMMA LoginCounts ==
  ASSUME IsFiniteSet(Logins), IsFiniteSet(Callers), AccountInv, RowsCounted,
         NEW l \in Logins, LoginBegin(l) \/ LoginStep(l)
  PROVE  RowsCounted'
  <1>0. /\ login \in [Logins -> [pc : LoginSteps, valid : BOOLEAN, user : People]]
        /\ mappings \in Seq(Mappings) /\ PersonOf(l) \in People
    BY PeopleType DEF AccountInv
  <1>1. /\ caller' = caller /\ config' = config
        /\ mappings' = mappings \/ (LoginMap(l) /\ \E m \in Mappings : mappings' = Append(mappings, m))
    BY <1>0 DEF LoginBegin, LoginStep, LoginFind, LoginGroups, LoginFindUser, LoginCreateUser, LoginMap,
       AddMapping, Mappings, Methods
  <1>2. Settled \subseteq Settled'
    BY <1>1, PeopleType, RowsStay DEF Settled
  <1>3. login[l].pc # "answered" /\ \A j \in Logins \ {l} : login'[j] = login[j]
    BY <1>0 DEF LoginBegin, LoginStep, LoginFind, LoginGroups, LoginFindUser, LoginCreateUser, LoginMap,
       LoginAt, LoginAs, LoginAnswers
  <1>4. Answered \subseteq Answered'
    BY <1>3 DEF Answered
  <1>5. LoginMap(l) => l \in Answered' /\ l \notin Answered
    BY <1>0 DEF LoginMap, LoginAs, LoginAnswers, Answered
  <1>6. Len(mappings') = Len(mappings) \/ (Len(mappings') = Len(mappings) + 1 /\ LoginMap(l))
    BY <1>0, <1>1
  <1>. QED
    BY <1>0, <1>2, <1>4, <1>5, <1>6, CountStays

LEMMA CallerCounts ==
  ASSUME IsFiniteSet(Logins), IsFiniteSet(Callers), AccountInv, RowsCounted,
         NEW k \in Callers, CallerLook(k) \/ CallerStep(k)
  PROVE  RowsCounted'
  <1>. USE DEF CallerAt
  <1>0. /\ caller \in [Callers -> CallerSteps] /\ mappings \in Seq(Mappings) /\ PersonOf(k) \in People
        /\ config.storage \in Methods
    BY PeopleType, PeopleAssumption DEF AccountInv, Configurations
  <1>. DEFINE m == [method |-> config.storage, user |-> PersonOf(k), account |-> PersonOf(k), valid |-> FALSE]
  <1>1. /\ login' = login /\ config' = config
        /\ mappings' = mappings \/ (CallerMap(k) /\ m \in Mappings /\ mappings' = Append(mappings, m))
    <2>1. m \in Mappings
      BY <1>0 DEF Mappings
    <2>. QED
      BY <2>1 DEF CallerLook, CallerStep, CallerGroups, CallerFindName, CallerFindMail, CallerCreate, CallerMap,
         CallerConfirm, AddMapping
  <1>2. \A j \in Callers : HasRow(PersonOf(j)) => HasRow(PersonOf(j))'
    BY <1>1, PeopleType, RowsStay
  <1>3. ASSUME k \in Settled PROVE caller'[k] \notin {"name", "mail", "create", "map"}
    <2>1. CASE CallerLook(k)
      <3>1. PICK i \in 1 .. Len(mappings) : mappings[i].method = config.storage /\ mappings[i].user = PersonOf(k)
        BY <1>3 DEF Settled, HasRow
      <3>2. i \in Matching(RowsOf(config.storage, PersonOf(k)))
        BY <1>0, <3>1 DEF Matching, RowsOf
      <3>. QED
        BY <1>0, <2>1, <3>2 DEF CallerLook
    <2>2. CASE CallerGroups(k) \/ CallerConfirm(k)
      BY <1>0, <2>2 DEF CallerGroups, CallerConfirm
    <2>3. CASE CallerFindName(k) \/ CallerFindMail(k) \/ CallerCreate(k) \/ CallerMap(k)
      BY <1>3, <2>3 DEF Settled, CallerFindName, CallerFindMail, CallerCreate, CallerMap
    <2>. QED
      BY <2>1, <2>2, <2>3 DEF CallerStep
  <1>4. \A j \in Callers \ {k} : caller'[j] = caller[j]
    BY <1>0 DEF CallerLook, CallerStep, CallerGroups, CallerFindName, CallerFindMail, CallerCreate, CallerMap,
       CallerConfirm, Found, NotFound
  <1>5. Settled \subseteq Settled'
    BY <1>2, <1>3, <1>4 DEF Settled
  <1>6. Answered' = Answered
    BY <1>1 DEF Answered
  <1>7. CASE mappings' = mappings
    BY <1>0, <1>5, <1>6, <1>7, CountStays
  <1>8. CASE CallerMap(k) /\ m \in Mappings /\ mappings' = Append(mappings, m)
    <2>1. mappings'[Len(mappings')] = m /\ Len(mappings') = Len(mappings) + 1
      BY <1>0, <1>8
    <2>2. HasRow(PersonOf(k))'
      BY <1>0, <1>1, <2>1 DEF HasRow
    <2>3. k \in Settled' /\ k \notin Settled
      BY <1>0, <1>8, <2>2 DEF CallerMap, Settled
    <2>. QED
      BY <1>0, <1>5, <1>6, <2>1, <2>3, CountStays
  <1>. QED
    BY <1>1, <1>7, <1>8

LEMMA ServiceCounts ==
  ASSUME IsFiniteSet(Logins), IsFiniteSet(Callers), AccountInv, RowsCounted,
         LdapSync \/ (\E p \in People : TokensExpire(p)) \/ UNCHANGED mappingVars
  PROVE  RowsCounted'
  <1>1. /\ mappings \in Seq(Mappings)
        /\ login \in [Logins -> [pc : LoginSteps, valid : BOOLEAN, user : People]]
    BY DEF AccountInv
  <1>2. /\ caller' = caller /\ config' = config /\ Len(mappings') = Len(mappings)
        /\ mappings' = mappings \/ \E p \in People : TokensExpire(p)
    BY <1>1 DEF LdapSync, TokensExpire, mappingVars
  <1>3. Settled \subseteq Settled'
    BY <1>2, PeopleType, RowsStay DEF Settled
  <1>4. Answered \subseteq Answered'
    BY <1>1 DEF Answered, LdapSync, TokensExpire, mappingVars
  <1>. QED
    BY <1>1, <1>2, <1>3, <1>4, CountStays

AccountsTyped == AccountInv /\ DirectoryTyped /\ RowsCounted

LEMMA AccountsTypedHolds ==
  ASSUME IsFiniteSet(Logins), IsFiniteSet(Callers)
  PROVE  ServicesSpec => []AccountsTyped
  <1>1. ServicesInit => AccountsTyped
    <2>. SUFFICES ASSUME AccountsInit PROVE DirectoryTyped /\ RowsCounted
      BY AccountInitInv DEF ServicesInit, AccountsTyped
    <2>1. DirectoryTyped
      BY PeopleAssumption DEF AccountsInit, DirectoryTyped
    <2>2. Cardinality(Answered) \in Nat /\ Cardinality(Settled) \in Nat
      BY FS_Subset, FS_CardinalityType DEF Answered, Settled
    <2>. QED
      BY <2>1, <2>2 DEF AccountsInit, RowsCounted
  <1>2. AccountsTyped /\ [ServicesNext]_serviceVars => AccountsTyped'
    <2>. SUFFICES ASSUME AccountsTyped, [AccountsNext]_mappingVars PROVE AccountsTyped'
      BY PartsMove
    <2>1. AccountInv'
      <3>1. CASE UNCHANGED mappingVars
        BY <3>1 DEF mappingVars, directory, AccountInv, RowIsOwn, Granted, AccountsTyped
      <3>. QED
        BY <3>1, LoginInv, CallerInv, ServiceInv DEF AccountsNext, AccountsTyped
    <2>2. RowsCounted'
      BY LoginCounts, CallerCounts, ServiceCounts DEF AccountsTyped, AccountsNext
    <2>. QED
      BY <2>1, <2>2, DirectoryTypedSteps DEF AccountsTyped
  <1>. QED
    BY <1>1, <1>2, PTL DEF ServicesSpec

\* Every variable has its type, for all values of the constants: among others,
\* any number of logins and callers, who look for a mapping and create it in
\* statements of their own, leave one row each at most in the table.
THEOREM ServicesTyped ==
  ASSUME IsFiniteSet(Logins), IsFiniteSet(Callers)
  PROVE  ServicesSpec => []ServicesTypeOK
  <1>. DEFINE OtherTypes == LocalTypeOK /\ LocalInv /\ StartupInv
  <1>1. ServicesInit => OtherTypes
    BY LocalInitTyped, LocalInitInv, LocalAssumption DEF ServicesInit, StartupInit, StartupInv, StartupTypeOK
  <1>2. OtherTypes /\ [ServicesNext]_serviceVars => OtherTypes'
    BY PartsMove, LocalTypedSteps, LocalInvSteps, LocalAssumption, StartupTypedSteps
  <1>3. AccountsTyped => AccountsTypeOK
    <2>. SUFFICES ASSUME AccountsTyped PROVE Len(mappings) <= Cardinality(Logins) + Cardinality(Callers)
      BY DEF AccountsTyped, AccountInv, DirectoryTyped, AccountsTypeOK
    <2>1. /\ Cardinality(Answered) \in Nat /\ Cardinality(Answered) <= Cardinality(Logins)
          /\ Cardinality(Settled) \in Nat /\ Cardinality(Settled) <= Cardinality(Callers)
      BY FS_Subset, FS_CardinalityType DEF Answered, Settled
    <2>2. /\ Cardinality(Logins) \in Nat /\ Cardinality(Callers) \in Nat
          /\ Len(mappings) \in Nat
      BY FS_CardinalityType DEF AccountsTyped, AccountInv
    <2>. QED
      BY <2>1, <2>2 DEF AccountsTyped, RowsCounted
  <1>4. /\ QuotaInv => QuotaTypeOK
        /\ OptionsInv => OptionsTypeOK
        /\ LinksInv => LinksTypeOK
        /\ OtherTypes => LocalTypeOK /\ StartupTypeOK
    BY DEF QuotaInv, QuotaTyped, OptionsInv, OptionsTypeOK, LinksInv, StartupInv
  <1>5. AccountsTyped /\ QuotaInv /\ OptionsInv /\ LinksInv /\ OtherTypes => ServicesTypeOK
    BY <1>3, <1>4 DEF ServicesTypeOK
  <1>. QED
    BY <1>1, <1>2, <1>5, AccountsTypedHolds, QuotaInvHolds, OptionsInvHolds, LinksInvHolds, PTL
       DEF ServicesSpec
=============================================================================
