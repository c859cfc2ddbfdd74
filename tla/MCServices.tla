----------------------------- MODULE MCServices -----------------------------
(* Instances of Services for TLC. *)
EXTENDS Services

\* Two people whose mail addresses begin alike, and whose accounts at PSC do
\* not have their user names.
MCPeople == {"p1", "p2"}
MCNameOf == [p \in MCPeople |-> p]
MCMailNameOf == [p \in MCPeople |-> "m"]
MCPSCNameOf == [p \in MCPeople |-> "x" \o p]
MCLogins == {<<"p1", 1>>, <<"p1", 2>>, <<"p2", 1>>}
MCCallers == {<<"p1", 1>>, <<"p1", 2>>}
Configuration(api, storageMethod, creates, groups, members) ==
    [api |-> api, storage |-> storageMethod, creates |-> creates, groups |-> groups, members |-> members]
MCConfigs == {
    Configuration("globus", "globus", FALSE, TRUE, MCPeople),
    Configuration("globus", "globus", FALSE, TRUE, {"p2"}),
    Configuration("globus", "globus", FALSE, FALSE, {}), Configuration("psc", "psc", FALSE, FALSE, {}),
    Configuration("local", "psc", TRUE, FALSE, {}), Configuration("local", "local", TRUE, FALSE, {})}

MCSpaces == {"s1", "s2"}
MCSpaceOf == [j \in {"j1"} |-> "s1"]

Parameter(required, type, low, high) == [required |-> required, type |-> type, low |-> low, high |-> high]
MCDeclarations ==
    [{"num_cpus", "gpu_enabled"} -> {
        Undeclared, Parameter(FALSE, "bool", Unset, Unset), Parameter(TRUE, "int", 1, 1),
        Parameter(FALSE, "int", 0, 2), Parameter(FALSE, "any", Unset, 1)}]

MCIn == [n \in {"a", "b"} |-> IF n = "b" THEN "a" ELSE "none"]

\* One entry in each section, with deviations in one section or two.
MCAuthKeys == {"a"}
MCStorageKeys == {"s"}
MCResourceKeys == {"r"}
MCJobTypeKeys == {"j"}
Heads == [sections : {AllSections} \union {AllSections \ {s} : s \in AllSections},
          api : {"a", "dangling"}, storage : {"s", "dangling"}, resource : {"r", "dangling"}]
GoodHead == [sections |-> AllSections, api |-> "a", storage |-> "s", resource |-> "r"]
StorageEntries == [kind : EntryKinds, auth : AuthRefs]
GoodStorage == [kind |-> "fits", auth |-> "a"]
ResourceEntries == [kind : EntryKinds, auth : AuthRefs, storage : StorageRefs]
GoodResource == [kind |-> "fits", auth |-> "a", storage |-> "s"]
JobTypeEntries == [kind : EntryKinds, flat : BOOLEAN, nested : SUBSET ResourceKeys]
GoodJobType == [kind |-> "fits", flat |-> TRUE, nested |-> ResourceKeys]
File(head, a, s, r, j) == [
    sections |-> head.sections, api |-> head.api,
    mainStorage |-> head.storage, mainResource |-> head.resource,
    auth |-> [k \in AuthKeys |-> a], storage |-> [k \in StorageKeys |-> s],
    resource |-> [k \in ResourceKeys |-> r], jobType |-> [k \in JobTypeKeys |-> j]]
MCConfigFiles ==
    {File(h, "fits", GoodStorage, GoodResource, GoodJobType) : h \in Heads}
    \union {File(GoodHead, a, s, GoodResource, GoodJobType) : a \in EntryKinds, s \in StorageEntries}
    \union {File(GoodHead, "fits", s, r, GoodJobType) : s \in StorageEntries, r \in ResourceEntries}
    \union {File(GoodHead, "fits", GoodStorage, r, j) : r \in ResourceEntries, j \in JobTypeEntries}
=============================================================================
