--------------------------- MODULE StartupConfig ---------------------------
(***************************************************************************)
(* The configuration file: what validate_uws_config accepts, what ready()  *)
(* makes of it when the server starts, and whether a job of a configured   *)
(* type can be launched then.  The validator is not called by ready(): it  *)
(* is there for the administrator.                                         *)
(*                                                                         *)
(* Of an entry, the class and the references to other entries are          *)
(* modelled, and whether its other fields are as the schema wants them.    *)
(***************************************************************************)
CONSTANTS
    AuthKeys, StorageKeys, ResourceKeys, JobTypeKeys, \* keys of the sections
    ConfigFiles   \* the files to check

\* The class of an entry: one that has a schema, with the other fields in
\* order or not; one without a schema, such as YACJob; one that does not
\* exist; or no class at all.
EntryKinds == {"fits", "unfit", "no schema", "unknown", "missing"}
\* A reference: to a key, to one that does not exist, the empty string, none.
AuthRefs == AuthKeys \union {"dangling", "empty", "missing"}
StorageRefs == StorageKeys \union {"dangling", "empty", "missing"}

\* flat: environment_details has the fields that its schema requires;
\* nested: the resources it has an entry for.
Files == [
    sections : SUBSET {"auth", "storage", "resource", "job types", "parameters", "main"},
    api : AuthKeys \union {"dangling"},
    mainStorage : StorageKeys \union {"dangling"},
    mainResource : ResourceKeys \union {"dangling"},
    auth : [AuthKeys -> EntryKinds],
    storage : [StorageKeys -> [kind : EntryKinds, auth : AuthRefs]],
    resource : [ResourceKeys -> [kind : EntryKinds, auth : AuthRefs, storage : StorageRefs]],
    jobType : [JobTypeKeys -> [kind : EntryKinds, flat : BOOLEAN, nested : SUBSET ResourceKeys]]]

ASSUME ConfigAssumption == ConfigFiles \subseteq Files

NoFile == [sections |-> {}]

VARIABLES
    file,      \* the file, NoFile before it is read
    made,      \* the objects ready() has made
    server     \* "down", "starting", "failed", "up"; or "launched", "refused" for a job

configVars == <<file, made, server>>

StartupTypeOK ==
    /\ file \in Files \/ file = NoFile
    /\ made \in [auth : SUBSET AuthKeys, storage : SUBSET StorageKeys, resource : SUBSET ResourceKeys]
    /\ server \in {"down", "starting", "failed", "up", "launched", "refused"}

StartupInit ==
    /\ file = NoFile
    /\ made = [auth |-> {}, storage |-> {}, resource |-> {}]
    /\ server = "down"

-----------------------------------------------------------------------------
(* validate_uws_config.                                                    *)

AllSections == {"auth", "storage", "resource", "job types", "parameters", "main"}

MainErrors(f) ==
    {m \in {"api", "storage", "resource"} :
        \/ m = "api" /\ f.api \notin AuthKeys
        \/ m = "storage" /\ f.mainStorage \notin StorageKeys
        \/ m = "resource" /\ f.mainResource \notin ResourceKeys}

AuthErrors(f) == {k \in AuthKeys : f.auth[k] # "fits"}

\* A missing reference is found by the schema, which requires the field, but
\* neither the schema nor the check of references minds an empty string; the
\* check skips the entry without a class, too.
StorageErrors(f) ==
    {k \in StorageKeys : \/ f.storage[k].kind # "fits"
                         \/ f.storage[k].auth \notin AuthKeys \union {"empty"}}

\* Slip: only the entry's own fields are checked.
ResourceErrorsOwn(f) == {k \in ResourceKeys : f.resource[k].kind # "fits"}

ResourceErrors(f) ==
    {k \in ResourceKeys : \/ f.resource[k].kind # "fits"
                          \/ f.resource[k].auth \notin AuthKeys \union {"empty"}
                          \/ f.resource[k].storage \notin StorageKeys \union {"empty"}}

\* The schemas look for their fields in environment_details itself, not in
\* the entry of a resource.
JobTypeErrors(f) == {k \in JobTypeKeys : f.jobType[k].kind # "fits" \/ ~f.jobType[k].flat}

\* Without all sections, nothing else is checked.
Valid(f) ==
    /\ f.sections = AllSections
    /\ MainErrors(f) = {} /\ AuthErrors(f) = {} /\ StorageErrors(f) = {}
    /\ ResourceErrors(f) = {} /\ JobTypeErrors(f) = {}

-----------------------------------------------------------------------------
(* ready().                                                                *)

ReadFile ==
    /\ server = "down" /\ file' \in ConfigFiles
    /\ server' = IF AllSections \ {"main"} \subseteq file'.sections
                 THEN "starting" ELSE "failed"
    /\ UNCHANGED made

\* generate_controller_object: the constructor of a class may need a field
\* that its entry lacks.
MakeOrFail(section, k, kind, resolved) ==
    /\ server = "starting" /\ UNCHANGED file
    /\ \/ /\ kind \in {"fits", "unfit", "no schema"} /\ resolved
          /\ made' = [made EXCEPT ![section] = @ \union {k}] /\ UNCHANGED server
       \/ /\ kind # "fits" \/ ~resolved
          /\ server' = "failed" /\ UNCHANGED made

MakeAuth(k) == k \notin made.auth /\ MakeOrFail("auth", k, file.auth[k], TRUE)

MakeStorage(k) ==
    /\ made.auth = AuthKeys /\ k \notin made.storage
    /\ MakeOrFail("storage", k, file.storage[k].kind, file.storage[k].auth \in made.auth)

MakeResource(k) ==
    /\ made.auth = AuthKeys /\ made.storage = StorageKeys /\ k \notin made.resource
    /\ MakeOrFail("resource", k, file.resource[k].kind,
                  file.resource[k].auth \in made.auth /\ file.resource[k].storage \in made.storage)

MakeMain ==
    /\ server = "starting"
    /\ made.auth = AuthKeys /\ made.storage = StorageKeys /\ made.resource = ResourceKeys
    /\ server' = IF /\ "main" \in file.sections
                    /\ file.api \in made.auth /\ file.mainStorage \in made.storage
                    /\ file.mainResource \in made.resource
                 THEN "up" ELSE "failed"
    /\ UNCHANGED <<file, made>>

\* WorkspaceView.put, "start", and each poll of the job: the class of the
\* job's type, and its entry for the main resource.
LaunchType(k) ==
    /\ server = "up"
    /\ server' = IF file.jobType[k].kind \in {"fits", "unfit", "no schema"}
                    /\ file.mainResource \in file.jobType[k].nested
                 THEN "launched" ELSE "refused"
    /\ UNCHANGED <<file, made>>

StartupNext ==
    \/ ReadFile
    \/ \E k \in AuthKeys : MakeAuth(k)
    \/ \E k \in StorageKeys : MakeStorage(k)
    \/ \E k \in ResourceKeys : MakeResource(k)
    \/ MakeMain
    \/ \E k \in JobTypeKeys : LaunchType(k)

-----------------------------------------------------------------------------
(* Properties.                                                             *)

NamesNothing(f) ==
    \/ \E k \in StorageKeys : f.storage[k].auth = "empty"
    \/ \E k \in ResourceKeys : "empty" \in {f.resource[k].auth, f.resource[k].storage}

\* With a file that the validator accepts, and in which no reference is the
\* empty string, the server starts: each object that ready() needs for the
\* next has been made (JSONSchemaConfigValidator,
\* UserWorkspacesServerConfig.ready).
ValidStarts == server = "failed" => ~Valid(file) \/ NamesNothing(file)

\* "Environment configuration per resource (resource name as key, config as
\* value)": with a valid file, jobs of each type can be launched.
ValidLaunches == server = "refused" => ~Valid(file)
=============================================================================
