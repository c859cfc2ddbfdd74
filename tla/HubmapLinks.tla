---------------------------- MODULE HubmapLinks ----------------------------
(***************************************************************************)
(* The links a request asks for in a workspace.  LocalFileSystemStorage    *)
(* takes them one by one, each checked and made in its turn;               *)
(* HubmapLocalFileSystemStorage checks all of them first, asks the HuBMAP  *)
(* service for the paths of the datasets, and makes the plain links before *)
(* those to datasets.  What is made when a later link fails, stays.        *)
(***************************************************************************)
EXTENDS Naturals, Sequences

CONSTANTS
    Names,      \* names of links
    In,         \* the name of the directory that a name is in, or "none"
    Datasets,   \* the uuids of datasets
    Known,      \* those the service knows
    MaxLinks    \* bound on the links of a request

\* A link is to a path of the request or to a dataset; dotted: its name has
\* double dots; there: the path exists.
Links == [name : Names, dataset : Datasets \union {"none"}, dotted : BOOLEAN, there : BOOLEAN]

ASSUME LinksAssumption ==
    /\ Known \subseteq Datasets /\ "none" \notin Datasets \union Names /\ MaxLinks \in Nat
    /\ In \in [Names -> Names \union {"none"}]

VARIABLES
    asked,    \* the links of the request
    storage,  \* which of the two classes
    token,    \* the request has a Globus token (in the mapping, none is found)
    linking,  \* the step, and how the request went
    todo,     \* the places in the list of links that are still to be made
    links,    \* names of the links that the request has made
    standing  \* what a link cannot replace: a directory, a dangling link

linkVars == <<asked, storage, token, linking, todo, links, standing>>

LinkSteps == {"idle", "check", "fetch", "make", "done", "refused", "failed"}

LinksTypeOK ==
    /\ asked \in Seq(Links) /\ todo \subseteq 1 .. Len(asked)
    /\ storage \in {"local", "hubmap"} /\ token \in BOOLEAN
    /\ linking \in LinkSteps
    /\ links \subseteq Names
    /\ standing \in [Names -> {"free", "directory", "dangling"}]

LinksInit ==
    /\ asked = <<>> /\ todo = {}
    /\ storage = "local" /\ token = FALSE
    /\ linking = "idle"
    /\ links = {} /\ standing = [n \in Names |-> "free"]

-----------------------------------------------------------------------------
\* A name that is empty or ends in a slash is that of a directory; a dangling
\* link is one to a path that is gone.
Contents ==
    {f \in [Names -> {"free", "directory", "dangling"}] :
        \A n \in Names : In[n] # "none" /\ f[n] # "free" => f[In[n]] = "directory"}

AskLinks ==
    /\ linking = "idle"
    /\ \E n \in 0 .. MaxLinks : asked' \in [1 .. n -> Links]
    /\ storage' \in {"local", "hubmap"} /\ token' \in BOOLEAN
    /\ linking' = IF storage' = "hubmap" THEN "check" ELSE "make"
    /\ todo' = 1 .. Len(asked') /\ standing' \in Contents
    /\ UNCHANGED links

Places == 1 .. Len(asked)
Plain(i) == asked[i].dataset = "none"
AskedDatasets == {asked[i].dataset : i \in Places} \ {"none"}

\* dataset_uuids: of two links to one dataset, the later stands for both, at
\* the place of the first.
IsLatest(i) == \A j \in Places : j > i => asked[j].dataset # asked[i].dataset
Precedes(d, e) ==
    \E i \in Places : asked[i].dataset = d /\ \A j \in Places : asked[j].dataset = e => i < j

\* The order links are made in: plain ones first, with HuBMAP.
Before(i, j) ==
    \/ (storage = "local" \/ (Plain(i) /\ Plain(j))) /\ i < j
    \/ storage = "hubmap" /\ Plain(i) /\ ~Plain(j)
    \/ storage = "hubmap" /\ ~Plain(i) /\ ~Plain(j) /\ Precedes(asked[i].dataset, asked[j].dataset)

\* Slip: names are only looked at when there are no datasets.
CheckAllDatasets ==
    /\ linking = "check"
    /\ linking' = IF AskedDatasets = {}
                  THEN (IF \E i \in Places : asked[i].dotted THEN "refused" ELSE "make")
                  ELSE IF token THEN "fetch" ELSE "refused"
    /\ todo' = {i \in Places : Plain(i) \/ IsLatest(i)}
    /\ UNCHANGED <<asked, storage, token, links, standing>>

CheckAll ==
    /\ linking = "check"
    /\ linking' = IF \E i \in Places : asked[i].dotted \/ (~Plain(i) /\ ~token) THEN "refused"
                  ELSE IF AskedDatasets # {} THEN "fetch" ELSE "make"
    /\ todo' = {i \in Places : Plain(i) \/ IsLatest(i)}
    /\ UNCHANGED <<asked, storage, token, links, standing>>

\* Slip: datasets without a path are left out, the others are linked.
FetchSome ==
    /\ linking = "fetch"
    /\ linking' = "make"
    /\ todo' = {i \in todo : asked[i].dataset \in Known \union {"none"}}
    /\ UNCHANGED <<asked, storage, token, links, standing>>

\* The service fails, or does not know one of the datasets, or answers.
Fetch ==
    /\ linking = "fetch"
    /\ \/ linking' = "refused"
       \/ AskedDatasets \subseteq Known /\ linking' = "make"
    /\ UNCHANGED <<asked, storage, token, todo, links, standing>>

\* The directory of a name may be a link: if that is to a directory, the name
\* is one in there.
Elsewhere(n) == In[n] \in links

\* What makes makedirs, os.remove and os.symlink raise.
Taken(n) == standing[n] # "free" \/ (In[n] # "none" /\ standing[In[n]] = "dangling")
InTheWay(n) == Taken(n) \/ Elsewhere(n)

WithDirectory(n) ==
    [m \in Names |-> IF m = In[n] /\ ~Elsewhere(n) /\ standing[m] = "free" THEN "directory" ELSE standing[m]]

\* create_symlink: over the file or link that has the name; the path must
\* exist.  The local class looks at this point whether a name with double dots
\* leaves the root, but in the last part of the name only.
MakeLink(i) ==
    /\ linking = "make" /\ i \in todo /\ \A j \in todo \ {i} : Before(i, j)
    /\ \/ /\ asked[i].dotted
          /\ linking' = "failed" /\ UNCHANGED <<todo, links, standing>>
       \/ /\ ~asked[i].there \/ InTheWay(asked[i].name)
          /\ linking' = "failed" /\ standing' = WithDirectory(asked[i].name)
          /\ UNCHANGED <<todo, links>>
       \/ /\ asked[i].there /\ ~Taken(asked[i].name)
          /\ links' = IF Elsewhere(asked[i].name) THEN links ELSE links \union {asked[i].name}
          /\ standing' = WithDirectory(asked[i].name)
          /\ todo' = todo \ {i} /\ UNCHANGED linking
    /\ UNCHANGED <<asked, storage, token>>

MadeAll ==
    /\ linking = "make" /\ todo = {} /\ linking' = "done"
    /\ UNCHANGED <<asked, storage, token, todo, links, standing>>

LinksNext ==
    \/ AskLinks \/ CheckAll \/ Fetch \/ MadeAll \/ \E i \in Places : MakeLink(i)

-----------------------------------------------------------------------------
(* Properties.                                                             *)

\* A HuBMAP request fails half way only for a path that does not exist, or for
\* what is in the way of a name: a directory, a dangling link, or a link where
\* the name has its directory.  A name with dots, a missing token, an unknown
\* dataset and a failing service leave the directory as it was, whatever the
\* order of the links (HubmapLocalFileSystemStorage.create_symlinks).
HubmapChecksFirst ==
    storage = "hubmap" =>
        /\ linking = "failed" => \E i \in Places : ~asked[i].there \/ InTheWay(asked[i].name)
        /\ linking = "refused" => links = {}
        /\ links # {} => \A i \in Places :
               ~asked[i].dotted /\ asked[i].dataset \in Known \union {"none"}

\* When a request is answered well, every link that it asked for is there;
\* but of two HuBMAP links to one dataset only the later is made, and what has
\* a link for its directory goes where that leads.
DoneMakesAll ==
    linking = "done" => \A i \in Places :
        \/ asked[i].name \in links \/ Elsewhere(asked[i].name)
        \/ storage = "hubmap" /\ ~Plain(i) /\ ~IsLatest(i)
=============================================================================
