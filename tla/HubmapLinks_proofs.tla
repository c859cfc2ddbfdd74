-------------------------- MODULE HubmapLinks_proofs --------------------------
(***************************************************************************)
(* Proofs about the links of a request, for any names, datasets and number *)
(* of links: LinksInit and the steps of LinksNext establish and keep the   *)
(* type and the inductive invariant LinksInv.                              *)
(***************************************************************************)
EXTENDS HubmapLinks, TLAPS

-----------------------------------------------------------------------------
(* The invariant.                                                          *)

\* Nothing is made before the checks are over.
MadeLate == linking \in {"idle", "check", "fetch", "refused"} => links = {}

\* With HuBMAP, what was checked holds from then on.
Undotted == \A i \in Places : ~asked[i].dotted
AllKnown == \A i \in Places : asked[i].dataset \in Known \union {"none"}
CheckedFirst ==
  storage = "hubmap" =>
    /\ linking \in {"fetch", "make", "done", "failed"} => Undotted
    /\ linking \in {"make", "done", "failed"} => AllKnown
    /\ linking = "failed" => \E i \in Places : ~asked[i].there \/ InTheWay(asked[i].name)

\* A link is made or still to be made, or a later one stands for it.
Accounted ==
  \A i \in Places :
    \/ asked[i].name \in links \/ Elsewhere(asked[i].name)
    \/ i \in todo
    \/ storage = "hubmap" /\ ~Plain(i) /\ ~IsLatest(i)

LinksInv ==
  /\ LinksTypeOK
  /\ storage = "local" => linking \notin {"check", "fetch", "refused"}
  /\ MadeLate /\ CheckedFirst
  /\ linking \in {"fetch", "make", "done"} => Accounted
  /\ linking = "done" => todo = {}

-----------------------------------------------------------------------------
LEMMA LinksInitInv == LinksInit => LinksInv
  <1>. SUFFICES ASSUME LinksInit PROVE LinksInv
    OBVIOUS
  <1>1. asked = <<>> /\ asked \in Seq(Links) /\ todo = {} /\ Len(asked) = 0
    BY DEF LinksInit
  <1>2. Places = {}
    BY <1>1 DEF Places
  <1>. QED
    BY <1>1, <1>2, LinksAssumption DEF LinksInit, LinksInv, LinksTypeOK, LinkSteps, MadeLate, CheckedFirst, Accounted

\* What is said of the links that were asked for stays true while they do.
LEMMA AskedStays ==
  ASSUME UNCHANGED <<asked, storage>>
  PROVE  /\ Places' = Places /\ Undotted' = Undotted /\ AllKnown' = AllKnown
         /\ AskedDatasets' = AskedDatasets
         /\ \A i \in Places : (Plain(i)' <=> Plain(i)) /\ (IsLatest(i)' <=> IsLatest(i))
  BY DEF Places, Undotted, AllKnown, AskedDatasets, Plain, IsLatest

\* What is in the way of a name stays there.
LEMMA WayStays ==
  ASSUME UNCHANGED <<links, standing>>
  PROVE  \A n : (InTheWay(n)' <=> InTheWay(n)) /\ (Elsewhere(n)' <=> Elsewhere(n))
  BY DEF InTheWay, Taken, Elsewhere

LEMMA AskInv == LinksInv /\ AskLinks => LinksInv'
  <1>. SUFFICES ASSUME LinksInv, AskLinks PROVE LinksInv'
    OBVIOUS
  <1>1. asked' \in Seq(Links) /\ todo' = 1 .. Len(asked')
    BY LinksAssumption DEF AskLinks
  <1>2. links' = {} /\ storage' \in {"local", "hubmap"} /\ token' \in BOOLEAN
    BY DEF AskLinks, LinksInv, MadeLate
  <1>3. linking' = IF storage' = "hubmap" THEN "check" ELSE "make"
    BY DEF AskLinks
  <1>4. Accounted'
    BY <1>1 DEF Accounted, Places
  <1>5. standing' \in [Names -> {"free", "directory", "dangling"}]
    BY DEF AskLinks, Contents
  <1>. QED
    BY <1>1, <1>2, <1>3, <1>4, <1>5 DEF LinksInv, LinksTypeOK, LinkSteps, MadeLate, CheckedFirst

LEMMA CheckInv == LinksInv /\ CheckAll => LinksInv'
  <1>. SUFFICES ASSUME LinksInv, CheckAll PROVE LinksInv'
    OBVIOUS
  <1>1. /\ linking = "check" /\ UNCHANGED <<asked, storage, token, links, standing>>
        /\ todo' = {i \in Places : Plain(i) \/ IsLatest(i)}
        /\ linking' \in {"refused", "fetch", "make"}
        /\ linking' # "refused" => \A i \in Places : ~asked[i].dotted
        /\ linking' = "make" => AskedDatasets = {}
    BY DEF CheckAll
  <1>2. storage = "hubmap" /\ links = {}
    BY <1>1 DEF LinksInv, LinksTypeOK, MadeLate
  <1>3. AskedDatasets = {} => AllKnown
    BY DEF AskedDatasets, AllKnown
  <1>4. CheckedFirst'
    BY <1>1, <1>3, AskedStays DEF CheckedFirst, Undotted
  <1>5. Accounted'
    BY <1>1, <1>2, AskedStays DEF Accounted
  <1>6. LinksTypeOK'
    BY <1>1 DEF LinksInv, LinksTypeOK, LinkSteps, Places
  <1>. QED
    BY <1>1, <1>2, <1>4, <1>5, <1>6 DEF LinksInv, MadeLate

LEMMA FetchInv == LinksInv /\ Fetch => LinksInv'
  <1>. SUFFICES ASSUME LinksInv, Fetch PROVE LinksInv'
    OBVIOUS
  <1>1. /\ linking = "fetch" /\ UNCHANGED <<asked, storage, token, todo, links, standing>>
        /\ linking' \in {"refused", "make"}
        /\ linking' = "make" => AskedDatasets \subseteq Known
    BY DEF Fetch
  <1>2. storage = "hubmap" /\ links = {} /\ Undotted
    BY <1>1 DEF LinksInv, LinksTypeOK, MadeLate, CheckedFirst
  <1>3. AskedDatasets \subseteq Known => AllKnown
    BY DEF AskedDatasets, AllKnown
  <1>4. Accounted'
    BY <1>1, AskedStays, WayStays DEF Accounted, LinksInv
  <1>. QED
    BY <1>1, <1>2, <1>3, <1>4, AskedStays DEF LinksInv, LinksTypeOK, LinkSteps, MadeLate, CheckedFirst

LEMMA MakeInv ==
  ASSUME LinksInv, NEW i \in Places, MakeLink(i)
  PROVE  LinksInv'
  <1>1. linking = "make" /\ i \in todo /\ UNCHANGED <<asked, storage, token>>
    BY DEF MakeLink
  <1>2. asked[i] \in Links
    BY DEF LinksInv, LinksTypeOK, Places
  <1>3. standing' \in [Names -> {"free", "directory", "dangling"}]
    BY DEF MakeLink, WithDirectory, LinksInv, LinksTypeOK
  <1>4. CASE linking' = "failed" /\ UNCHANGED <<todo, links>>
    <2>1. \/ asked[i].dotted
          \/ (~asked[i].there \/ InTheWay(asked[i].name)) /\ standing' = WithDirectory(asked[i].name)
      BY <1>1, <1>4 DEF MakeLink
    <2>2. storage = "hubmap" => ~asked[i].dotted
      BY <1>1 DEF LinksInv, CheckedFirst, Undotted
    <2>3. ASSUME InTheWay(asked[i].name), standing' = WithDirectory(asked[i].name)
          PROVE  InTheWay(asked[i].name)'
      <3>1. asked[i].name \in Names
        BY <1>2 DEF Links
      <3>2. \A m \in Names : standing[m] # "free" => standing'[m] = standing[m]
        BY <2>3 DEF WithDirectory
      <3>3. In[asked[i].name] # "none" => In[asked[i].name] \in Names
        BY <3>1, LinksAssumption
      <3>. QED
        BY <1>1, <1>4, <2>3, <3>1, <3>2, <3>3 DEF InTheWay, Taken, Elsewhere
    <2>4. storage = "hubmap" => \E j \in Places : ~asked[j].there \/ InTheWay(asked[j].name)'
      BY <2>1, <2>2, <2>3
    <2>5. CheckedFirst'
      BY <1>1, <1>4, <2>4, AskedStays DEF LinksInv, CheckedFirst
    <2>. QED
      BY <1>1, <1>3, <1>4, <2>5 DEF LinksInv, LinksTypeOK, LinkSteps, MadeLate
  <1>5. CASE linking' = linking
    <2>1. /\ links' = IF Elsewhere(asked[i].name) THEN links ELSE links \union {asked[i].name}
          /\ todo' = todo \ {i}
      BY <1>1, <1>5 DEF MakeLink
    <2>2. Accounted'
      BY <1>1, <2>1, AskedStays DEF LinksInv, Accounted, Elsewhere
    <2>3. LinksTypeOK'
      BY <1>1, <1>2, <1>3, <1>5, <2>1 DEF LinksInv, LinksTypeOK, LinkSteps, Links
    <2>. QED
      BY <1>1, <1>5, <2>1, <2>2, <2>3, AskedStays DEF LinksInv, MadeLate, CheckedFirst
  <1>. QED
    BY <1>4, <1>5 DEF MakeLink

LEMMA LinksInvSteps == LinksInv /\ [LinksNext]_linkVars => LinksInv'
  <1>. SUFFICES ASSUME LinksInv, [LinksNext]_linkVars PROVE LinksInv'
    OBVIOUS
  <1>1. ASSUME UNCHANGED <<asked, storage, token, todo, links, standing>>,
               linking' = linking \/ (linking = "make" /\ linking' = "done" /\ todo = {})
        PROVE  LinksInv'
    <2>1. linking' \in {"fetch", "make", "done"} => Accounted'
      BY <1>1, AskedStays, WayStays DEF LinksInv, Accounted
    <2>2. CheckedFirst'
      BY <1>1, AskedStays, WayStays DEF LinksInv, CheckedFirst
    <2>3. LinksTypeOK'
      BY <1>1 DEF LinksInv, LinksTypeOK, LinkSteps
    <2>. QED
      BY <1>1, <2>1, <2>2, <2>3 DEF LinksInv, MadeLate
  <1>2. UNCHANGED linkVars \/ MadeAll => LinksInv'
    BY <1>1 DEF MadeAll, linkVars
  <1>. QED
    BY <1>2, AskInv, CheckInv, FetchInv, MakeInv DEF LinksNext

LEMMA LinksInvImplies == LinksInv => HubmapChecksFirst /\ DoneMakesAll
  <1>1. LinksInv => DoneMakesAll
    BY DEF LinksInv, Accounted, DoneMakesAll
  <1>2. LinksInv => HubmapChecksFirst
    <2>. SUFFICES ASSUME LinksInv, storage = "hubmap", links # {} PROVE Undotted /\ AllKnown
      BY DEF LinksInv, HubmapChecksFirst, CheckedFirst, MadeLate, Undotted, AllKnown
    <2>1. linking \in {"make", "done", "failed"}
      BY DEF LinksInv, LinksTypeOK, LinkSteps, MadeLate
    <2>. QED
      BY <2>1 DEF LinksInv, CheckedFirst
  <1>. QED
    BY <1>1, <1>2
=============================================================================
