-------------------------- MODULE ImageUpdatesProofs --------------------------
(***************************************************************************)
(* Theorems about ImageUpdates, for any number of digests and of calls.    *)
(***************************************************************************)
EXTENDS ImageUpdates, FiniteSetTheorems, WellFoundedInduction, TLAPS

(***************************************************************************)
(* The invariants.                                                         *)
(***************************************************************************)
Checking == {"discover", "token", "manifest", "answered"}
Scanning == {"inspect", "found", "stored"}
Labels == {"idle", "new", "pull", "up", "done"} \cup Scanning \cup Checking

\* What docker has is of its kind: only a manifest list has platforms, and what
\* was pulled can be counted.
Docker == (byPlatform => index) /\ IsFiniteSet(pulled)

\* Only an install pulls and starts.
Placed == \A t \in Tasks : pc[t] \in {"new", "pull", "up"} => t \in Installs

\* The container runs the image of its tag, unless an install has pulled it and
\* not started it.
RunsImage == running = image \/ halfway \/ \E t \in Installs : pc[t] = "up"

\* A calm scan has read what the server has, has stored it, and asks with it,
\* to compare it with what is published; and a calm install has pulled that.
CalmCheck(t) ==
    /\ pc[t] = "found" => found[t] = LocalDigest
    /\ pc[t] = "stored" => known = LocalDigest
    /\ pc[t] \in Checking => asked[t] = LocalDigest /\ answer[t] \in {Unknown, published}
CalmInstall(t) ==
    t \in Installs /\ pc[t] \in Checking \cup Scanning \cup {"up"} =>
        image = content[published] /\ published \in pulled
Calm == \A t \in calm : CalmCheck(t) /\ CalmInstall(t)

\* A status that is trusted says how these two compare.
Trust == trusted => status \in {NoStatus, Result(LocalDigest, published)}

ImageInv == TypeOK /\ Docker /\ Placed /\ RunsImage /\ Calm /\ Trust

(***************************************************************************)
(* What the operators are.                                                 *)
(***************************************************************************)
LEMMA LeastElement ==
    ASSUME NEW S \in SUBSET Nat, S # {}
    PROVE  Min(S) \in S /\ \A d \in S : Min(S) <= d
<1>1. PICK x \in S : \A y \in S : ~(<<y, x>> \in OpToRel(<, Nat))
  BY NatLessThanWellFounded, WFMin
<1>2. ASSUME NEW y \in S PROVE ~(y < x)
  <2>1. <<y, x>> \notin OpToRel(<, Nat) /\ <<y, x>> \in Nat \X Nat
    BY <1>1
  <2> QED BY <2>1, Zenon DEF OpToRel
<1>3. \A y \in S : x <= y
  BY <1>2
<1> QED BY <1>3 DEF Min

LEMMA TwoDigests ==
    ASSUME NEW S, IsFiniteSet(S), NEW x \in S, NEW y \in S, x # y
    PROVE  Cardinality(S) > 1
<1>1. IsFiniteSet({x}) /\ Cardinality({x}) = 1
  BY FS_Singleton
<1>2. IsFiniteSet({x} \cup {y}) /\ Cardinality({x} \cup {y}) = 2
  <2>1. y \notin {x} /\ 1 + 1 = 2
    OBVIOUS
  <2> QED BY <1>1, <2>1, FS_AddElement
<1>3. Cardinality({x} \cup {y}) <= Cardinality(S)
  <2>1. {x} \cup {y} \in SUBSET S
    OBVIOUS
  <2> QED BY <2>1, FS_Subset
<1> QED BY <1>2, <1>3, FS_CardinalityType

\* The digest that is read of a pulled image is one of its own.
LEMMA LocalIsOwn ==
    ASSUME TypeOK
    PROVE  /\ LocalDigest \in AllDigests \cup {Unknown}
           /\ byPlatform => LocalDigest = OfManifest(image)
           /\ ~byPlatform /\ RepoDigests = {} => LocalDigest = Unknown
           /\ ~byPlatform /\ RepoDigests # {} =>
                 \E d \in RepoDigests : LocalDigest = OfPush(d) /\ d = Min(RepoDigests)
<1>1. RepoDigests \subseteq Digests /\ RepoDigests \subseteq Nat
  BY DigestAssumption DEF TypeOK, RepoDigests
<1>2. RepoDigests # {} => Min(RepoDigests) \in RepoDigests
  BY <1>1, LeastElement
<1>3. image \in Digests
  BY DEF TypeOK
<1> QED BY <1>1, <1>2, <1>3 DEF LocalDigest, AllDigests

Statuses == [checkable : BOOLEAN, update : BOOLEAN \cup {Unknown},
             latest : AllDigests \cup {Unknown}]

LEMMA ResultType ==
    ASSUME NEW local, NEW remote \in Digests \cup {Unknown}
    PROVE  Result(local, remote) \in Statuses /\ NoStatus \in Statuses
<1>1. NoStatus \in Statuses
  BY DEF NoStatus, Statuses
<1>2. ASSUME remote # Unknown
      PROVE  [checkable |-> TRUE, update |-> ~SameImage(local, remote),
              latest |-> OfPush(remote)] \in Statuses
  <2>1. OfPush(remote) \in AllDigests /\ (~SameImage(local, remote)) \in BOOLEAN
    BY <1>2 DEF AllDigests
  <2> QED BY <2>1 DEF Statuses
<1> QED BY <1>1, <1>2 DEF Result

\* An answer says that the image is the one published exactly if it has its
\* manifest, or, without the platform's digest, if it is listed first.
LEMMA SameIfPublished ==
    ASSUME TypeOK, Docker, LocalDigest # Unknown
    PROVE  /\ SameImage(LocalDigest, published) => image = content[published]
           /\ ~SameImage(LocalDigest, published) =>
                 IF byPlatform THEN image # content[published]
                 ELSE published \notin RepoDigests \/ Cardinality(RepoDigests) > 1
<1>1. \A m, d : OfManifest(m) # OfPush(d) /\ (OfPush(m) = OfPush(d) <=> m = d)
                /\ (OfManifest(m) = OfManifest(d) <=> m = d)
  <2>1. \A m, d : /\ OfManifest(m).of = "manifest" /\ OfPush(d).of = "push"
                  /\ OfManifest(m).name = m /\ OfPush(d).name = d
    BY DEF OfManifest, OfPush
  <2> QED BY <2>1
<1>2. CASE byPlatform
  <2>1. LocalDigest = OfManifest(image) /\ index
    BY <1>2, LocalIsOwn DEF Docker
  <2>2. SameImage(LocalDigest, published) <=> image = content[published]
    BY <1>1, <2>1 DEF SameImage
  <2> QED BY <1>2, <2>2
<1>3. CASE ~byPlatform
  <2>1. PICK d \in RepoDigests : LocalDigest = OfPush(d)
    BY <1>3, LocalIsOwn
  <2>2. SameImage(LocalDigest, published) <=> d = published
    BY <1>1, <2>1 DEF SameImage
  <2>3. content[d] = image /\ IsFiniteSet(RepoDigests)
    BY FS_Subset DEF RepoDigests, Docker
  <2> QED BY <1>3, <2>2, <2>3, TwoDigests
<1> QED BY <1>2, <1>3

(***************************************************************************)
(* Types.                                                                  *)
(***************************************************************************)
Flags == {index, byPlatform, hub, pinned, installing, halfway, trusted}

LEMMA ImageInit == Init => ImageInv
<1> SUFFICES ASSUME Init PROVE ImageInv
  OBVIOUS
<1>1. /\ index \in BOOLEAN /\ byPlatform \in BOOLEAN /\ hub \in BOOLEAN /\ pinned \in BOOLEAN
      /\ installing \in BOOLEAN /\ halfway \in BOOLEAN /\ trusted \in BOOLEAN
      /\ byPlatform => index
  <2>1. /\ pinned \in BOOLEAN
        /\ index \in {FALSE, ~pinned} /\ hub \in {FALSE, ~pinned} /\ byPlatform \in {FALSE, index}
        /\ installing = FALSE /\ halfway = FALSE /\ trusted = FALSE
    BY Zenon DEF Init
  <2>2. (~pinned) \in BOOLEAN
    OBVIOUS
  <2>3. (index = FALSE \/ index = ~pinned) /\ (hub = FALSE \/ hub = ~pinned)
    BY <2>1, Zenon
  <2>4. index \in BOOLEAN /\ hub \in BOOLEAN
    BY <2>2, <2>3, Zenon
  <2>5. byPlatform = FALSE \/ byPlatform = index
    BY <2>1, Zenon
  <2>6. byPlatform \in BOOLEAN
    BY <2>4, <2>5, Zenon
  <2>7. byPlatform => index
    BY <2>5, Zenon
  <2> QED BY <2>1, <2>4, <2>6, <2>7
<1>2. /\ content \in [Digests -> Digests] /\ published \in Digests
      /\ image \in Digests /\ running = image
      /\ pulled \subseteq Digests /\ IsFiniteSet(pulled)
  <2>1. /\ content \in [Digests -> Digests] /\ published \in Digests
        /\ image = content[published] /\ running = image
        /\ pulled \in {{}, {published}}
    BY Zenon DEF Init
  <2>2. IsFiniteSet({}) /\ IsFiniteSet({published})
    BY FS_EmptySet, FS_Singleton
  <2> QED BY <2>1, <2>2
<1>3. /\ \A t \in Tasks : pc[t] = IF t = Poll THEN "idle"
                                  ELSE IF t \in Installs THEN "new" ELSE "inspect"
      /\ pc \in [Tasks -> Labels]
      /\ asked \in [Tasks -> AllDigests \cup {Unknown}]
      /\ answer \in [Tasks -> Digests \cup {Unknown}]
      /\ calm = {} /\ trusted = FALSE
  <2>1. pc = [t \in Tasks |-> CASE t = Poll -> "idle" [] t \in Installs -> "new"
                                   [] OTHER -> "inspect"]
    BY DEF Init
  <2>2. \A t \in Tasks : pc[t] = IF t = Poll THEN "idle"
                                 ELSE IF t \in Installs THEN "new" ELSE "inspect"
    BY <2>1, ImageTaskAssumption DEF Calls
  <2>3. pc \in [Tasks -> Labels]
    BY <2>1, <2>2 DEF Labels, Scanning
  <2> QED BY <2>2, <2>3 DEF Init
\* What is known is read with the types of the rest.
<1>4. known \in AllDigests \cup {Unknown} /\ found \in [Tasks -> AllDigests \cup {Unknown}]
  <2>1. RepoDigests \subseteq Digests /\ RepoDigests \subseteq Nat
    BY <1>2, DigestAssumption DEF RepoDigests
  <2>2. RepoDigests # {} => Min(RepoDigests) \in Digests
    BY <2>1, LeastElement
  <2>3. known = LocalDigest /\ found = [t \in Tasks |-> Unknown]
    BY DEF Init
  <2> QED BY <1>2, <2>2, <2>3 DEF LocalDigest, AllDigests
<1>5. status \in Statuses
  BY DEF Init, NoStatus, Statuses
<1>6. TypeOK
  BY <1>1, <1>2, <1>3, <1>4, <1>5 DEF TypeOK, Statuses, Labels, Scanning, Checking
<1>7. Placed
  <2>1. ASSUME NEW t \in Tasks, t \notin Installs PROVE pc[t] \in {"idle", "inspect"}
    BY <1>3, <2>1
  <2> QED BY <2>1 DEF Placed
<1>8. Calm /\ Trust /\ RunsImage /\ Docker
  BY <1>1, <1>2, <1>3 DEF Calm, Trust, RunsImage, Docker
<1> QED BY <1>6, <1>7, <1>8 DEF ImageInv

LEMMA ImageTypeStep ==
    TypeOK /\ Docker /\ Placed /\ [Next]_vars => TypeOK' /\ Docker' /\ Placed'
<1> SUFFICES ASSUME TypeOK, Docker, Placed, [Next]_vars PROVE TypeOK' /\ Docker' /\ Placed'
  OBVIOUS
<1> DEFINE Local == AllDigests \cup {Unknown}
           Answers == Digests \cup {Unknown}
\* The types in terms of what the steps change.
<1>1. ASSUME UNCHANGED setting, published' \in Digests, image' \in Digests,
             running' \in Digests, pulled' \subseteq Digests, IsFiniteSet(pulled'),
             found' \in [Tasks -> Local], known' \in Local,
             status' \in Statuses, installing' \in BOOLEAN,
             pc' \in [Tasks -> Labels], asked' \in [Tasks -> Local],
             answer' \in [Tasks -> Answers], halfway' \in BOOLEAN, calm' \subseteq Tasks,
             trusted' \in BOOLEAN,
             \A t \in Tasks : pc'[t] \in {"new", "pull", "up"} => t \in Installs
      PROVE  TypeOK' /\ Docker' /\ Placed'
  <2>1. TypeOK'
    BY <1>1 DEF TypeOK, setting, Statuses, Labels, Scanning, Checking
  <2>2. Docker' /\ Placed'
    BY <1>1 DEF Docker, Placed, setting
  <2> QED BY <2>1, <2>2
<1>2. /\ published \in Digests /\ image \in Digests /\ content \in [Digests -> Digests]
      /\ running \in Digests /\ pulled \subseteq Digests /\ IsFiniteSet(pulled)
      /\ found \in [Tasks -> Local] /\ known \in Local
      /\ status \in Statuses /\ installing \in BOOLEAN
      /\ pc \in [Tasks -> Labels] /\ asked \in [Tasks -> Local]
      /\ answer \in [Tasks -> Answers] /\ halfway \in BOOLEAN /\ calm \subseteq Tasks
      /\ trusted \in BOOLEAN
      /\ \A t \in Tasks : pc[t] \in {"new", "pull", "up"} => t \in Installs
  BY DEF TypeOK, Docker, Placed, Statuses, Labels, Scanning, Checking
<1> HIDE DEF Local, Answers
<1>3. ASSUME NEW t \in Tasks, NEW label \in Labels, Goto(t, label),
             label \in {"new", "pull", "up"} => t \in Installs
      PROVE  /\ pc' \in [Tasks -> Labels]
             /\ \A u \in Tasks : pc'[u] \in {"new", "pull", "up"} => u \in Installs
  BY <1>2, <1>3 DEF Goto
<1>4. ASSUME NEW t \in Tasks, BeginCheck(t)
      PROVE  /\ pc' \in [Tasks -> Labels] /\ asked' \in [Tasks -> Local]
             /\ answer' \in [Tasks -> Answers]
             /\ \A u \in Tasks : pc'[u] \in {"new", "pull", "up"} => u \in Installs
  <2>1. \E label \in Checking : Goto(t, label)
    BY <1>4 DEF BeginCheck, Checking
  <2>2. PICK label \in Checking : Goto(t, label)
    BY <2>1
  <2>3. label \in Labels /\ label \notin {"new", "pull", "up"}
    BY <2>2 DEF Labels, Scanning, Checking
  <2> QED BY <1>2, <1>3, <1>4, <2>2, <2>3 DEF BeginCheck, Answers
<1>5. ASSUME NEW t \in Tasks, Changed(t) PROVE calm' \subseteq Tasks /\ trusted' \in BOOLEAN
  BY <1>2, <1>5 DEF Changed
<1>6. Fetched => image' \in Digests /\ pulled' \subseteq Digests /\ IsFiniteSet(pulled')
  BY <1>2, FS_AddElement DEF Fetched
<1>7. LocalDigest \in Local /\ Unknown \in Local
  BY LocalIsOwn DEF Local
<1>8. CASE StartPoll
  <2>1. Poll \in Tasks /\ BeginCheck(Poll) /\ calm' \subseteq Tasks
    BY <1>2, <1>8 DEF StartPoll, Tasks
  <2> QED BY <1>1, <1>2, <1>4, <1>8, <2>1 DEF StartPoll, server
<1>9. ASSUME NEW t \in Tasks, Check(t) PROVE TypeOK' /\ Docker' /\ Placed'
  <2>1. CASE Query(t)
    <3>1. PICK label \in {"token", "manifest", "answered"} : Goto(t, label)
      BY <2>1 DEF Query
    <3>2. label \in Labels /\ label \notin {"new", "pull", "up"}
      BY <3>1 DEF Labels, Scanning, Checking
    <3>3. answer' \in [Tasks -> Answers]
      BY <1>2, <2>1 DEF Query, Answers
    <3> QED BY <1>1, <1>2, <1>3, <2>1, <3>1, <3>2, <3>3 DEF Query, server
  <2>2. CASE QueryFails(t)
    BY <1>1, <1>2, <1>3, <2>2 DEF QueryFails, server, Labels, Scanning, Checking
  <2>3. CASE ApplyAnswer(t)
    <3>1. PICK label \in {"idle", "done"} : Goto(t, label)
      BY <2>3 DEF ApplyAnswer
    <3>2. label \in Labels /\ label \notin {"new", "pull", "up"}
      BY <3>1 DEF Labels
    <3>3. status' \in Statuses
      <4>1. answer[t] \in Digests \cup {Unknown}
        BY <1>2 DEF Answers
      <4> QED BY <2>3, <4>1, ResultType DEF ApplyAnswer
    <3>4. /\ asked' \in [Tasks -> Local] /\ answer' \in [Tasks -> Answers]
          /\ calm' \subseteq Tasks /\ trusted' \in BOOLEAN
      BY <1>2, <1>7, <2>3 DEF ApplyAnswer, Answers
    <3> QED BY <1>1, <1>2, <1>3, <2>3, <3>1, <3>2, <3>3, <3>4 DEF ApplyAnswer, server
  <2> QED BY <1>9, <2>1, <2>2, <2>3 DEF Check
<1>10. ASSUME NEW t \in Calls, Inspect(t) \/ Store(t) \/ Ask(t)
       PROVE  TypeOK' /\ Docker' /\ Placed'
  <2>0. t \in Tasks
    BY DEF Tasks
  <2>1. CASE Inspect(t)
    <3>1. PICK digest \in {LocalDigest, Unknown} :
            /\ found' = [found EXCEPT ![t] = digest]
            /\ calm' = IF digest # LocalDigest THEN calm \ {t}
                       ELSE IF t \in Rescans THEN calm \cup {t} ELSE calm
      BY <2>1 DEF Inspect
    <3>2. found' \in [Tasks -> Local]
      BY <1>2, <1>7, <3>1
    <3>3. calm' \subseteq Tasks
      BY <1>2, <2>0, <3>1
    <3>4. "found" \in Labels /\ Goto(t, "found")
      BY <2>1 DEF Inspect, Labels, Scanning
    <3> QED BY <1>1, <1>2, <1>3, <2>0, <2>1, <3>2, <3>3, <3>4 DEF Inspect, server
  <2>2. CASE Store(t)
    <3>1. known' \in Local /\ found' \in [Tasks -> Local] /\ calm' \subseteq Tasks
      BY <1>2, <1>7, <2>0, <2>2 DEF Store, Stored
    <3>2. "stored" \in Labels /\ Goto(t, "stored")
      BY <2>2 DEF Store, Labels, Scanning
    <3> QED BY <1>1, <1>2, <1>3, <2>0, <2>2, <3>1, <3>2 DEF Store, server
  <2>3. CASE Ask(t)
    BY <1>1, <1>2, <1>4, <2>0, <2>3 DEF Ask, server
  <2> QED BY <1>10, <2>1, <2>2, <2>3
<1>11. ASSUME NEW t \in Calls, FailScan(t) \/ BeginInstall(t) \/ Pull(t) \/ Up(t) \/ FailInstall(t)
       PROVE  TypeOK' /\ Docker' /\ Placed'
  <2>1. t \in Tasks /\ (pc[t] \in {"new", "pull", "up"} => t \in Installs)
    BY <1>2 DEF Tasks
  <2>2. CASE FailScan(t)
    <3>1. found' \in [Tasks -> Local]
      BY <1>2, <1>7, <2>2 DEF FailScan
    <3> QED BY <1>1, <1>2, <1>3, <2>1, <2>2, <3>1 DEF FailScan, server, Labels
  <2>3. CASE BeginInstall(t)
    BY <1>1, <1>2, <1>3, <2>1, <2>3 DEF BeginInstall, server, Labels
  <2>4. CASE Pull(t)
    BY <1>1, <1>2, <1>3, <1>5, <1>6, <2>1, <2>4 DEF Pull, Labels
  <2>5. CASE Up(t)
    BY <1>1, <1>2, <1>3, <2>1, <2>5 DEF Up, Started, Labels, Scanning
  <2>6. CASE FailInstall(t)
    <3>1. /\ image' \in Digests /\ pulled' \subseteq Digests /\ IsFiniteSet(pulled')
          /\ running' \in Digests
      BY <1>2, <1>6, <2>6 DEF FailInstall, Started
    <3> QED BY <1>1, <1>2, <1>3, <1>5, <2>1, <2>6, <3>1 DEF FailInstall, Labels
  <2> QED BY <1>11, <2>2, <2>3, <2>4, <2>5, <2>6
<1>12. CASE Prune
  <2>1. pulled' \subseteq Digests /\ IsFiniteSet(pulled')
    BY <1>2, <1>12, FS_Subset DEF Prune
  <2> QED BY <1>1, <1>2, <1>12, <2>1 DEF Prune
<1>13. CASE Push
  BY <1>1, <1>2, <1>13 DEF Push, server
<1>14. CASE UNCHANGED vars
  BY <1>1, <1>2, <1>14 DEF vars, setting, server
<1> QED BY <1>8, <1>9, <1>10, <1>11, <1>12, <1>13, <1>14 DEF Next, Tasks

\* The variables keep their types.
THEOREM ImageTyping == Spec => []TypeOK
<1> QED BY ImageInit, ImageTypeStep, PTL DEF Spec, ImageInv

(***************************************************************************)
(* What the checks compare.                                                *)
(***************************************************************************)
LEMMA RunsImageStep ==
    ASSUME TypeOK, Placed, RunsImage, [Next]_vars PROVE RunsImage'
<1>0. pc \in [Tasks -> Labels] /\ \A t \in Calls : t \in Tasks
  BY DEF TypeOK, Labels, Scanning, Checking, Tasks
<1>1. ASSUME UNCHANGED <<image, running, halfway>>,
             \A t \in Installs : pc[t] = "up" => pc'[t] = "up"
      PROVE  RunsImage'
  BY <1>1 DEF RunsImage
<1>2. ASSUME UNCHANGED <<image, running, halfway>>, NEW t \in Tasks, pc[t] # "up",
             NEW label, Goto(t, label)
      PROVE  RunsImage'
  <2>1. \A u \in Installs : pc[u] = "up" => pc'[u] = "up"
    BY <1>0, <1>2 DEF Goto, Calls
  <2> QED BY <1>1, <1>2, <2>1
<1>3. CASE StartPoll
  <2>1. pc[Poll] = "idle" /\ Poll \in Tasks /\ UNCHANGED <<image, running, halfway>>
    BY <1>3 DEF StartPoll, server, Tasks
  <2>2. \E label : Goto(Poll, label)
    BY <1>3 DEF StartPoll, BeginCheck
  <2> QED BY <1>2, <2>1, <2>2
<1>4. ASSUME NEW t \in Tasks, Check(t) PROVE RunsImage'
  <2>1. pc[t] # "up" /\ UNCHANGED <<image, running, halfway>> /\ \E label : Goto(t, label)
    BY <1>4 DEF Check, Query, QueryFails, ApplyAnswer, server
  <2> QED BY <1>2, <2>1
<1>5. ASSUME NEW t \in Calls, Inspect(t) \/ Store(t) \/ Ask(t) \/ FailScan(t) \/ BeginInstall(t)
      PROVE  RunsImage'
  <2>1. pc[t] # "up" /\ UNCHANGED <<image, running, halfway>> /\ \E label : Goto(t, label)
    BY <1>5 DEF Inspect, Store, Ask, BeginCheck, FailScan, BeginInstall, server
  <2> QED BY <1>0, <1>2, <2>1
<1>6. ASSUME NEW t \in Calls, Pull(t) PROVE RunsImage'
  <2>1. pc[t] = "pull" /\ pc'[t] = "up"
    BY <1>0, <1>6 DEF Pull, Goto
  <2> QED BY <1>0, <2>1 DEF Placed, RunsImage
<1>7. ASSUME NEW t \in Calls, Up(t) \/ FailInstall(t) PROVE RunsImage'
  BY <1>7 DEF Up, Started, FailInstall, RunsImage
<1>8. CASE Prune \/ Push \/ UNCHANGED vars
  BY <1>1, <1>8 DEF Prune, Push, vars, server
<1> QED BY <1>3, <1>4, <1>5, <1>6, <1>7, <1>8 DEF Next, Tasks

\* What a check asks and hears stays what the server has and what is published,
\* as long as both do; a change of either ends it.
LEMMA CalmStep ==
    ASSUME TypeOK, Placed, Calm, [Next]_vars PROVE Calm'
<1>0. /\ pc \in [Tasks -> Labels] /\ \A t \in Calls : t \in Tasks
      /\ asked \in [Tasks -> AllDigests \cup {Unknown}]
      /\ answer \in [Tasks -> Digests \cup {Unknown}] /\ calm \subseteq Tasks
      /\ found \in [Tasks -> AllDigests \cup {Unknown}]
      /\ Poll \in Tasks /\ Poll \notin Installs
  BY ImageTaskAssumption DEF TypeOK, Labels, Scanning, Checking, Tasks, Calls
<1> DEFINE Same(t) == pc'[t] = pc[t] /\ asked'[t] = asked[t] /\ answer'[t] = answer[t]
                      /\ found'[t] = found[t]
           SameImages == UNCHANGED <<byPlatform, content, published, image, pulled>>
\* A step that leaves the images alone, and the tasks other than t.
<1>1. ASSUME SameImages PROVE LocalDigest' = LocalDigest
  BY <1>1 DEF LocalDigest, RepoDigests
<1>2. ASSUME SameImages, NEW t \in Tasks, calm' \subseteq calm \cup {t},
             known' = known \/ \A u \in calm' : pc[u] = "stored" => u = t,
             \A u \in Tasks \ {t} : Same(u),
             t \in calm' => CalmCheck(t)' /\ CalmInstall(t)'
      PROVE  Calm'
  <2>1. ASSUME NEW u \in calm', u # t PROVE CalmCheck(u)' /\ CalmInstall(u)'
    <3>1. u \in calm /\ u \in Tasks /\ Same(u)
      BY <1>0, <1>2, <2>1
    <3>2. CalmCheck(u) /\ CalmInstall(u)
      BY <3>1 DEF Calm
    <3>3. pc[u] = "stored" => known' = known
      BY <1>2, <2>1
    <3> QED BY <1>1, <1>2, <3>1, <3>2, <3>3 DEF CalmCheck, CalmInstall
  <2> QED BY <1>2, <2>1 DEF Calm
\* One after which t checks nothing.
<1>3. ASSUME SameImages, NEW t \in Tasks, calm' \subseteq calm \cup {t},
             UNCHANGED <<known, asked, answer>>, \A u \in Tasks \ {t} : found'[u] = found[u],
             NEW label \in {"new", "pull", "done"}, Goto(t, label)
      PROVE  Calm'
  <2>1. pc'[t] = label /\ \A u \in Tasks \ {t} : Same(u)
    BY <1>0, <1>3 DEF Goto
  <2>2. CalmCheck(t)' /\ CalmInstall(t)'
    BY <2>1 DEF CalmCheck, CalmInstall, Scanning, Checking
  <2> QED BY <1>2, <1>3, <2>1, <2>2
\* The beginning of a check.
<1>4. ASSUME NEW t \in Tasks, BeginCheck(t), UNCHANGED found
      PROVE  /\ pc'[t] \in Checking /\ asked'[t] = known /\ answer'[t] = Unknown
             /\ \A u \in Tasks \ {t} : Same(u)
  BY <1>0, <1>4 DEF BeginCheck, Goto, Checking
<1>5. CASE StartPoll
  <2>1. /\ SameImages /\ BeginCheck(Poll) /\ calm' \subseteq calm \cup {Poll}
        /\ UNCHANGED <<found, known>>
    BY <1>5 DEF StartPoll, setting, server
  <2>2. Poll \in calm' => known = LocalDigest
    BY <1>5 DEF StartPoll
  <2>3. Poll \in calm' => CalmCheck(Poll)' /\ CalmInstall(Poll)'
    BY <1>0, <1>1, <1>4, <2>1, <2>2 DEF CalmCheck, CalmInstall, Checking
  <2> QED BY <1>0, <1>2, <1>4, <2>1, <2>3
<1>6. ASSUME NEW t \in Tasks, Check(t) PROVE Calm'
  <2>1. SameImages /\ calm' \subseteq calm /\ UNCHANGED <<found, known>>
    BY <1>6 DEF Check, Query, QueryFails, ApplyAnswer, setting, server
  <2>2. \A u \in Tasks \ {t} : Same(u)
    BY <1>0, <1>6, <2>1 DEF Check, Query, QueryFails, ApplyAnswer, Goto
  <2>3. ASSUME t \in calm' PROVE CalmCheck(t)' /\ CalmInstall(t)'
    <3>1. /\ pc[t] \in Checking /\ pc'[t] \in Checking /\ asked'[t] = asked[t]
          /\ answer'[t] \in {answer[t], published}
      BY <1>0, <1>6, <2>3 DEF Check, Query, QueryFails, ApplyAnswer, Goto, Checking
    <3>2. CalmCheck(t) /\ CalmInstall(t)
      BY <2>1, <2>3 DEF Calm
    <3>3. CalmCheck(t)'
      BY <1>1, <2>1, <3>1, <3>2 DEF CalmCheck, Checking
    <3>4. CalmInstall(t)'
      BY <2>1, <3>1, <3>2 DEF CalmInstall
    <3> QED BY <3>3, <3>4
  <2> QED BY <1>2, <2>1, <2>2, <2>3
<1>7. ASSUME NEW t \in Calls, Inspect(t) PROVE Calm'
  <2>1. PICK digest \in {LocalDigest, Unknown} :
          /\ found' = [found EXCEPT ![t] = digest]
          /\ calm' = IF digest # LocalDigest THEN calm \ {t}
                     ELSE IF t \in Rescans THEN calm \cup {t} ELSE calm
    BY <1>7 DEF Inspect
  <2>2. /\ SameImages /\ pc[t] = "inspect" /\ calm' \subseteq calm \cup {t} /\ known' = known
        /\ Goto(t, "found") /\ UNCHANGED <<asked, answer>>
    BY <1>7, <2>1 DEF Inspect, setting, server
  <2>3. /\ pc'[t] = "found" /\ found'[t] = digest
        /\ \A u \in Tasks \ {t} : Same(u)
    BY <1>0, <2>1, <2>2 DEF Goto, Tasks
  <2>4. ASSUME t \in calm' PROVE CalmCheck(t)' /\ CalmInstall(t)'
    <3>1. digest = LocalDigest /\ (t \in Installs => t \in calm)
      BY <2>1, <2>4, ImageTaskAssumption
    <3>2. CalmCheck(t)'
      BY <1>1, <2>2, <2>3, <3>1 DEF CalmCheck, Checking
    <3>3. CalmInstall(t)'
      BY <2>2, <2>3, <3>1 DEF Calm, CalmInstall, Scanning
    <3> QED BY <3>2, <3>3
  <2> QED BY <1>0, <1>2, <2>2, <2>3, <2>4
<1>8. ASSUME NEW t \in Calls, FailScan(t) \/ BeginInstall(t) PROVE Calm'
  <2>1. SameImages /\ UNCHANGED <<known, asked, answer, calm>>
    BY <1>8 DEF FailScan, BeginInstall, setting, server
  <2>2. \A u \in Tasks \ {t} : found'[u] = found[u]
    BY <1>0, <1>8 DEF FailScan, BeginInstall
  <2>3. \E label \in {"pull", "done"} : Goto(t, label)
    BY <1>8 DEF FailScan, BeginInstall
  <2> QED BY <1>0, <1>3, <2>1, <2>2, <2>3
\* What is stored is what the server has, or nobody calm is about to ask with it.
<1>15. ASSUME NEW t \in Calls, Store(t) PROVE Calm'
  <2>1. /\ SameImages /\ pc[t] = "found" /\ calm' \subseteq calm /\ known' = found[t]
        /\ Goto(t, "stored") /\ UNCHANGED <<asked, answer>>
    BY <1>15 DEF Store, Stored, setting, server
  <2>2. pc'[t] = "stored" /\ \A u \in Tasks \ {t} : Same(u)
    BY <1>0, <1>15, <2>1 DEF Store, Goto
  <2>3. CASE found[t] = LocalDigest
    <3>1. ASSUME NEW u \in calm' PROVE CalmCheck(u)' /\ CalmInstall(u)'
      <4>1. u \in Tasks /\ CalmCheck(u) /\ CalmInstall(u)
        BY <1>0, <2>1, <3>1 DEF Calm
      <4>2. CASE u = t
        BY <1>1, <2>1, <2>2, <2>3, <4>1, <4>2 DEF CalmCheck, CalmInstall, Scanning, Checking
      <4>3. CASE u # t
        BY <1>1, <2>1, <2>2, <2>3, <4>1, <4>3 DEF CalmCheck, CalmInstall
      <4> QED BY <4>2, <4>3
    <3> QED BY <3>1 DEF Calm
  <2>4. CASE found[t] # LocalDigest
    <3>1. t \notin calm' /\ \A u \in calm' : pc[u] # "stored"
      BY <1>15, <2>4 DEF Store
    <3> QED BY <1>0, <1>2, <2>1, <2>2, <3>1
  <2> QED BY <2>3, <2>4
<1>16. ASSUME NEW t \in Calls, Ask(t) PROVE Calm'
  <2>1. SameImages /\ pc[t] = "stored" /\ BeginCheck(t) /\ UNCHANGED <<found, known, calm>>
    BY <1>16 DEF Ask, setting, server
  <2>2. ASSUME t \in calm PROVE CalmCheck(t)' /\ CalmInstall(t)'
    <3>1. CalmCheck(t) /\ CalmInstall(t)
      BY <2>2 DEF Calm
    <3>2. CalmCheck(t)'
      BY <1>0, <1>1, <1>4, <2>1, <3>1 DEF CalmCheck, Checking
    <3>3. CalmInstall(t)'
      BY <2>1, <3>1 DEF CalmInstall, Scanning
    <3> QED BY <3>2, <3>3
  <2> QED BY <1>0, <1>2, <1>4, <2>1, <2>2
<1>9. ASSUME NEW t \in Calls, Pull(t) PROVE Calm'
  <2>1. /\ pc'[t] = "up" /\ known' = known /\ \A u \in Tasks \ {t} : Same(u)
        /\ image' = content'[published'] /\ published' \in pulled'
    BY <1>0, <1>9 DEF Pull, Goto, Fetched, setting
  <2>2. CalmCheck(t)' /\ CalmInstall(t)'
    BY <2>1 DEF CalmCheck, CalmInstall, Checking
  <2>3. CASE <<image, pulled>>' = <<image, pulled>>
    <3>1. SameImages /\ calm' \subseteq calm \cup {t}
      BY <1>9, <2>3 DEF Pull, Changed, setting
    <3> QED BY <1>0, <1>2, <2>1, <2>2, <3>1
  <2>4. CASE <<image, pulled>>' # <<image, pulled>>
    <3>1. calm' = {t}
      BY <1>9, <2>4 DEF Pull, Changed
    <3> QED BY <2>2, <3>1 DEF Calm
  <2> QED BY <2>3, <2>4
<1>10. ASSUME NEW t \in Calls, Up(t) PROVE Calm'
  <2>1. /\ SameImages /\ UNCHANGED <<found, known, asked, answer, calm>>
        /\ pc[t] = "up" /\ Goto(t, "inspect")
    BY <1>10 DEF Up, setting
  <2>2. pc'[t] = "inspect" /\ \A u \in Tasks \ {t} : Same(u)
    BY <1>0, <2>1 DEF Goto
  <2>3. t \in calm' => CalmCheck(t)' /\ CalmInstall(t)'
    BY <2>1, <2>2 DEF Calm, CalmCheck, CalmInstall, Scanning, Checking
  <2> QED BY <1>0, <1>2, <2>1, <2>2, <2>3
<1>11. ASSUME NEW t \in Calls, FailInstall(t) PROVE Calm'
  <2>1. /\ Changed(t) /\ Goto(t, "done")
        /\ UNCHANGED <<setting, published, found, known, asked, answer>>
    BY <1>11 DEF FailInstall
  <2>2. CASE <<image, pulled>>' = <<image, pulled>>
    <3>1. SameImages /\ calm' \subseteq calm \cup {t}
      BY <2>1, <2>2 DEF Changed, setting
    <3> QED BY <1>0, <1>3, <2>1, <3>1
  <2>3. CASE <<image, pulled>>' # <<image, pulled>>
    <3>1. calm' = {t} /\ pc'[t] = "done"
      BY <1>0, <2>1, <2>3 DEF Changed, Goto
    <3> QED BY <3>1 DEF Calm, CalmCheck, CalmInstall, Scanning, Checking
  <2> QED BY <2>2, <2>3
\* Pruning leaves the digests of the image of the tag.
<1>12. CASE Prune
  <2>1. UNCHANGED <<setting, published, image, found, known, pc, asked, answer, calm>>
    BY <1>12 DEF Prune
  <2>2. RepoDigests' = RepoDigests
    BY <1>12, <2>1 DEF Prune, RepoDigests, setting
  <2>3. LocalDigest' = LocalDigest
    BY <2>1, <2>2 DEF LocalDigest, setting
  <2>4. image = content[published] /\ published \in pulled => published \in pulled'
    BY <1>12 DEF Prune
  <2>5. ASSUME NEW u \in calm PROVE CalmCheck(u)' /\ CalmInstall(u)'
    <3>1. CalmCheck(u) /\ CalmInstall(u)
      BY DEF Calm
    <3> QED BY <2>1, <2>3, <2>4, <3>1 DEF CalmCheck, CalmInstall, setting
  <2> QED BY <2>1, <2>5 DEF Calm
<1>13. CASE Push
  BY <1>13 DEF Push, Calm
<1>14. CASE UNCHANGED vars
  <2>1. SameImages /\ UNCHANGED <<found, known, pc, asked, answer, calm>>
    BY <1>14 DEF vars, setting, server
  <2> QED BY <1>1, <2>1 DEF Calm, CalmCheck, CalmInstall
<1> QED BY <1>5, <1>6, <1>7, <1>8, <1>9, <1>10, <1>11, <1>12, <1>13, <1>14, <1>15, <1>16
        DEF Next, Tasks

\* The status is trusted from a calm check on until something changes.
LEMMA TrustStep ==
    ASSUME TypeOK, Calm, Trust, [Next]_vars PROVE Trust'
<1> DEFINE Same == UNCHANGED <<setting, published, image>> /\ RepoDigests' = RepoDigests
<1>1. ASSUME Same
      PROVE  Result(LocalDigest, published)' = Result(LocalDigest, published)
  <2>1. LocalDigest' = LocalDigest
    BY <1>1 DEF LocalDigest, setting
  <2>2. SameImage(LocalDigest, published)' <=> SameImage(LocalDigest, published)
    BY <1>1, <2>1 DEF SameImage, setting
  <2> QED BY <1>1, <2>1, <2>2 DEF Result, setting
<1>2. ASSUME trusted' => trusted /\ Same, UNCHANGED status PROVE Trust'
  BY <1>1, <1>2 DEF Trust
<1>3. UNCHANGED <<setting, published, image, pulled>> => Same
  BY DEF RepoDigests, setting
<1>4. CASE StartPoll \/ \E t \in Tasks : Query(t) \/ QueryFails(t)
  <2>1. UNCHANGED <<setting, published, server, status, trusted>>
    BY <1>4 DEF StartPoll, Query, QueryFails
  <2> QED BY <1>2, <1>3, <2>1 DEF server
<1>5. ASSUME NEW t \in Tasks, ApplyAnswer(t) PROVE Trust'
  <2>1. /\ pc[t] = "answered" /\ status' = Result(asked[t], answer[t])
        /\ trusted' = (t \in calm) /\ UNCHANGED <<setting, published, server>>
    BY <1>5 DEF ApplyAnswer
  <2>2. ASSUME t \in calm
        PROVE  status' \in {NoStatus, Result(LocalDigest, published)}
    <3>1. asked[t] = LocalDigest /\ answer[t] \in {Unknown, published}
      BY <2>1, <2>2 DEF Calm, CalmCheck, Checking
    <3>2. Result(LocalDigest, Unknown) = NoStatus
      BY DEF Result
    <3> QED BY <2>1, <3>1, <3>2
  <2>3. Same
    BY <1>3, <2>1 DEF server
  <2> QED BY <1>1, <2>1, <2>2, <2>3 DEF Trust
<1>6. ASSUME NEW t \in Calls, Inspect(t) \/ Store(t) \/ Ask(t) PROVE Trust'
  <2>1. UNCHANGED <<setting, published, server, status, trusted>>
    BY <1>6 DEF Inspect, Store, Ask
  <2> QED BY <1>2, <1>3, <2>1 DEF server
<1>7. ASSUME NEW t \in Calls, FailScan(t) \/ BeginInstall(t) \/ Up(t) PROVE Trust'
  <2>1. UNCHANGED <<setting, published, image, pulled, status, trusted>>
    BY <1>7 DEF FailScan, BeginInstall, Up, server
  <2> QED BY <1>2, <1>3, <2>1
<1>8. ASSUME NEW t \in Calls, Pull(t) \/ FailInstall(t) PROVE Trust'
  <2>1. Changed(t) /\ UNCHANGED <<setting, published, status>>
    BY <1>8 DEF Pull, FailInstall
  <2> QED BY <1>2, <1>3, <2>1 DEF Changed
<1>9. CASE Prune
  <2>1. UNCHANGED <<setting, published, image, status, trusted>>
    BY <1>9 DEF Prune
  <2>2. RepoDigests' = RepoDigests
    BY <1>9, <2>1 DEF Prune, RepoDigests, setting
  <2> QED BY <1>2, <2>1, <2>2
<1>10. CASE Push
  BY <1>10 DEF Push, Trust
<1>11. CASE UNCHANGED vars
  BY <1>2, <1>3, <1>11 DEF vars, server
<1> QED BY <1>4, <1>5, <1>6, <1>7, <1>8, <1>9, <1>10, <1>11 DEF Next, Check, Tasks

LEMMA ImageInvariant == Spec => []ImageInv
<1>1. ImageInv /\ [Next]_vars => ImageInv'
  BY ImageTypeStep, RunsImageStep, CalmStep, TrustStep DEF ImageInv
<1> QED BY ImageInit, <1>1, PTL DEF Spec

(***************************************************************************)
(* The theorems.                                                           *)
(***************************************************************************)

\* An all-clear can be relied on: if the scan and the check behind it began
\* after the last push and the last pull, and no overlapping rescan stored an
\* older digest between them, the server has the image that is published, and
\* the container runs it unless an install has pulled it and not started it.
\* An answer that was overtaken says nothing, in whatever order answers come.
THEOREM AllClearCanBeReliedOn == Spec => []AllClearIsTrue
<1>1. ImageInv => AllClearIsTrue
  <2> SUFFICES ASSUME ImageInv, trusted, status.checkable, status.update = FALSE
               PROVE  image = content[published]
                      /\ (running = image \/ halfway \/ \E t \in Installs : pc[t] = "up")
    BY DEF AllClearIsTrue
  <2>1. status = Result(LocalDigest, published) /\ LocalDigest # Unknown
    BY DEF ImageInv, Trust, NoStatus, Result
  <2>2. SameImage(LocalDigest, published)
    <3>1. status = [checkable |-> TRUE, update |-> ~SameImage(LocalDigest, published),
                    latest |-> OfPush(published)]
      BY <2>1 DEF Result, NoStatus
    <3>2. status.update = ~SameImage(LocalDigest, published)
      BY <3>1, Zenon
    <3> QED BY <3>2
  <2> QED BY <2>1, <2>2, SameIfPublished DEF ImageInv, RunsImage
<1> QED BY <1>1, ImageInvariant, PTL

\* So can an offer, under the same conditions: what is offered has not been
\* pulled, unless docker knows the image by several digests of the same
\* repository and lists another first.
THEOREM OffersAreReal == Spec => []OfferIsReal
<1>1. ImageInv => OfferIsReal
  <2> SUFFICES ASSUME ImageInv, trusted, status.checkable, status.update = TRUE
               PROVE  IF byPlatform THEN image # content[published]
                      ELSE published \notin RepoDigests \/ Cardinality(RepoDigests) > 1
    BY DEF OfferIsReal, Offer
  <2>1. status = Result(LocalDigest, published) /\ LocalDigest # Unknown
    BY DEF ImageInv, Trust, NoStatus, Result
  <2>2. ~SameImage(LocalDigest, published)
    <3>1. status = [checkable |-> TRUE, update |-> ~SameImage(LocalDigest, published),
                    latest |-> OfPush(published)]
      BY <2>1 DEF Result, NoStatus
    <3>2. status.update = ~SameImage(LocalDigest, published)
      BY <3>1, Zenon
    <3> QED BY <3>2
  <2> QED BY <2>1, <2>2, SameIfPublished DEF ImageInv
<1> QED BY <1>1, ImageInvariant, PTL

\* A successful install makes its offer go away, unless the tag is moved or
\* something else is pulled in the meantime, or an overlapping rescan stores an
\* older digest just before the install's own check asks; there is also the
\* exception of OfferIsReal.
THEOREM InstallsSettle == Spec => InstallSettles
<1>1. ASSUME ImageInv, NEW t \in Installs, ApplyAnswer(t), t \in calm
      PROVE  ~Offer' \/ (~byPlatform /\ Cardinality(RepoDigests) > 1)
  <2>1. /\ asked[t] = LocalDigest /\ answer[t] \in {Unknown, published}
        /\ image = content[published] /\ published \in pulled
    BY <1>1 DEF ImageInv, Calm, CalmCheck, CalmInstall, ApplyAnswer, Checking
  <2>2. status' \in {NoStatus, Result(LocalDigest, published)}
    BY <1>1, <2>1 DEF ApplyAnswer, Result
  <2>3. CASE status' = NoStatus
    BY <2>3 DEF Offer, NoStatus
  <2>4. CASE status' = Result(LocalDigest, published) /\ status' # NoStatus
    <3>1. /\ LocalDigest # Unknown
          /\ status' = [checkable |-> TRUE, update |-> ~SameImage(LocalDigest, published),
                        latest |-> OfPush(published)]
      BY <2>4 DEF Result
    <3>2. status'.update = ~SameImage(LocalDigest, published)
      BY <3>1, Zenon
    <3>3. CASE SameImage(LocalDigest, published)
      BY <3>2, <3>3 DEF Offer
    <3>4. CASE ~SameImage(LocalDigest, published)
      <4>1. published \in RepoDigests
        BY <2>1 DEF RepoDigests
      <4> QED BY <1>1, <2>1, <3>1, <3>4, <4>1, SameIfPublished DEF ImageInv
    <3> QED BY <3>3, <3>4
  <2> QED BY <2>2, <2>3, <2>4
<1>2. ImageInv => [\A t \in Installs : ApplyAnswer(t) /\ t \in calm =>
                      \/ ~Offer'
                      \/ ~byPlatform /\ Cardinality(RepoDigests) > 1]_vars
  BY <1>1
<1> QED BY <1>2, ImageInvariant, PTL DEF Spec, InstallSettles
=============================================================================
