----------------------------- MODULE ImageUpdates -----------------------------
(***************************************************************************)
(* How the update entity of a container learns of a newer image            *)
(* (docker_registry.py, docker_coordinator.py, update.py): a tag of a      *)
(* registry, which its publisher moves, the image the server has pulled    *)
(* for it, the container that runs, and what the coordinator keeps of      *)
(* them.  The poll, the rescans and the installs ask the registry with     *)
(* what they knew before they asked, and apply the answers as they come.   *)
(*                                                                         *)
(* What is published has a digest, and holds the manifest of the server's  *)
(* platform: two of them may hold the same one, if only other platforms    *)
(* were built anew.  An image that was pulled under several digests has    *)
(* them all, and docker lists them in the order of their names, which is   *)
(* any order in time.                                                      *)
(***************************************************************************)
EXTENDS Integers, FiniteSets, FiniteSetsExt

CONSTANTS
    Digests,    \* what is published, numbered in the order of the digests' names
    Installs,   \* calls of install, each of which runs once
    Rescans,    \* calls of rescan, each of which runs once
    Poll,       \* the task of the periodic poll
    Unknown     \* no digest, no answer

Calls == Installs \cup Rescans
Tasks == Calls \cup {Poll}

ASSUME DigestAssumption == Digests \subseteq Nat /\ Digests # {}
ASSUME ImageTaskAssumption == Installs \cap Rescans = {} /\ Poll \notin Calls

VARIABLES
    index,      \* whether the registry's manifest is a list of platforms'
    byPlatform, \* whether docker stores the platform's digest, not the list's
    hub,        \* whether the registry is Docker Hub
    pinned,     \* whether the container's image is pinned by a digest
    content,    \* the platform's manifest in what is published, named by the
                \* first digest that has it
    published,  \* the digest the tag has at the registry
    image,      \* the manifest of the image the tag has on the server
    pulled,     \* the digests that images on the server were pulled by
    running,    \* the manifest of the image the container runs
    found,      \* the digest each rescan has read and not stored yet
    known,      \* status.container.image_digest
    status,     \* status.checkable, update_available, latest_digest
    installing, \* status.installing
    pc,         \* where each task is
    asked,      \* the local digest each check compares with
    answer,     \* what the registry has answered to each check
    halfway,    \* history: an install pulled an image and did not start it
    calm,       \* history: scans, checks and pulls that began after the last
                \* change, and checks that asked with what the server had
    trusted     \* history: the status is that of such a check

setting == <<index, byPlatform, hub, pinned, content>>
server == <<image, pulled, running>>
vars == <<setting, published, server, found, known, status, installing, pc,
          asked, answer, halfway, calm, trusted>>

Goto(t, label) == pc' = [pc EXCEPT ![t] = label]

\* The digest of what is published, and, if that is a list, of the manifest in it.
OfPush(d) == [of |-> "push", name |-> d]
OfManifest(m) == [of |-> "manifest", name |-> m]
AllDigests == {OfPush(d) : d \in Digests} \cup {OfManifest(m) : m \in Digests}

ASSUME UnknownAssumption == Unknown \notin Digests /\ Unknown \notin AllDigests

NoStatus == [checkable |-> FALSE, update |-> Unknown, latest |-> Unknown]

(***************************************************************************)
(* What docker has.                                                        *)
(***************************************************************************)

\* RepoDigests of the image the tag has.
RepoDigests == {d \in pulled : content[d] = image}

\* The digest a rescan reads (_async_inspect_docker_image): the first one, or
\* none for an image that was built on the server.
LocalDigest ==
    IF byPlatform THEN OfManifest(image)
    ELSE IF RepoDigests = {} THEN Unknown ELSE OfPush(Min(RepoDigests))

(***************************************************************************)
(* The comparison (async_check_for_update).                                *)
(***************************************************************************)

\* Mutant of SameImage: the manifests of a list are not compared with.
SameDigest(local, remote) == local = OfPush(remote)
SameImage(local, remote) ==
    \/ local = OfPush(remote)
    \/ index /\ local = OfManifest(content[remote])

\* Mutant of Result: no answer is taken for another digest.
ResultOfFailure(local, remote) ==
    IF local = Unknown THEN NoStatus
    ELSE [checkable |-> TRUE, update |-> remote = Unknown \/ ~SameImage(local, remote),
          latest |-> OfPush(remote)]

\* The status an answer leads to.
Result(local, remote) ==
    IF remote = Unknown \/ local = Unknown THEN NoStatus
    ELSE [checkable |-> TRUE, update |-> ~SameImage(local, remote),
          latest |-> OfPush(remote)]

\* The entity is on, as latest_version is not installed_version.
Offer == status.checkable /\ status.update = TRUE /\ status.latest # known

(***************************************************************************)
(* A check of the image (_async_check_all, for this container).            *)
(***************************************************************************)

\* What is known is handed over.  A pinned image needs no query; Docker Hub's
\* token service is known, others are asked for theirs.
BeginCheck(t) ==
    /\ asked' = [asked EXCEPT ![t] = known]
    /\ Goto(t, IF pinned THEN "answered" ELSE IF hub THEN "token" ELSE "discover")
    /\ answer' = [answer EXCEPT ![t] = Unknown]

StartPoll ==
    /\ pc[Poll] = "idle"
    /\ BeginCheck(Poll)
    /\ calm' = IF known = LocalDigest THEN calm \cup {Poll} ELSE calm \ {Poll}
    /\ UNCHANGED <<setting, published, server, found, known, status, installing,
                   halfway, trusted>>

\* One query of the registry has an answer: it can be asked without a token, it
\* names its token service, a token, or the manifest and its digest ...
Query(t) ==
    /\ \/ pc[t] = "discover" /\ \E next \in {"token", "manifest"} : Goto(t, next) /\ UNCHANGED answer
       \/ pc[t] = "token" /\ Goto(t, "manifest") /\ UNCHANGED answer
       \/ /\ pc[t] = "manifest"
          /\ answer' = [answer EXCEPT ![t] = published]
          /\ Goto(t, "answered")
    /\ UNCHANGED <<setting, published, server, found, known, status, installing,
                   asked, halfway, calm, trusted>>

\* ... or it fails, and nothing can be said.
QueryFails(t) ==
    /\ pc[t] \in {"discover", "token", "manifest"}
    /\ Goto(t, "answered")
    /\ UNCHANGED <<setting, published, server, found, known, status, installing,
                   asked, answer, halfway, calm, trusted>>

\* The answer is applied, whatever has happened since the check began.
ApplyAnswer(t) ==
    /\ pc[t] = "answered"
    /\ status' = Result(asked[t], answer[t])
    /\ trusted' = (t \in calm)
    /\ asked' = [asked EXCEPT ![t] = Unknown]
    /\ answer' = [answer EXCEPT ![t] = Unknown]
    /\ Goto(t, IF t = Poll THEN "idle" ELSE "done")
    /\ calm' = calm \ {t}
    /\ UNCHANGED <<setting, published, server, found, known, installing, halfway>>

(***************************************************************************)
(* The rescan, which begins with the inspection, and the install.          *)
(***************************************************************************)
\* The image is inspected; one that cannot be has no digest.
Inspect(t) ==
    /\ pc[t] = "inspect"
    /\ \E digest \in {LocalDigest, Unknown} :
         /\ found' = [found EXCEPT ![t] = digest]
         /\ calm' = IF digest # LocalDigest THEN calm \ {t}
                     ELSE IF t \in Rescans THEN calm \cup {t} ELSE calm
    /\ Goto(t, "found")
    /\ UNCHANGED <<setting, published, server, known, status, installing, asked,
                   answer, halfway, trusted>>

\* Mutant of Stored: a container that is known already is left as it is.
StoredBefore(t) == known
Stored(t) == found[t]

\* When the compose files have been looked for, what was found is stored,
\* whatever other rescans have stored since it was read.  If it is no longer
\* so, the checks that are about to ask with it say nothing.
Store(t) ==
    /\ pc[t] = "found"
    /\ known' = Stored(t)
    /\ found' = [found EXCEPT ![t] = Unknown]
    /\ calm' = IF found[t] = LocalDigest THEN calm
               ELSE {u \in calm \ {t} : pc[u] # "stored"}
    /\ Goto(t, "stored")
    /\ UNCHANGED <<setting, published, server, status, installing, asked, answer,
                   halfway, trusted>>

\* When the states have been read and the connection is closed, the image is
\* checked with what is stored by then.
Ask(t) ==
    /\ pc[t] = "stored"
    /\ BeginCheck(t)
    /\ UNCHANGED <<setting, published, server, found, known, status, installing,
                   halfway, calm, trusted>>

FailScan(t) ==
    /\ pc[t] \in {"inspect", "found", "stored"}
    /\ found' = [found EXCEPT ![t] = Unknown]
    /\ Goto(t, "done")
    /\ UNCHANGED <<setting, published, server, known, status, installing,
                   asked, answer, halfway, calm, trusted>>

BeginInstall(t) ==
    /\ pc[t] = "new"
    /\ installing' = TRUE
    /\ Goto(t, "pull")
    /\ UNCHANGED <<setting, published, server, found, known, status, asked, answer,
                   halfway, calm, trusted>>

\* The server has what is published.
Fetched == image' = content[published] /\ pulled' = pulled \cup {published}

\* Nothing can be said of an earlier check once the image is another one.
Changed(t) == LET kept == IF <<image, pulled>>' = <<image, pulled>> THEN calm ELSE {} IN
    /\ calm' = kept \cup {t}
    /\ trusted' = (trusted /\ <<image, pulled>>' = <<image, pulled>>)

\* docker compose pull
Pull(t) ==
    /\ pc[t] = "pull"
    /\ Fetched
    /\ Changed(t)
    /\ Goto(t, "up")
    /\ UNCHANGED <<setting, published, running, found, known, status, installing,
                   asked, answer, halfway>>

\* Mutant of Started: the container is not created anew from the image.
KeepContainer == running
Started == image

\* docker compose up; the rescan begins.
Up(t) ==
    /\ pc[t] = "up"
    /\ running' = Started
    /\ halfway' = FALSE
    /\ installing' = FALSE
    /\ Goto(t, "inspect")
    /\ UNCHANGED <<setting, published, image, pulled, found, known, status, asked, answer,
                   calm, trusted>>

\* A command fails or its time is up; it may have done its work by then, or
\* docker does it all the same.
FailInstall(t) ==
    /\ \/ pc[t] = "pull" /\ (Fetched \/ UNCHANGED <<image, pulled>>) /\ UNCHANGED running
       \/ pc[t] = "up" /\ running' \in {running, Started} /\ UNCHANGED <<image, pulled>>
    /\ halfway' = (running' # image')
    /\ Changed(t)
    /\ installing' = FALSE
    /\ Goto(t, "done")
    /\ UNCHANGED <<setting, published, found, known, status, asked, answer>>

\* docker image prune (async_prune_images): images without a tag, unless they run.
Prune ==
    /\ pulled' = {d \in pulled : content[d] \in {image, running}}
    /\ UNCHANGED <<setting, published, image, running, found, known, status, installing, pc,
                   asked, answer, halfway, calm, trusted>>

(***************************************************************************)
(* The publisher, and the specification.                                   *)
(***************************************************************************)

\* The tag is moved, on or back.
Push ==
    /\ published' \in Digests \ {published}
    /\ calm' = {} /\ trusted' = FALSE
    /\ UNCHANGED <<setting, server, found, known, status, installing, pc, asked, answer,
                   halfway>>

\* The container runs the image of its tag, pulled or built on the server, and
\* no check has been made.
Init ==
    /\ pinned \in BOOLEAN
    /\ index \in {FALSE, ~pinned} /\ hub \in {FALSE, ~pinned}  \* if pinned, not asked for
    /\ byPlatform \in {FALSE, index}
    /\ content \in [Digests -> Digests]
    /\ \A d \in Digests : content[d] <= d /\ content[content[d]] = content[d]
    /\ index \/ \A d \in Digests : content[d] = d
    /\ published \in Digests
    /\ image = content[published] /\ running = image
    /\ pulled \in {{}, {published}}
    /\ found = [t \in Tasks |-> Unknown] /\ known = LocalDigest
    /\ status = NoStatus
    /\ installing = FALSE
    /\ pc = [t \in Tasks |-> CASE t = Poll -> "idle" [] t \in Installs -> "new" [] OTHER -> "inspect"]
    /\ asked = [t \in Tasks |-> Unknown]
    /\ answer = [t \in Tasks |-> Unknown]
    /\ halfway = FALSE /\ calm = {} /\ trusted = FALSE

Check(t) == Query(t) \/ QueryFails(t) \/ ApplyAnswer(t)

Next ==
    \/ StartPoll \/ Check(Poll)
    \/ \E t \in Calls :
         \/ Inspect(t) \/ Store(t) \/ Ask(t) \/ FailScan(t) \/ Check(t)
         \/ BeginInstall(t) \/ Pull(t) \/ Up(t) \/ FailInstall(t)
    \/ Prune \/ Push

Spec == Init /\ [][Next]_vars

(***************************************************************************)
(* Properties.                                                             *)
(***************************************************************************)
TypeOK ==
    /\ {index, byPlatform, hub, pinned, installing, halfway, trusted} \subseteq BOOLEAN
    /\ content \in [Digests -> Digests]
    /\ {published, image, running} \subseteq Digests
    /\ pulled \subseteq Digests
    /\ found \in [Tasks -> AllDigests \cup {Unknown}]
    /\ known \in AllDigests \cup {Unknown}
    /\ status \in [checkable : BOOLEAN, update : BOOLEAN \cup {Unknown},
                   latest : AllDigests \cup {Unknown}]
    /\ pc \in [Tasks -> {"idle", "new", "pull", "up", "inspect", "found", "stored",
                         "discover", "token", "manifest", "answered", "done"}]
    /\ asked \in [Tasks -> AllDigests \cup {Unknown}]
    /\ answer \in [Tasks -> Digests \cup {Unknown}]
    /\ calm \subseteq Tasks

\* An all-clear can be relied on: if the scan and the check behind it began
\* after the last push and the last pull, and no overlapping rescan stored an
\* older digest between them, the server has the image that is published, and
\* the container runs it unless an install has pulled it and not yet, or not at
\* all, started it (docker_registry.py: async_check_for_update).
AllClearIsTrue ==
    trusted /\ status.checkable /\ status.update = FALSE =>
        /\ image = content[published]
        /\ running = image \/ halfway \/ \E t \in Installs : pc[t] = "up"

\* So can an offer, under the same conditions: what is offered has not been
\* pulled, unless docker knows the image by several digests of the same
\* repository and lists another first.
OfferIsReal ==
    trusted /\ Offer =>
        IF byPlatform THEN image # content[published]
        ELSE published \notin RepoDigests \/ Cardinality(RepoDigests) > 1

\* A successful install makes its offer go away, unless the tag is moved or
\* something else is pulled in the meantime, or an overlapping rescan stores an
\* older digest just before the install's own check asks; there is also the
\* exception of OfferIsReal (docker_coordinator.py: async_install_update).
InstallSettles ==
    [][\A t \in Installs : ApplyAnswer(t) /\ t \in calm =>
        \/ ~Offer'
        \/ ~byPlatform /\ Cardinality(RepoDigests) > 1]_vars
=============================================================================
