------------------------ MODULE CompositionLifecycle ------------------------
(***************************************************************************)
(* The life of one composition as its user knows it: what is asked for,    *)
(* what is deployed, what the status says of it, and when all of it ends.  *)
(* There is no worker, queue, retry, crash, chart or permission here;      *)
(* CompositionController shows that the controller implements this module. *)
(***************************************************************************)

CONSTANTS
    Specs,       \* values of the composition's spec
    Content,     \* what a release can be rendered from
    Manifests,   \* rendered manifests
    Manifest,    \* the manifest of a content
    None         \* no release, no manifest

VARIABLES
    phase,       \* the composition is live, being deleted, or gone
    asked,       \* the spec and the pause request of the user
    mark,        \* the controller has accepted a pause request
    deploying,   \* the controller is at work for the live composition
    release,     \* what the latest Helm revision is rendered from
    digest,      \* status.digest
    managed,     \* status.managed
    spared       \* the deletion is to leave the release where it is

vars == <<phase, asked, mark, deploying, release, digest, managed, spared>>

Asked == [spec : Specs, paused : BOOLEAN]

Published(content) == IF content = None THEN None ELSE Manifest[content]

\* A pause is in force when it is asked for and was accepted.
Frozen == asked.paused /\ mark

Init ==
    /\ phase = "live"
    /\ asked \in Asked
    /\ mark = FALSE /\ deploying = FALSE /\ spared = FALSE
    /\ release = None /\ digest = None /\ managed = None

-----------------------------------------------------------------------------
(* The user *)

Ask == /\ phase # "gone"
       /\ asked' \in Asked
       /\ UNCHANGED <<phase, mark, deploying, release, digest, managed, spared>>

RequestDeletion ==
    /\ phase = "live"
    /\ phase' = "deleting"
    /\ UNCHANGED <<asked, mark, deploying, release, digest, managed, spared>>

-----------------------------------------------------------------------------
(* The controller at work for a live composition.  Any step may be its last. *)

\* Work begins only while the composition is live and no pause is in force.
Begin == /\ phase = "live" /\ ~deploying /\ ~Frozen
         /\ deploying' = TRUE
         /\ UNCHANGED <<phase, asked, mark, release, digest, managed, spared>>

Stop == /\ deploying /\ ~deploying'
        /\ UNCHANGED <<phase, asked, mark, release, digest, managed, spared>>

\* A new revision replaces the release; a release is never just taken away.
Revise == /\ deploying /\ deploying' \in BOOLEAN
          /\ release' \in Content
          /\ UNCHANGED <<phase, asked, mark, digest, managed, spared>>

\* The status speaks of the latest revision or is emptied, and the list of
\* resources never is.
Publish ==
    /\ deploying /\ deploying' \in BOOLEAN
    /\ digest' \in {None, Published(release)}
    /\ managed' \in {managed, Published(release)}
    /\ UNCHANGED <<phase, asked, mark, release, spared>>

\* Only a pause that is asked for is accepted.
Accept == /\ deploying /\ deploying' \in BOOLEAN
          /\ asked.paused
          /\ mark' = TRUE
          /\ UNCHANGED <<phase, asked, release, digest, managed, spared>>

Clear == /\ phase # "gone"
         /\ mark' = FALSE
         /\ deploying' \in {deploying, FALSE}
         /\ UNCHANGED <<phase, asked, release, digest, managed, spared>>

-----------------------------------------------------------------------------
(* The end.  It waits for the work that is under way. *)

Withdraw == /\ phase = "deleting" /\ ~deploying
            /\ release' = None
            /\ UNCHANGED <<phase, asked, mark, deploying, digest, managed, spared>>

\* A frozen composition may go without its release ...
Spare == /\ phase = "deleting" /\ ~deploying /\ Frozen
         /\ spared' = TRUE
         /\ UNCHANGED <<phase, asked, mark, deploying, release, digest, managed>>

\* ... unless the attempt fails.
Retry == /\ spared
         /\ spared' = FALSE
         /\ UNCHANGED <<phase, asked, mark, deploying, release, digest, managed>>

Leave == /\ phase = "deleting" /\ ~deploying
         /\ release = None \/ spared
         /\ phase' = "gone" /\ spared' = FALSE
         /\ UNCHANGED <<asked, mark, deploying, release, digest, managed>>

-----------------------------------------------------------------------------
Next == \/ Ask \/ RequestDeletion
        \/ Begin \/ Stop \/ Revise \/ Publish \/ Accept \/ Clear
        \/ Withdraw \/ Spare \/ Retry \/ Leave

Spec == Init /\ [][Next]_vars

=============================================================================
