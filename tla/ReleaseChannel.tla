--------------------------- MODULE ReleaseChannel ---------------------------
(***************************************************************************)
(* What an over-the-air update promises, whatever the platform: the image  *)
(* on the disk is replaced by a version that was found, published, by a    *)
(* process below it, or goes back to a copy that was kept of it, or is     *)
(* damaged. As long as updaters work alone, a version put in place is also *)
(* above that of a process still running. Nothing else ever changes the    *)
(* image: no partial download, no mixture of two releases, no release that *)
(* was not published.                                                      *)
(***************************************************************************)
EXTENDS Naturals

CONSTANT Damaged        \* an image that does not run

VARIABLES
    published,      \* the number of the latest version; 1 is the first
    image,          \* what the next process will run
    kept,           \* the copies made of images that were replaced
    running,        \* the versions of the running processes
    approved,       \* the versions updaters have found and may still install
    alone           \* no two updaters have ever overlapped

vars == <<published, image, kept, running, approved, alone>>

Init == /\ published = 1 /\ image = 1 /\ kept = {} /\ running \subseteq {image}
        /\ approved = {} /\ alone = TRUE

Publish == published' = published + 1 /\ UNCHANGED <<image, kept, running, approved, alone>>

Updates == {v \in 1..published : \E r \in running : r < v}

\* Copies are made of the image, a torn one first, and go; so do updates.
Files == kept' \subseteq kept \cup {image, Damaged} /\ approved' \subseteq approved

\* Processes start from the image and end; updaters find updates.
Work == /\ running' \subseteq running \cup {image}
        /\ kept' \subseteq kept \cup {image, Damaged}
        /\ approved' \subseteq approved \cup Updates
        /\ alone' => alone
        /\ UNCHANGED <<published, image>>

Replacing == Files /\ UNCHANGED <<published, running, alone>>

Install == /\ image' \in approved
           /\ alone => \E r \in running : r < image'
           /\ Replacing

\* A process may be started from the copy put back in the same step.
Revert == /\ image' \in kept
          /\ running' \subseteq running \cup {image'}
          /\ Files /\ UNCHANGED <<published, alone>>

Damage == image' = Damaged /\ Replacing

Next == Publish \/ Work \/ Install \/ Revert \/ Damage

Spec == Init /\ [][Next]_vars
=============================================================================
