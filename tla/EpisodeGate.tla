---------------------------- MODULE EpisodeGate ----------------------------
(***************************************************************************)
(* What Gate 3 promises of the revisions of an episode, independently of   *)
(* productions, workflows, signals and operations: manifests are put       *)
(* before the gate while a revision is undecided, each for one revision;   *)
(* one final decision, about one revision or several together, chooses     *)
(* among theirs; and each run is published once, in a manifest that was    *)
(* chosen and that holds it.                                               *)
(***************************************************************************)
CONSTANTS
    Revisions,
    Manifests,   \* a manifest m holds the runs m.runs
    Runs,
    NoManifest

VARIABLES
    offered,     \* the manifests before Gate 3, of each revision
    decided,     \* the revisions with a final decision
    chosen,      \* the manifests that the final decisions name
    published    \* the manifest that each run is published in

gate == <<offered, decided, chosen, published>>

Init ==
    /\ offered   = [r \in Revisions |-> {}]
    /\ decided   = {}
    /\ chosen    = {}
    /\ published = [k \in Runs |-> NoManifest]

\* One manifest, new to the episode.
Offer(r, m) ==
    /\ r \notin decided
    /\ \A s \in Revisions : m \notin offered[s]
    /\ m \in Manifests
    /\ offered' = [offered EXCEPT ![r] = @ \cup {m}]
    /\ UNCHANGED <<decided, chosen, published>>

\* Of the revisions decided together, some may have no manifest.
Decide(rs) ==
    /\ rs # {}
    /\ rs \cap decided = {}
    /\ decided' = decided \cup rs
    /\ \E ms \in SUBSET UNION {offered[r] : r \in rs} :
           ms # {} /\ chosen' = chosen \cup ms
    /\ UNCHANGED <<offered, published>>

Publish(k, m) ==
    /\ published[k] = NoManifest
    /\ k \in m.runs
    /\ published' = [published EXCEPT ![k] = m]
    /\ UNCHANGED <<offered, decided, chosen>>

Next ==
    \/ \E r \in Revisions : \E m \in offered'[r] : Offer(r, m)
    \/ \E rs \in SUBSET Revisions : Decide(rs)
    \/ \E m \in chosen : \E k \in m.runs : Publish(k, m)

Spec == Init /\ [][Next]_gate
=============================================================================
