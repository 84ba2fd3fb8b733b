---------------------------- MODULE ServedIndex ----------------------------
(***************************************************************************)
(* What the index pipeline promises to a group: the collection that search *)
(* uses changes only as a whole, and each time to exactly what the group's *)
(* documents are at that moment. IndexPipeline implements this.            *)
(***************************************************************************)
EXTENDS Naturals

CONSTANTS Source, MaxVersion

VARIABLES
    newest,     \* the newest READY version of each document, 0 for none
    enabled,    \* the documents in use
    served      \* the version of each document that search uses

vars == <<newest, enabled, served>>

Collection == [Source -> 0..MaxVersion]
Nothing == [s \in Source |-> 0]

\* load_latest_ready_versions
Latest == [s \in Source |-> IF s \in enabled THEN newest[s] ELSE 0]

Init ==
    /\ newest = Nothing
    /\ enabled = {}
    /\ served = Nothing

\* A committed ingestion result: a new version, a page that leaves the listing,
\* a page that returns with the body it had.
NewVersion(s) ==
    /\ newest[s] < MaxVersion
    /\ newest' = [newest EXCEPT ![s] = @ + 1]
    /\ enabled' = enabled \cup {s}

Removed(s) ==
    /\ s \in enabled
    /\ enabled' = enabled \ {s}
    /\ UNCHANGED newest

Returns(s) ==
    /\ s \notin enabled
    /\ newest[s] > 0
    /\ enabled' = enabled \cup {s}
    /\ UNCHANGED newest

DocumentChanges == \E s \in Source : NewVersion(s) \/ Removed(s) \/ Returns(s)

\* A switch is never idle, and never to an empty collection.
Switch ==
    /\ Latest \notin {served, Nothing}
    /\ served' = Latest
    /\ UNCHANGED <<newest, enabled>>

Next ==
    \/ DocumentChanges /\ UNCHANGED served
    \/ Switch

Spec == Init /\ [][Next]_vars

=============================================================================
